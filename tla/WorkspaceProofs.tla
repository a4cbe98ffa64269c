--------------------------- MODULE WorkspaceProofs --------------------------
(***************************************************************************)
(* CleanMeansSaved and DiscardIsAgreed of FileOperations, for any files,   *)
(* any number of operations at the same time and any number of edits;      *)
(* SpinnerMeansPending and PreviewTypeOK of PreviewSession, for any layers *)
(* and requests; and WorkspaceTypeOK of the two together.                  *)
(*                                                                         *)
(* As long as nothing crossed a save or a load, at most one operation is   *)
(* out at the disk; what a save carries is the document on display, and    *)
(* what a load brings back is what the file holds.  And, whatever crosses, *)
(* a load past its question has the user's agreement, or found nothing     *)
(* unsaved, which only an edit changes, and that edit marked it.           *)
(*                                                                         *)
(* The spinner is right together with the range of the requests in flight: *)
(* a number not given out yet is not in flight, so a new request, or a     *)
(* reset, is not answered by an old answer.  The scrubber is right because *)
(* inserting, removing and moving keep the list without repetition, and a  *)
(* change of its length, or the viewport's return, sets the scrubber.      *)
(*                                                                         *)
(* The recent files are typed by what their filter keeps of any list: the  *)
(* elements of a prefix, in a sequence without the path and without        *)
(* repetition, one element further each time.                              *)
(***************************************************************************)
EXTENDS MCWorkspace, FiniteSetTheorems, WellFoundedInduction, TLAPS

-----------------------------------------------------------------------------
(* The project's file operations *)

OpRec == [at : Places, kind : {"none", "new", "open", "save"},
          path : Files \cup {NoFile}, body : Versions \cup {Torn},
          attempt : Nat, agreed : BOOLEAN, late : BOOLEAN]

AtDisk(r) == r.at \in {"read", "loaded", "write", "written", "wait"}

\* What each place says of an operation ...
WellFormed(r) ==
  /\ r \in OpRec
  /\ r.at \in {"write", "written"} => r.kind = "save"
  /\ r.at \in {"read", "loaded"} => r.kind = "open"
  /\ r.at = "wait" => r.kind \in {"save", "open"}
  /\ AtDisk(r) => r.path \in Files

\* ... what allows a load to go past its question ...
Licensed(r) ==
  r.kind = "open" /\ (AtDisk(r) \/ r.at = "pick") => r.agreed \/ r.late \/ ~isDirty

\* ... and of the session and the disk, as long as nothing was crossed.
Sound(r) ==
  /\ AtDisk(r) /\ r.kind = "save" => r.body = document
  /\ r.at \in {"written", "loaded"} => disk[r.path] = r.body

OneAtDisk == \A o, p \in Ops : AtDisk(op[o]) /\ AtDisk(op[p]) => o = p

SessionInv ==
  /\ filePath \in Files \cup {NoFile} /\ document \in Versions
  /\ revision \in Nat /\ savedRevision \in Nat /\ savedRevision <= revision
  /\ disk \in [Files -> Versions \cup {Torn}]
  /\ edits \in 0..MaxEdits /\ crossed \in BOOLEAN

OpsInv == op \in [Ops -> OpRec] /\ \A o \in Ops : WellFormed(op[o]) /\ Licensed(op[o])

CalmInv ==
  ~crossed => /\ OneAtDisk
              /\ \A o \in Ops : Sound(op[o])
              /\ CleanDocumentIsOnDisk

\* The inductive invariant.
FileInv == SessionInv /\ OpsInv /\ CalmInv

-----------------------------------------------------------------------------
(* The shapes that the steps have *)

\* Only the user's operation moves, to a record that is sound where it is.
LEMMA MovesOp ==
  ASSUME FileInv, NEW o \in Ops, NEW r, WellFormed(r), Licensed(r), Goes(o, r),
         UNCHANGED <<document, filePath, revision, savedRevision, disk, edits>>,
         crossed' \in BOOLEAN,
         ~crossed' => /\ ~crossed /\ Sound(r)
                      /\ AtDisk(r) => \A p \in Ops \ {o} : ~AtDisk(op[p])
  PROVE  FileInv'
<1>1. SessionInv'
  BY DEF FileInv, SessionInv
<1>2. op' = [op EXCEPT ![o] = r] /\ r \in OpRec /\ op \in [Ops -> OpRec]
  BY DEF Goes, WellFormed, FileInv, OpsInv
<1>3. op' \in [Ops -> OpRec] /\ op'[o] = r /\ \A p \in Ops \ {o} : op'[p] = op[p]
  BY <1>2
<1>4. OpsInv'
  BY <1>3 DEF FileInv, OpsInv, WellFormed, Licensed, AtDisk, isDirty
<1>5. ASSUME ~crossed' PROVE OneAtDisk'
  BY <1>3, <1>5 DEF FileInv, CalmInv, OneAtDisk, AtDisk
<1>6. ASSUME ~crossed' PROVE \A p \in Ops : Sound(op[p])'
  BY <1>3, <1>6 DEF FileInv, CalmInv, Sound, AtDisk, isDirty
<1>7. ASSUME ~crossed' PROVE CleanDocumentIsOnDisk'
  BY <1>7 DEF FileInv, CalmInv, CleanDocumentIsOnDisk, isDirty
<1> QED BY <1>1, <1>4, <1>5, <1>6, <1>7 DEF FileInv, CalmInv

\* A document is put on display: the empty one, or what a file holds.
LEMMA PutsOnDisplay ==
  ASSUME FileInv, NEW o \in Ops, NEW d, NEW f, Done(o), LoadDocument(d, f),
         UNCHANGED <<disk, edits>>, crossed' \in BOOLEAN,
         d \in Versions, f \in Files \cup {NoFile},
         ~crossed' => /\ ~crossed
                      /\ \A p \in Ops \ {o} : ~AtDisk(op[p])
                      /\ IF f = NoFile THEN d = 0 ELSE disk[f] = d
  PROVE  FileInv'
<1>1. SessionInv'
  BY DEF FileInv, SessionInv, LoadDocument
<1>2. WellFormed(Idle) /\ ~AtDisk(Idle) /\ Idle.kind = "none"
  BY DEF WellFormed, AtDisk, Idle, OpRec, Places, Versions
<1>3. /\ op' \in [Ops -> OpRec] /\ op'[o] = Idle
      /\ \A p \in Ops \ {o} : op'[p] = op[p]
  BY <1>2 DEF Done, Goes, WellFormed, FileInv, OpsInv
<1>4. OpsInv'
  <2>1. ~isDirty'
    BY DEF LoadDocument, isDirty
  <2> QED BY <1>2, <1>3, <2>1 DEF FileInv, OpsInv, WellFormed, Licensed, AtDisk
<1>5. ASSUME ~crossed' PROVE OneAtDisk'
  BY <1>2, <1>3, <1>5 DEF OneAtDisk, AtDisk
<1>6. ASSUME ~crossed', NEW p \in Ops PROVE Sound(op[p])'
  <2>1. ~AtDisk(op'[p])
    BY <1>2, <1>3, <1>6
  <2> QED BY <2>1 DEF Sound, AtDisk
<1>7. ASSUME ~crossed' PROVE CleanDocumentIsOnDisk'
  BY <1>7 DEF CleanDocumentIsOnDisk, LoadDocument
<1> QED BY <1>1, <1>4, <1>5, <1>6, <1>7 DEF FileInv, CalmInv

-----------------------------------------------------------------------------
(* The steps *)

\* An operation that has not come to the disk is well formed in any shape.
LEMMA FreshRecords ==
  ASSUME NEW r \in OpRec, r.at \in {"free", "ask", "pick"}
  PROVE  WellFormed(r) /\ ~AtDisk(r)
BY DEF WellFormed, AtDisk

LEMMA IdleRecord == Idle \in OpRec /\ Idle.at = "free" /\ Idle.kind = "none"
BY DEF Idle, OpRec, Places, Versions

LEMMA FileInitInv == FileInit => FileInv
<1> SUFFICES ASSUME FileInit PROVE FileInv
  OBVIOUS
<1>1. SessionInv
  <2>1. disk \in [Files -> Versions \cup {Torn}]
    BY DEF FileInit, Versions
  <2>2. edits \in 0..MaxEdits /\ document \in Versions
    BY FilesAssumption DEF FileInit, Versions
  <2>3. filePath \in Files \cup {NoFile} /\ crossed \in BOOLEAN
    BY DEF FileInit
  <2>4. revision \in Nat /\ savedRevision \in Nat /\ savedRevision <= revision
    BY DEF FileInit
  <2> QED BY <2>1, <2>2, <2>3, <2>4 DEF SessionInv
<1>2. WellFormed(Idle) /\ ~AtDisk(Idle) /\ Idle.kind = "none"
  BY DEF WellFormed, AtDisk, Idle, OpRec, Places, Versions
<1>3. op \in [Ops -> OpRec] /\ \A o \in Ops : op[o] = Idle
  BY <1>2 DEF FileInit, WellFormed
<1>4. OpsInv
  BY <1>2, <1>3 DEF OpsInv, Licensed
<1>5. CalmInv
  BY <1>2, <1>3 DEF CalmInv, OneAtDisk, Sound, AtDisk, CleanDocumentIsOnDisk, isDirty, FileInit
<1> QED BY <1>1, <1>4, <1>5 DEF FileInv

\* What Cross says: if nothing is crossed after the step, no other operation was
\* out at the disk.
LEMMA CrossMeans ==
  ASSUME FileInv, NEW S \in SUBSET Ops, Cross(S)
  PROVE  /\ crossed' \in BOOLEAN
         /\ ~crossed' => ~crossed /\ \A p \in S : ~AtDisk(op[p])
BY DEF Cross, OnDisk, AtDisk, FileInv, SessionInv

\* An edit waits for the dialogs, marks the loads and crosses what is out at the disk.
LEMMA EditKeeps == FileInv /\ Edit => FileInv'
<1> SUFFICES ASSUME FileInv, Edit PROVE FileInv'
  OBVIOUS
<1>1. SessionInv'
  <2>1. crossed' \in BOOLEAN
    BY CrossMeans DEF Edit
  <2>2. document' \in Versions
    BY FilesAssumption DEF Edit, FileInv, SessionInv, Versions
  <2> QED BY <2>1, <2>2, FilesAssumption DEF Edit, FileInv, SessionInv
<1>2. ASSUME NEW p \in Ops
      PROVE  /\ op'[p] \in OpRec
             /\ op'[p].at = op[p].at /\ op'[p].kind = op[p].kind /\ op'[p].path = op[p].path
             /\ op'[p].body = op[p].body
             /\ op[p].kind = "open" => op'[p].late
  <2>1. op[p] \in OpRec
    BY DEF FileInv, OpsInv
  <2>2. op'[p] = [op[p] EXCEPT !.late = op[p].late \/ op[p].kind = "open"]
    BY DEF Edit
  <2>3. (op[p].late \/ op[p].kind = "open") \in BOOLEAN
    OBVIOUS
  <2> QED BY <2>1, <2>2, <2>3 DEF OpRec
<1>6. op' \in [Ops -> OpRec]
  <2>1. op' = [p \in Ops |-> op'[p]]
    BY DEF Edit
  <2> QED BY <1>2, <2>1
<1>7. OpsInv'
  BY <1>2, <1>6 DEF FileInv, OpsInv, WellFormed, Licensed, AtDisk
<1>3. ASSUME ~crossed' PROVE ~crossed /\ \A p \in Ops : ~AtDisk(op[p])
  BY <1>3, CrossMeans DEF Edit
<1>4. ASSUME ~crossed' PROVE CleanDocumentIsOnDisk'
  BY DEF CleanDocumentIsOnDisk, isDirty, Edit, FileInv, SessionInv
<1>5. ASSUME ~crossed' PROVE OneAtDisk' /\ \A o \in Ops : Sound(op[o])'
  BY <1>2, <1>3, <1>5 DEF OneAtDisk, Sound, AtDisk
<1> QED BY <1>1, <1>7, <1>4, <1>5 DEF FileInv, CalmInv

\* The first attempt of a call to the disk.
LEMMA CallsKeeps ==
  ASSUME FileInv, NEW o \in Ops, NEW at \in {"read", "write"}, NEW r,
         WellFormed(r), ~AtDisk(r), Calls(o, at, r), UNCHANGED <<sessionVars, disk, edits>>,
         r.path \in Files,
         IF at = "write" THEN r.kind = "save" /\ r.body = document
                         ELSE r.kind = "open" /\ (r.agreed \/ r.late \/ ~isDirty)
  PROVE  FileInv'
<1> DEFINE s == [r EXCEPT !.at = at, !.attempt = 1]
<1>1. /\ WellFormed(s) /\ s.kind = r.kind /\ s.body = r.body /\ s.agreed = r.agreed
      /\ s.late = r.late /\ s.path = r.path /\ s.at = at
  BY DEF WellFormed, OpRec, Places, AtDisk
<1>2. Sound(s) /\ Licensed(s)
  BY <1>1 DEF Sound, Licensed, AtDisk
<1>3. Ops \ {o} \in SUBSET Ops /\ Cross(Ops \ {o}) /\ Goes(o, s)
  BY DEF Calls
<1> HIDE DEF s
<1> QED BY <1>1, <1>2, <1>3, CrossMeans, MovesOp DEF sessionVars

\* What follows the question, or the finding that nothing is unsaved.
LEMMA ConfirmedKeeps ==
  ASSUME FileInv, NEW o \in Ops, NEW r \in OpRec, r.at \in {"free", "ask", "pick"},
         r.agreed \/ ~isDirty, Confirmed(o, r), UNCHANGED <<disk, edits>>
  PROVE  FileInv'
<1>1. CASE r.kind = "new" /\ LoadDocument(0, NoFile) /\ Done(o) /\ Cross(Ops \ {o})
  <2>1. 0 \in Versions
    BY DEF Versions
  <2> QED BY <1>1, <2>1, CrossMeans, PutsOnDisplay
<1>2. CASE /\ r.kind = "open" /\ Goes(o, [r EXCEPT !.at = "pick"])
           /\ UNCHANGED <<sessionVars, crossed>>
  <2> DEFINE s == [r EXCEPT !.at = "pick"]
  <2>1. s \in OpRec /\ s.at = "pick" /\ s.agreed = r.agreed
    BY DEF OpRec, Places
  <2>2. WellFormed(s) /\ ~AtDisk(s) /\ Sound(s) /\ Licensed(s)
    BY <2>1, FreshRecords DEF Sound, Licensed, AtDisk
  <2>3. Goes(o, s)
    BY <1>2
  <2> HIDE DEF s
  <2> QED BY <1>2, <2>2, <2>3, MovesOp DEF sessionVars, FileInv, SessionInv
<1>3. CASE r.kind = "open" /\ r.path # NoFile /\ Read(o, r, r.path) /\ UNCHANGED sessionVars
  <2> DEFINE s == [r EXCEPT !.path = r.path]
  <2>1. s = r /\ r.path \in Files
    BY <1>3 DEF OpRec
  <2>2. Calls(o, "read", r)
    BY <1>3, <2>1 DEF Read
  <2> QED BY <1>3, <2>1, <2>2, FreshRecords, CallsKeeps
<1> QED BY <1>1, <1>2, <1>3 DEF Confirmed

LEMMA BeginKeeps ==
  ASSUME FileInv, NEW o \in Ops, NEW kind \in {"new", "open"},
         NEW f \in Files \cup {NoFile}, Begin(o, kind, f)
  PROVE  FileInv'
<1> DEFINE r == [Idle EXCEPT !.kind = kind, !.path = f]
           s == [r EXCEPT !.at = "ask"]
<1>1. r \in OpRec /\ r.at = "free"
  BY IdleRecord DEF OpRec
<1>2. s \in OpRec /\ s.at = "ask"
  BY <1>1 DEF OpRec, Places
<1>3. /\ UNCHANGED <<disk, edits>>
      /\ \/ Goes(o, s) /\ UNCHANGED <<sessionVars, crossed>>
         \/ ~isDirty /\ Confirmed(o, r)
  BY DEF Begin, NeedsConfirm
<1> HIDE DEF r, s
<1>4. CASE Goes(o, s) /\ UNCHANGED <<sessionVars, crossed>>
  <2>1. WellFormed(s) /\ ~AtDisk(s) /\ Sound(s) /\ Licensed(s)
    BY <1>2, FreshRecords DEF Sound, Licensed, AtDisk
  <2> QED BY <1>3, <1>4, <2>1, MovesOp DEF sessionVars, FileInv, SessionInv
<1>5. CASE ~isDirty /\ Confirmed(o, r)
  BY <1>1, <1>3, <1>5, ConfirmedKeeps
<1> QED BY <1>3, <1>4, <1>5

\* An operation that is over, or waits for the path of a save, is sound.
LEMMA RestsKeeps ==
  ASSUME FileInv, NEW o \in Ops, NEW r \in OpRec, r.at \in {"free", "pick"},
         r.kind # "open", Goes(o, r),
         UNCHANGED <<document, filePath, revision, savedRevision, disk, edits, crossed>>
  PROVE  FileInv'
<1>1. WellFormed(r) /\ ~AtDisk(r) /\ Sound(r) /\ Licensed(r)
  BY FreshRecords DEF Sound, Licensed, AtDisk
<1> QED BY <1>1, MovesOp DEF FileInv, SessionInv

LEMMA OverKeeps ==
  ASSUME FileInv, NEW o \in Ops, Done(o),
         UNCHANGED <<document, filePath, revision, savedRevision, disk, edits, crossed>>
  PROVE  FileInv'
BY RestsKeeps, IdleRecord DEF Done

LEMMA WriteKeeps ==
  ASSUME FileInv, NEW o \in Ops, NEW f \in Files, Write(o, f),
         UNCHANGED <<sessionVars, disk, edits>>
  PROVE  FileInv'
<1> DEFINE r == [Idle EXCEPT !.kind = "save", !.path = f, !.body = document]
<1>1. /\ r \in OpRec /\ r.at = "free" /\ r.kind = "save" /\ r.body = document
      /\ r.path = f
  BY IdleRecord DEF OpRec, FileInv, SessionInv
<1>2. Calls(o, "write", r)
  BY DEF Write
<1> HIDE DEF r
<1> QED BY <1>1, <1>2, FreshRecords, CallsKeeps

LEMMA SaveKeeps ==
  ASSUME FileInv, NEW o \in Ops, SaveProject(o) \/ SaveProjectAs(o)
  PROVE  FileInv'
<1> DEFINE r == [Idle EXCEPT !.at = "pick", !.kind = "save"]
<1>1. r \in OpRec /\ r.at = "pick" /\ r.kind = "save"
  BY IdleRecord DEF OpRec, Places
<1>2. CASE Goes(o, r) /\ UNCHANGED <<sessionVars, disk, edits, crossed>>
  BY <1>1, <1>2, RestsKeeps DEF sessionVars
<1>3. CASE filePath # NoFile /\ Write(o, filePath) /\ UNCHANGED <<sessionVars, disk, edits>>
  BY <1>3, WriteKeeps DEF FileInv, SessionInv
<1> QED BY <1>2, <1>3 DEF SaveProject, SaveProjectAs

LEMMA AnswerKeeps ==
  ASSUME FileInv, NEW o \in Ops, Answer(o)
  PROVE  FileInv'
<1> DEFINE r == [op[o] EXCEPT !.agreed = TRUE]
<1>1. r \in OpRec /\ r.at = "ask" /\ r.agreed
  BY DEF Answer, FileInv, OpsInv, OpRec
<1>2. CASE Done(o) /\ UNCHANGED <<sessionVars, crossed, disk, edits>>
  BY <1>2, OverKeeps DEF sessionVars
<1>3. CASE Confirmed(o, r) /\ UNCHANGED <<disk, edits>>
  BY <1>1, <1>3, ConfirmedKeeps
<1> QED BY <1>2, <1>3 DEF Answer

\* The dialog of a load was opened with nothing unsaved or by agreement.
LEMMA PickKeeps ==
  ASSUME FileInv, NEW o \in Ops, Pick(o)
  PROVE  FileInv'
<1>1. CASE Done(o) /\ UNCHANGED <<sessionVars, crossed, disk, edits>>
  BY <1>1, OverKeeps DEF sessionVars
<1>2. ASSUME NEW f \in Files, op[o].kind = "save", Write(o, f),
             UNCHANGED <<sessionVars, disk, edits>>
      PROVE  FileInv'
  BY <1>2, WriteKeeps
<1>3. ASSUME NEW f \in Files, op[o].kind = "open", Read(o, op[o], f),
             UNCHANGED <<sessionVars, disk, edits>>
      PROVE  FileInv'
  <2> DEFINE r == [op[o] EXCEPT !.path = f]
  <2>1. /\ r \in OpRec /\ r.at = "pick" /\ r.kind = "open" /\ r.path = f
        /\ r.agreed = op[o].agreed /\ r.late = op[o].late
    BY <1>3 DEF Pick, FileInv, OpsInv, OpRec
  <2>2. Calls(o, "read", r)
    BY <1>3 DEF Read
  <2>3. r.agreed \/ r.late \/ ~isDirty
    BY <2>1, <1>3 DEF FileInv, OpsInv, Licensed, Pick
  <2> HIDE DEF r
  <2> QED BY <1>3, <2>1, <2>2, <2>3, FreshRecords, CallsKeeps
<1> QED BY <1>1, <1>2, <1>3 DEF Pick

\* An operation at the disk goes on there with what it has.
LEMMA GoesOn ==
  ASSUME FileInv, NEW o \in Ops, AtDisk(op[o]), NEW r, WellFormed(r), Goes(o, r),
         r.kind = op[o].kind, r.agreed = op[o].agreed, r.late = op[o].late, r.path = op[o].path,
         r.body = op[o].body \/ r.kind = "open",
         r.at \in {"written", "loaded"} => disk[r.path] = r.body,
         UNCHANGED <<document, filePath, revision, savedRevision, disk, edits, crossed>>
  PROVE  FileInv'
<1>1. ~crossed => Sound(r) /\ \A p \in Ops \ {o} : ~AtDisk(op[p])
  BY DEF FileInv, CalmInv, OneAtDisk, Sound, AtDisk
<1>2. Licensed(r)
  BY DEF FileInv, OpsInv, Licensed
<1> QED BY <1>1, <1>2, MovesOp DEF FileInv, SessionInv

LEMMA FailedKeeps ==
  ASSUME FileInv, NEW o \in Ops, op[o].at \in {"read", "write"}, Failed(o),
         UNCHANGED <<sessionVars, disk, edits, crossed>>
  PROVE  FileInv'
<1> DEFINE r == [op[o] EXCEPT !.at = "wait"]
<1>1. /\ WellFormed(r) /\ r.at = "wait" /\ r.kind = op[o].kind
      /\ r.agreed = op[o].agreed /\ r.late = op[o].late /\ r.path = op[o].path
      /\ r.body = op[o].body
  BY DEF FileInv, OpsInv, WellFormed, OpRec, AtDisk, Places
<1> HIDE DEF r
<1>2. CASE Goes(o, r)
  BY <1>1, <1>2, GoesOn DEF sessionVars, AtDisk
<1>3. CASE Done(o)
  BY <1>3, OverKeeps DEF sessionVars
<1> QED BY <1>2, <1>3 DEF Failed, r

LEMMA RetryKeeps ==
  ASSUME FileInv, NEW o \in Ops, Retry(o)
  PROVE  FileInv'
<1> DEFINE at == IF op[o].kind = "save" THEN "write" ELSE "read"
           n == op[o].attempt + 1
           r == [op[o] EXCEPT !.at = at, !.attempt = n]
<1>1. op[o] \in OpRec /\ op[o].at = "wait" /\ op[o].kind \in {"save", "open"}
      /\ op[o].path \in Files
  BY DEF Retry, FileInv, OpsInv, WellFormed, AtDisk
<1>2. at \in Places /\ n \in Nat
  BY <1>1 DEF OpRec, Places
<1>3. Goes(o, r) /\ UNCHANGED <<sessionVars, disk, edits, crossed>>
  BY DEF Retry
<1> HIDE DEF at, n
<1>4. /\ r \in OpRec /\ r.at = at /\ r.kind = op[o].kind /\ r.agreed = op[o].agreed
      /\ r.late = op[o].late /\ r.path = op[o].path /\ r.body = op[o].body
  BY <1>1, <1>2 DEF OpRec
<1> HIDE DEF r
<1>5. WellFormed(r)
  BY <1>1, <1>4 DEF WellFormed, at
<1> QED BY <1>1, <1>3, <1>4, <1>5, GoesOn DEF sessionVars, AtDisk, at

LEMMA DiskReadsKeeps ==
  ASSUME FileInv, NEW o \in Ops, DiskReads(o)
  PROVE  FileInv'
<1> DEFINE r == [op[o] EXCEPT !.at = "loaded", !.body = disk[op[o].path]]
<1>1. CASE Failed(o)
  BY <1>1, FailedKeeps DEF DiskReads
<1>2. CASE Goes(o, r)
  <2>1. /\ op[o] \in OpRec /\ op[o].at = "read" /\ op[o].kind = "open"
        /\ op[o].path \in Files
    BY DEF DiskReads, FileInv, OpsInv, WellFormed, AtDisk
  <2>2. disk[op[o].path] \in Versions \cup {Torn}
    BY <2>1 DEF FileInv, SessionInv
  <2>3. /\ r \in OpRec /\ r.at = "loaded" /\ r.kind = "open" /\ r.path = op[o].path
        /\ r.agreed = op[o].agreed /\ r.late = op[o].late /\ r.body = disk[r.path]
    BY <2>1, <2>2 DEF OpRec, Places
  <2> HIDE DEF r
  <2>4. WellFormed(r)
    BY <2>1, <2>3 DEF WellFormed
  <2> QED BY <1>2, <2>1, <2>3, <2>4, GoesOn DEF DiskReads, sessionVars, AtDisk
<1> QED BY <1>1, <1>2 DEF DiskReads

LEMMA LoadedKeeps ==
  ASSUME FileInv, NEW o \in Ops, Loaded(o)
  PROVE  FileInv'
<1>1. CASE UNCHANGED sessionVars
  BY <1>1, OverKeeps DEF Loaded, sessionVars
<1>2. CASE op[o].body # Torn /\ LoadDocument(op[o].body, op[o].path)
  <2>1. /\ op[o] \in OpRec /\ op[o].at = "loaded" /\ AtDisk(op[o])
        /\ op[o].path \in Files
    BY DEF Loaded, FileInv, OpsInv, WellFormed, AtDisk
  <2>2. op[o].body \in Versions /\ op[o].path # NoFile
    BY <1>2, <2>1, FilesAssumption DEF OpRec
  <2>3. /\ crossed' = crossed /\ crossed \in BOOLEAN
        /\ ~crossed => /\ \A p \in Ops \ {o} : ~AtDisk(op[p])
                       /\ disk[op[o].path] = op[o].body
    BY <2>1 DEF Loaded, FileInv, SessionInv, CalmInv, OneAtDisk, Sound
  <2> QED BY <1>2, <2>1, <2>2, <2>3, PutsOnDisplay DEF Loaded
<1> QED BY <1>1, <1>2 DEF Loaded

\* A write changes the file and nothing else; the document on display stays what
\* the file holds, unless the write tears it.
LEMMA DiskWritesKeeps ==
  ASSUME FileInv, NEW o \in Ops, DiskWrites(o)
  PROVE  FileInv'
<1> DEFINE f == op[o].path
<1>1. /\ op[o] \in OpRec /\ op[o].at = "write" /\ op[o].kind = "save"
      /\ AtDisk(op[o]) /\ f \in Files
  BY DEF DiskWrites, FileInv, OpsInv, WellFormed, AtDisk
<1>2. CASE disk' = disk /\ Failed(o)
  BY <1>1, <1>2, FailedKeeps DEF DiskWrites
<1>3. ASSUME NEW d \in {op[o].body, Torn},
             NEW r \in {[op[o] EXCEPT !.at = "written"], [op[o] EXCEPT !.at = "wait"], Idle},
             disk' = [disk EXCEPT ![f] = d], Goes(o, r),
             r.at = "written" => d = op[o].body
      PROVE  FileInv'
  <2>2. /\ d \in Versions \cup {Torn}
        /\ disk' \in [Files -> Versions \cup {Torn}]
        /\ disk'[f] = d /\ \A g \in Files \ {f} : disk'[g] = disk[g]
    BY <1>1, <1>3 DEF OpRec, FileInv, SessionInv
  <2>3. UNCHANGED <<document, filePath, revision, savedRevision, edits, crossed>>
    BY DEF DiskWrites, sessionVars
  <2>4. /\ r \in OpRec /\ r.at \in {"written", "wait", "free"}
        /\ r.at # "free" => /\ r.kind = "save" /\ r.path = f
                            /\ r.body = op[o].body
    BY <1>1, IdleRecord DEF OpRec, Places
  <2>5. WellFormed(r)
    BY <1>1, <2>4 DEF WellFormed, AtDisk
  <2>6. /\ op' \in [Ops -> OpRec] /\ op'[o] = r
        /\ \A p \in Ops \ {o} : op'[p] = op[p]
    BY <1>3, <2>4 DEF Goes, FileInv, OpsInv
  <2>7. SessionInv' /\ OpsInv'
    <3>1. SessionInv'
      BY <2>2, <2>3 DEF FileInv, SessionInv
    <3>2. ASSUME NEW p \in Ops PROVE (WellFormed(op[p]) /\ Licensed(op[p]))'
      <4>1. CASE p = o
        BY <2>4, <2>5, <2>6, <4>1, IdleRecord DEF Licensed, WellFormed, AtDisk, isDirty
      <4>2. CASE p # o
        BY <2>3, <2>6, <4>2 DEF FileInv, OpsInv, WellFormed, Licensed, AtDisk, isDirty
      <4> QED BY <4>1, <4>2
    <3> QED BY <2>6, <3>1, <3>2 DEF OpsInv
  <2>8. ASSUME ~crossed
        PROVE  /\ op[o].body = document /\ CleanDocumentIsOnDisk
               /\ \A p \in Ops \ {o} : Sound(op[p]) /\ ~AtDisk(op[p])
    BY <1>1, <2>8 DEF FileInv, CalmInv, OneAtDisk, Sound
  <2>9. ASSUME ~crossed' PROVE OneAtDisk'
    BY <2>3, <2>6, <2>8, <2>9 DEF OneAtDisk, AtDisk
  <2>10. ASSUME ~crossed', NEW p \in Ops PROVE Sound(op[p])'
    <3>1. CASE p = o
      <4>1. op'[p] = r /\ document' = document /\ op[o].body = document
        BY <2>3, <2>6, <2>8, <2>10, <3>1
      <4> QED BY <1>3, <2>2, <2>4, <4>1, IdleRecord DEF Sound, AtDisk
    <3>2. CASE p # o
      BY <2>3, <2>6, <2>8, <2>10, <3>2 DEF Sound, AtDisk, isDirty
    <3> QED BY <3>1, <3>2
  <2>11. ASSUME ~crossed' PROVE CleanDocumentIsOnDisk'
    <3>1. filePath \in Files \cup {NoFile} /\ d \in {document, Torn}
      BY <1>3, <2>3, <2>8, <2>11 DEF FileInv, SessionInv
    <3> QED BY <2>2, <2>3, <2>8, <2>11, <3>1 DEF CleanDocumentIsOnDisk, isDirty
  <2> QED BY <2>7, <2>9, <2>10, <2>11 DEF FileInv, CalmInv
<1>4. CASE disk' = [disk EXCEPT ![f] = op[o].body] /\ Goes(o, [op[o] EXCEPT !.at = "written"])
  BY <1>3, <1>4
<1>5. CASE disk' = [disk EXCEPT ![f] = Torn] /\ Failed(o)
  <2>1. [op[o] EXCEPT !.at = "wait"].at = "wait" /\ Idle.at = "free"
    BY <1>1, IdleRecord DEF OpRec
  <2> QED BY <1>3, <1>5, <2>1 DEF Failed, Done
<1> QED BY <1>2, <1>4, <1>5 DEF DiskWrites

LEMMA SavedKeeps ==
  ASSUME FileInv, NEW o \in Ops, Saved(o)
  PROVE  FileInv'
<1>1. /\ op[o] \in OpRec /\ op[o].at = "written" /\ op[o].kind = "save"
      /\ AtDisk(op[o]) /\ op[o].path \in Files
  BY DEF Saved, FileInv, OpsInv, WellFormed, AtDisk
<1>2. /\ filePath' = op[o].path /\ savedRevision' = revision /\ ~isDirty'
      /\ UNCHANGED <<document, revision, disk, edits, crossed>>
  BY DEF Saved, isDirty
<1>3. SessionInv'
  BY <1>1, <1>2 DEF FileInv, SessionInv
<1>4. /\ WellFormed(Idle) /\ ~AtDisk(Idle) /\ Idle.kind = "none"
      /\ op' \in [Ops -> OpRec] /\ op'[o] = Idle
      /\ \A p \in Ops \ {o} : op'[p] = op[p]
  BY IdleRecord, FreshRecords DEF Saved, Done, Goes, FileInv, OpsInv
<1>5. OpsInv'
  BY <1>2, <1>4 DEF FileInv, OpsInv, WellFormed, Licensed, AtDisk
<1>6. ASSUME ~crossed
      PROVE  /\ disk[op[o].path] = document
             /\ \A p \in Ops \ {o} : ~AtDisk(op[p])
  BY <1>1, <1>6 DEF FileInv, CalmInv, OneAtDisk, Sound
<1>7. ASSUME ~crossed' PROVE OneAtDisk' /\ CleanDocumentIsOnDisk'
  <2>1. OneAtDisk'
    BY <1>2, <1>4, <1>6, <1>7 DEF OneAtDisk, AtDisk
  <2>2. CleanDocumentIsOnDisk'
    BY <1>1, <1>2, <1>6, <1>7, FilesAssumption DEF CleanDocumentIsOnDisk
  <2> QED BY <2>1, <2>2
<1>8. ASSUME ~crossed', NEW p \in Ops PROVE Sound(op[p])'
  <2>1. ~AtDisk(op'[p])
    BY <1>2, <1>4, <1>6, <1>8
  <2> QED BY <1>2, <2>1 DEF Sound, AtDisk
<1> QED BY <1>3, <1>5, <1>7, <1>8 DEF FileInv, CalmInv

LEMMA FileStep == FileInv /\ [FileNext]_fileVars => FileInv'
<1> SUFFICES ASSUME FileInv, [FileNext]_fileVars PROVE FileInv'
  OBVIOUS
<1>1. ASSUME NEW o \in Ops, UserStep(o) PROVE FileInv'
  <2>1. CASE NewProject(o) \/ OpenProject(o) \/ OpenRecent(o)
    BY <2>1, BeginKeeps DEF NewProject, OpenProject, OpenRecent
  <2> QED BY <1>1, <2>1, SaveKeeps, AnswerKeeps, PickKeeps DEF UserStep
<1>2. ASSUME NEW o \in Ops, CallStep(o) PROVE FileInv'
  BY <1>2, RetryKeeps, DiskReadsKeeps, LoadedKeeps, DiskWritesKeeps, SavedKeeps DEF CallStep
<1>3. CASE UNCHANGED fileVars
  <2>1. SessionInv' /\ OpsInv'
    BY <1>3 DEF fileVars, FileInv, SessionInv, OpsInv, WellFormed, Licensed, AtDisk, isDirty
  <2>2. CalmInv'
    BY <1>3 DEF fileVars, FileInv, CalmInv, OneAtDisk, AtDisk, Sound,
       CleanDocumentIsOnDisk, isDirty
  <2> QED BY <2>1, <2>2 DEF FileInv
<1> QED BY <1>1, <1>2, <1>3, EditKeeps DEF FileNext

LEMMA FileInvHolds == FileSpec => []FileInv
BY FileInitInv, FileStep, PTL DEF FileSpec

\* A document shown without unsaved changes is the empty one or what its file
\* holds, for any files, operations, retries and failures (file-operations.svelte.ts
\* and project-session.svelte.ts:138), as long as nothing crossed a save or a load.
THEOREM CleanDocumentsAreSaved == FileSpec => []CleanMeansSaved
<1>1. FileInv => CleanMeansSaved
  BY DEF FileInv, CalmInv, CleanMeansSaved
<1> QED BY <1>1, FileInvHolds, PTL

-----------------------------------------------------------------------------
(* The list of recent files, with what is filtered out of it *)

\* The order of the naturals, as a relation.
Below == {p \in Nat \X Nat : p[1] < p[2]}

\* Every set of naturals has a least element.
LEMMA LeastNatural ==
  ASSUME NEW S \in SUBSET Nat, S # {}
  PROVE  \E x \in S : \A y \in S : x =< y
<1>1. IsWellFoundedOn(Below, Nat)
  BY NatLessThanWellFounded DEF OpToRel, Below
<1>2. PICK x \in S : \A y \in S : ~ (<<y, x>> \in Below)
  BY <1>1, WFMin
<1>3. \A y \in S : x =< y
  <2> SUFFICES ASSUME NEW y \in S PROVE x =< y
    OBVIOUS
  <2>1. <<y, x>> \notin Below /\ x \in Nat /\ y \in Nat
    BY <1>2
  <2>2. ~(y < x)
    BY <2>1 DEF Below
  <2> QED BY <2>1, <2>2
<1> QED BY <1>3

\* Induction over the naturals, of a set: its least counterexample has none.
LEMMA NatSetInduction ==
  ASSUME NEW S, 0 \in S, \A n \in Nat : n \in S => n + 1 \in S
  PROVE  Nat \subseteq S
<1> DEFINE T == Nat \ S
<1> SUFFICES ASSUME T # {} PROVE FALSE
  OBVIOUS
<1>1. PICK x \in T : \A y \in T : x =< y
  <2>1. T \in SUBSET Nat
    OBVIOUS
  <2> QED BY <2>1, LeastNatural
<1>2. x # 0
  OBVIOUS
<1>3. x - 1 \in Nat /\ x - 1 \notin T
  BY <1>1, <1>2
<1>4. (x - 1) + 1 = x
  BY <1>1
<1> QED BY <1>3, <1>4

\* The function that OtherRecentFiles computes: the first k files without f.
Others(g, f, n) ==
  g = [k \in 0..n |-> IF k = 0 THEN <<>>
                      ELSE IF recent[k] = f THEN g[k - 1]
                      ELSE Append(g[k - 1], recent[k])]

LEMMA OthersNext ==
  ASSUME NEW g, NEW f, NEW n \in Nat, Others(g, f, n)
  PROVE  \E h : Others(h, f, n + 1)
<1> DEFINE h == [k \in 0..(n + 1) |-> IF k =< n THEN g[k]
                                      ELSE IF recent[n + 1] = f THEN g[n]
                                      ELSE Append(g[n], recent[n + 1])]
           S(k, l) == IF k = 0 THEN <<>>
                      ELSE IF recent[k] = f THEN l
                      ELSE Append(l, recent[k])
<1>1. \A k \in 0..n : g[k] = S(k, g[k - 1])
  BY DEF Others
<1>2. (\A k \in 0..n : h[k] = g[k]) /\ h[n + 1] = S(n + 1, g[n])
  OBVIOUS
<1>3. h = [k \in 0..(n + 1) |-> h[k]]
  OBVIOUS
<1> HIDE DEF h, S
<1>4. ASSUME NEW k \in 0..(n + 1) PROVE h[k] = S(k, h[k - 1])
  <2>1. CASE k \in 1..n
    BY <1>1, <1>2, <2>1
  <2>2. CASE k = n + 1
    BY <1>2, <2>2
  <2>3. CASE k = 0
    BY <1>1, <1>2, <2>3 DEF S
  <2> QED BY <2>1, <2>2, <2>3
<1>5. h = [k \in 0..(n + 1) |-> S(k, h[k - 1])]
  BY <1>3, <1>4
<1>6. Others(h, f, n + 1)
  BY <1>5 DEF Others, S
<1> QED BY <1>6

LEMMA OthersExists == ASSUME NEW f, NEW n \in Nat PROVE \E g : Others(g, f, n)
<1> DEFINE I == {m \in Nat : \E g : Others(g, f, m)}
<1>1. 0 \in I
  <2>1. Others([k \in 0..0 |-> <<>>], f, 0)
    BY DEF Others
  <2> QED BY <2>1
<1>2. \A m \in Nat : m \in I => m + 1 \in I
  BY OthersNext
<1> HIDE DEF I
<1>3. Nat \subseteq I
  BY <1>1, <1>2, NatSetInduction
<1> QED BY <1>3 DEF I

LEMMA OthersFound ==
  ASSUME NEW f, recent \in Seq(Files)
  PROVE  \E g : Others(g, f, Len(recent)) /\ OtherRecentFiles(f) = g[Len(recent)]
<1> DEFINE G == CHOOSE g : Others(g, f, Len(recent))
<1>1. Len(recent) \in Nat
  OBVIOUS
<1>2. Others(G, f, Len(recent))
  BY <1>1, OthersExists
<1>3. OtherRecentFiles(f) = G[Len(recent)]
  BY DEF OtherRecentFiles, Others
<1> HIDE DEF G
<1> QED BY <1>2, <1>3

\* What is kept of a prefix without repetition.
Kept(s, f, n) ==
  /\ s \in Seq(Files \ {f})
  /\ \A i \in 1..Len(s) : \E j \in 1..n : s[i] = recent[j]
  /\ \A i, j \in 1..Len(s) : s[i] = s[j] => i = j

LEMMA KeptNext ==
  ASSUME NEW f, NEW n \in Nat, NEW s, Kept(s, f, n), NEW e \in Files \ {f},
         e = recent[n + 1], \A i \in 1..n : recent[i] # e
  PROVE  Kept(Append(s, e), f, n + 1)
<1>1. s \in Seq(Files \ {f})
  BY DEF Kept
<1> DEFINE t == Append(s, e)
<1>2. /\ t \in Seq(Files \ {f}) /\ Len(t) = Len(s) + 1 /\ t[Len(s) + 1] = e
      /\ \A i \in 1..Len(s) : t[i] = s[i]
  BY <1>1
<1> HIDE DEF t
<1>3. \A i \in 1..Len(s) : s[i] # e
  BY DEF Kept
<1>4. Len(s) \in Nat
  BY <1>1
<1>5. ASSUME NEW i \in 1..Len(t) PROVE \E j \in 1..(n + 1) : t[i] = recent[j]
  <2>1. CASE i = Len(s) + 1
    BY <1>2, <2>1
  <2>2. CASE i \in 1..Len(s)
    <3>1. PICK j \in 1..n : s[i] = recent[j]
      BY <2>2 DEF Kept
    <3>2. j \in 1..(n + 1)
      OBVIOUS
    <3> QED BY <1>2, <2>2, <3>1, <3>2
  <2> QED BY <1>2, <1>4, <2>1, <2>2
<1>6. ASSUME NEW i \in 1..Len(t), NEW j \in 1..Len(t), t[i] = t[j] PROVE i = j
  <2>1. CASE i \in 1..Len(s) /\ j \in 1..Len(s)
    BY <1>2, <1>6, <2>1 DEF Kept
  <2>2. CASE i = Len(s) + 1 \/ j = Len(s) + 1
    BY <1>2, <1>3, <1>4, <1>6, <2>2
  <2> QED BY <1>2, <1>4, <2>1, <2>2
<1> QED BY <1>2, <1>5, <1>6 DEF Kept, t

LEMMA OtherRecentFilesKept ==
  ASSUME recent \in Seq(Files), NEW f \in Files,
         \A i, j \in 1..Len(recent) : recent[i] = recent[j] => i = j
  PROVE  Kept(OtherRecentFiles(f), f, Len(recent))
<1> DEFINE N == Len(recent)
<1>1. PICK G : Others(G, f, N) /\ OtherRecentFiles(f) = G[N]
  BY OthersFound
<1>2. N \in Nat /\ \A i \in 1..N : recent[i] \in Files
  OBVIOUS
<1>3. G[0] = <<>>
  BY <1>1, <1>2 DEF Others
<1>4. ASSUME NEW k \in 1..N
      PROVE  G[k] = IF recent[k] = f THEN G[k - 1] ELSE Append(G[k - 1], recent[k])
  <2>1. k \in 0..N /\ k # 0
    BY <1>2
  <2> HIDE DEF N
  <2> QED BY <1>1, <2>1 DEF Others
<1> HIDE DEF N
<1> DEFINE J == {n \in Nat : n =< N => Kept(G[n], f, n)}
<1>6. 0 \in J
  <2>1. Kept(<<>>, f, 0)
    BY DEF Kept
  <2> QED BY <1>3, <2>1
<1>7. ASSUME NEW n \in Nat, n \in J PROVE n + 1 \in J
  <2> SUFFICES ASSUME n + 1 =< N PROVE Kept(G[n + 1], f, n + 1)
    OBVIOUS
  <2>1. Kept(G[n], f, n) /\ n + 1 \in 1..N /\ recent[n + 1] \in Files
    BY <1>2, <1>7
  <2>2. G[n + 1] = IF recent[n + 1] = f THEN G[n] ELSE Append(G[n], recent[n + 1])
    <3>1. (n + 1) - 1 = n
      OBVIOUS
    <3> QED BY <1>4, <2>1, <3>1
  <2>3. \A i \in 1..n : recent[i] # recent[n + 1]
    BY <1>2, <2>1 DEF N
  <2>4. CASE recent[n + 1] = f
    <3>1. Kept(G[n], f, n + 1)
      BY <2>1 DEF Kept
    <3> QED BY <2>2, <2>4, <3>1
  <2>5. CASE recent[n + 1] # f
    BY <2>1, <2>2, <2>3, <2>5, KeptNext
  <2> QED BY <2>4, <2>5
<1> HIDE DEF J
<1>8. Nat \subseteq J
  BY <1>6, <1>7, NatSetInduction
<1>9. Kept(G[N], f, N)
  BY <1>2, <1>8 DEF J
<1> QED BY <1>1, <1>9 DEF N

\* The path in front, and the list cut.
LEMMA RecentStaysAList ==
  ASSUME recent \in Seq(Files), NEW f \in Files, AddRecentFile(f),
         \A i, j \in 1..Len(recent) : recent[i] = recent[j] => i = j
  PROVE  /\ recent' \in Seq(Files) /\ Len(recent') <= MaxRecent
         /\ \A i, j \in 1..Len(recent') : recent'[i] = recent'[j] => i = j
<1> DEFINE o == OtherRecentFiles(f)
           list == <<f>> \o o
           n == IF Len(list) < MaxRecent THEN Len(list) ELSE MaxRecent
<1>1. /\ o \in Seq(Files \ {f})
      /\ \A i, j \in 1..Len(o) : o[i] = o[j] => i = j
  BY OtherRecentFilesKept DEF Kept
<1>2. recent' = SubSeq(list, 1, n)
  BY DEF AddRecentFile
<1> HIDE DEF o
<1>3. Len(o) \in Nat /\ \A i \in 1..Len(o) : o[i] \in Files \ {f}
  BY <1>1
<1>4. /\ list \in Seq(Files) /\ Len(list) = Len(o) + 1 /\ list[1] = f
      /\ \A i \in 2..(Len(o) + 1) : list[i] = o[i - 1]
  BY <1>1, <1>3
<1> HIDE DEF list
<1>5. \A i, j \in 1..Len(list) : list[i] = list[j] => i = j
  <2> SUFFICES ASSUME NEW i \in 1..Len(list), NEW j \in 1..Len(list), list[i] = list[j]
               PROVE  i = j
    OBVIOUS
  <2>1. CASE i = 1 /\ j = 1
    BY <2>1
  <2>2. CASE i = 1 /\ j \in 2..(Len(o) + 1)
    BY <1>3, <1>4, <2>2
  <2>3. CASE i \in 2..(Len(o) + 1) /\ j = 1
    BY <1>3, <1>4, <2>3
  <2>4. CASE i \in 2..(Len(o) + 1) /\ j \in 2..(Len(o) + 1)
    <3>1. o[i - 1] = o[j - 1] /\ i - 1 \in 1..Len(o) /\ j - 1 \in 1..Len(o)
      BY <1>3, <1>4, <2>4
    <3>2. i - 1 = j - 1
      BY <1>1, <3>1
    <3> QED BY <3>2
  <2> QED BY <1>3, <1>4, <2>1, <2>2, <2>3, <2>4
<1>6. n \in Nat /\ n <= MaxRecent /\ n <= Len(list)
  BY <1>3, <1>4, FilesAssumption
<1> HIDE DEF n
<1>7. /\ SubSeq(list, 1, n) \in Seq(Files) /\ Len(SubSeq(list, 1, n)) = n
      /\ \A i \in 1..n : SubSeq(list, 1, n)[i] = list[i]
  BY <1>4, <1>6
<1> QED BY <1>2, <1>5, <1>6, <1>7

-----------------------------------------------------------------------------
(* The types of the session *)

\* A call to the disk counts its attempts, and waits only before another one.
Attempts(r) == r.attempt <= MaxAttempts /\ (r.at = "wait" => r.attempt < MaxAttempts)

\* What the types add to the invariant.
BoundsInv ==
  /\ revision <= edits
  /\ recent \in Seq(Files) /\ Len(recent) <= MaxRecent
  /\ \A i, j \in 1..Len(recent) : recent[i] = recent[j] => i = j
  /\ \A o \in Ops : Attempts(op[o])

\* A step of an operation: its record is replaced, and the session keeps its list
\* and its revision.
LEMMA GoesBounds ==
  ASSUME FileInv, BoundsInv, NEW o \in Ops, NEW r, Attempts(r), Goes(o, r),
         UNCHANGED <<revision, edits, recent>>
  PROVE  BoundsInv'
<1>1. \A p \in Ops : op'[p] = IF p = o THEN r ELSE op[p]
  BY DEF Goes, FileInv, OpsInv
<1>2. \A p \in Ops : Attempts(op'[p])
  BY <1>1 DEF BoundsInv
<1> QED BY <1>2 DEF BoundsInv, Attempts

LEMMA IdleAttempts == Attempts(Idle)
BY FilesAssumption DEF Attempts, Idle

\* The first attempt.
LEMMA CallsBounds ==
  ASSUME FileInv, BoundsInv, NEW o \in Ops, NEW at \in {"read", "write"},
         NEW r \in OpRec, Calls(o, at, r), UNCHANGED <<revision, edits, recent>>
  PROVE  BoundsInv'
<1> DEFINE s == [r EXCEPT !.at = at, !.attempt = 1]
<1>1. s.at = at /\ s.attempt = 1
  BY DEF OpRec
<1>2. Goes(o, s)
  BY DEF Calls
<1> HIDE DEF s
<1>3. Attempts(s)
  BY <1>1, FilesAssumption DEF Attempts
<1> QED BY <1>2, <1>3, GoesBounds

\* A document on display anew starts its revisions from 0.
LEMMA LoadBounds ==
  ASSUME FileInv, BoundsInv, NEW o \in Ops, Done(o), revision' \in {0, revision},
         edits' = edits,
         recent' = recent \/ \E f \in Files : AddRecentFile(f)
  PROVE  BoundsInv'
<1>1. \A p \in Ops : op'[p] = IF p = o THEN Idle ELSE op[p]
  BY DEF Done, Goes, FileInv, OpsInv
<1>2. \A p \in Ops : Attempts(op'[p])
  BY <1>1, IdleAttempts DEF BoundsInv
<1>3. revision' <= edits'
  BY DEF BoundsInv, FileInv, SessionInv
<1>4. /\ recent' \in Seq(Files) /\ Len(recent') <= MaxRecent
      /\ \A i, j \in 1..Len(recent') : recent'[i] = recent'[j] => i = j
  BY RecentStaysAList DEF BoundsInv
<1> QED BY <1>2, <1>3, <1>4 DEF BoundsInv, Attempts

LEMMA ConfirmedBounds ==
  ASSUME FileInv, BoundsInv, NEW o \in Ops, NEW r \in OpRec, Attempts(r),
         Confirmed(o, r), edits' = edits
  PROVE  BoundsInv'
<1>1. CASE Done(o) /\ LoadDocument(0, NoFile) /\ UNCHANGED recent
  BY <1>1, LoadBounds DEF LoadDocument
<1>2. CASE Goes(o, [r EXCEPT !.at = "pick"]) /\ UNCHANGED sessionVars
  <2> DEFINE s == [r EXCEPT !.at = "pick"]
  <2>1. s.at = "pick" /\ s.attempt = r.attempt
    BY DEF OpRec
  <2>2. Goes(o, s)
    BY <1>2
  <2> HIDE DEF s
  <2> QED BY <1>2, <2>1, <2>2, GoesBounds DEF Attempts, sessionVars
<1>3. CASE r.path # NoFile /\ Read(o, r, r.path) /\ UNCHANGED sessionVars
  <2>1. [r EXCEPT !.path = r.path] = r
    BY DEF OpRec
  <2>2. Calls(o, "read", r)
    BY <1>3, <2>1 DEF Read
  <2> QED BY <1>3, <2>2, CallsBounds DEF sessionVars
<1> QED BY <1>1, <1>2, <1>3 DEF Confirmed

LEMMA BeginBounds ==
  ASSUME FileInv, BoundsInv, NEW o \in Ops, NEW kind \in {"new", "open"},
         NEW f \in Files \cup {NoFile}, Begin(o, kind, f)
  PROVE  BoundsInv'
<1> DEFINE r == [Idle EXCEPT !.kind = kind, !.path = f]
           s == [r EXCEPT !.at = "ask"]
<1>1. r \in OpRec /\ r.at = "free" /\ r.attempt = 0
  BY IdleRecord DEF OpRec, Idle
<1>2. s.at = "ask" /\ s.attempt = 0
  BY <1>1 DEF OpRec
<1>3. /\ UNCHANGED <<disk, edits>>
      /\ (Goes(o, s) /\ UNCHANGED <<sessionVars, crossed>>) \/ Confirmed(o, r)
  BY DEF Begin
<1> HIDE DEF r, s
<1>4. Attempts(r) /\ Attempts(s)
  BY <1>1, <1>2, FilesAssumption DEF Attempts
<1>5. CASE Goes(o, s) /\ UNCHANGED <<sessionVars, crossed>>
  BY <1>3, <1>4, <1>5, GoesBounds DEF sessionVars
<1>6. CASE Confirmed(o, r)
  BY <1>1, <1>3, <1>4, <1>6, ConfirmedBounds
<1> QED BY <1>3, <1>5, <1>6

LEMMA WriteBounds ==
  ASSUME FileInv, BoundsInv, NEW o \in Ops, NEW f \in Files, Write(o, f),
         UNCHANGED <<sessionVars, edits>>
  PROVE  BoundsInv'
<1> DEFINE r == [Idle EXCEPT !.kind = "save", !.path = f, !.body = document]
<1>1. r \in OpRec
  BY IdleRecord DEF OpRec, FileInv, SessionInv
<1>2. Calls(o, "write", r)
  BY DEF Write
<1> HIDE DEF r
<1> QED BY <1>1, <1>2, CallsBounds DEF sessionVars

LEMMA UserBounds ==
  ASSUME FileInv, BoundsInv, NEW o \in Ops, UserStep(o) PROVE BoundsInv'
<1>0. op[o] \in OpRec /\ Attempts(op[o])
  BY DEF FileInv, OpsInv, BoundsInv
<1>1. CASE NewProject(o) \/ OpenProject(o) \/ OpenRecent(o)
  BY <1>1, BeginBounds DEF NewProject, OpenProject, OpenRecent
<1>2. CASE SaveProject(o) \/ SaveProjectAs(o)
  <2> DEFINE r == [Idle EXCEPT !.at = "pick", !.kind = "save"]
  <2>1. r.at = "pick" /\ r.attempt = 0
    BY DEF Idle
  <2>2. /\ UNCHANGED <<sessionVars, edits>>
        /\ Goes(o, r) \/ (filePath # NoFile /\ Write(o, filePath))
    BY <1>2 DEF SaveProject, SaveProjectAs
  <2> HIDE DEF r
  <2>3. Attempts(r)
    BY <2>1, FilesAssumption DEF Attempts
  <2>4. filePath \in Files \cup {NoFile}
    BY DEF FileInv, SessionInv
  <2> QED BY <2>2, <2>3, <2>4, WriteBounds, GoesBounds DEF sessionVars
<1>3. CASE Answer(o)
  <2> DEFINE r == [op[o] EXCEPT !.agreed = TRUE]
  <2>1. r \in OpRec /\ r.at = op[o].at /\ r.attempt = op[o].attempt
    BY <1>0 DEF OpRec
  <2>2. edits' = edits /\ ((Done(o) /\ UNCHANGED sessionVars) \/ Confirmed(o, r))
    BY <1>3 DEF Answer
  <2> HIDE DEF r
  <2>3. Attempts(r)
    BY <1>0, <2>1 DEF Attempts
  <2> QED BY <2>1, <2>2, <2>3, ConfirmedBounds, LoadBounds DEF sessionVars
<1>4. CASE Pick(o)
  <2>1. UNCHANGED <<sessionVars, edits>>
    BY <1>4 DEF Pick
  <2>2. CASE Done(o)
    BY <2>1, <2>2, LoadBounds DEF sessionVars
  <2>3. ASSUME NEW f \in Files, Read(o, op[o], f) PROVE BoundsInv'
    <3> DEFINE r == [op[o] EXCEPT !.path = f]
    <3>1. r \in OpRec
      BY <1>0 DEF OpRec
    <3>2. Calls(o, "read", r)
      BY <2>3 DEF Read
    <3> HIDE DEF r
    <3> QED BY <2>1, <3>1, <3>2, CallsBounds DEF sessionVars
  <2> QED BY <1>4, <2>1, <2>2, <2>3, WriteBounds DEF Pick
<1> QED BY <1>1, <1>2, <1>3, <1>4 DEF UserStep

LEMMA FailedBounds ==
  ASSUME FileInv, BoundsInv, NEW o \in Ops, Failed(o), UNCHANGED <<sessionVars, edits>>
  PROVE  BoundsInv'
<1> DEFINE r == [op[o] EXCEPT !.at = "wait"]
<1>1. r.at = "wait" /\ r.attempt = op[o].attempt
  BY DEF FileInv, OpsInv, OpRec
<1>2. (op[o].attempt < MaxAttempts /\ Goes(o, r)) \/ Done(o)
  BY DEF Failed
<1> HIDE DEF r
<1>3. ASSUME op[o].attempt < MaxAttempts PROVE Attempts(r)
  BY <1>1, <1>3, FilesAssumption DEF Attempts, BoundsInv
<1> QED BY <1>2, <1>3, GoesBounds, LoadBounds DEF sessionVars

LEMMA CallBounds ==
  ASSUME FileInv, BoundsInv, NEW o \in Ops, CallStep(o) PROVE BoundsInv'
<1>0. /\ op[o] \in OpRec /\ Attempts(op[o])
      /\ op[o].at \in {"loaded", "written"} => op[o].path \in Files
  BY DEF FileInv, OpsInv, BoundsInv, WellFormed, AtDisk
<1>1. CASE Retry(o)
  <2> DEFINE at == IF op[o].kind = "save" THEN "write" ELSE "read"
             n == op[o].attempt + 1
             r == [op[o] EXCEPT !.at = at, !.attempt = n]
  <2>1. r.at = at /\ r.attempt = n /\ at # "wait"
    BY <1>0 DEF OpRec
  <2>2. op[o].attempt \in Nat /\ op[o].attempt < MaxAttempts
    BY <1>0, <1>1 DEF Attempts, OpRec, Retry
  <2>3. Goes(o, r) /\ UNCHANGED <<sessionVars, edits>>
    BY <1>1 DEF Retry
  <2> HIDE DEF r
  <2>4. Attempts(r)
    BY <2>1, <2>2, FilesAssumption DEF Attempts
  <2> QED BY <2>3, <2>4, GoesBounds DEF sessionVars
<1>2. CASE DiskReads(o)
  <2> DEFINE r == [op[o] EXCEPT !.at = "loaded", !.body = disk[op[o].path]]
  <2>1. r.at = "loaded" /\ r.attempt = op[o].attempt
    BY <1>0 DEF OpRec
  <2>2. (Goes(o, r) \/ Failed(o)) /\ UNCHANGED <<sessionVars, edits>>
    BY <1>2 DEF DiskReads
  <2> HIDE DEF r
  <2>3. Attempts(r)
    BY <1>0, <2>1 DEF Attempts
  <2> QED BY <2>2, <2>3, GoesBounds, FailedBounds DEF sessionVars
<1>3. CASE Loaded(o)
  BY <1>0, <1>3, LoadBounds DEF Loaded, LoadDocument, sessionVars
<1>4. CASE DiskWrites(o)
  <2> DEFINE r == [op[o] EXCEPT !.at = "written"]
  <2>1. r.at = "written" /\ r.attempt = op[o].attempt
    BY <1>0 DEF OpRec
  <2>2. (Goes(o, r) \/ Failed(o)) /\ UNCHANGED <<sessionVars, edits>>
    BY <1>4 DEF DiskWrites
  <2> HIDE DEF r
  <2>3. Attempts(r)
    BY <1>0, <2>1 DEF Attempts
  <2> QED BY <2>2, <2>3, GoesBounds, FailedBounds DEF sessionVars
<1>5. CASE Saved(o)
  BY <1>0, <1>5, LoadBounds DEF Saved
<1> QED BY <1>1, <1>2, <1>3, <1>4, <1>5 DEF CallStep

LEMMA BoundsStep == FileInv /\ BoundsInv /\ [FileNext]_fileVars => BoundsInv'
<1> SUFFICES ASSUME FileInv, BoundsInv, [FileNext]_fileVars PROVE BoundsInv'
  OBVIOUS
<1>1. CASE Edit
  <2>1. revision' <= edits'
    BY <1>1 DEF Edit, FileInv, SessionInv, BoundsInv
  <2>2. ASSUME NEW o \in Ops PROVE op'[o].at = op[o].at /\ op'[o].attempt = op[o].attempt
    BY <1>1 DEF Edit, FileInv, OpsInv, OpRec
  <2> QED BY <1>1, <2>1, <2>2 DEF Edit, BoundsInv, Attempts
<1>2. CASE UNCHANGED fileVars
  BY <1>2 DEF fileVars, BoundsInv, Attempts
<1> QED BY <1>1, <1>2, UserBounds, CallBounds DEF FileNext

LEMMA BoundsInit == FileInit => BoundsInv
<1> SUFFICES ASSUME FileInit PROVE BoundsInv
  OBVIOUS
<1>1. recent = <<>> /\ revision = 0 /\ edits = 0 /\ op = [o \in Ops |-> Idle]
  BY DEF FileInit
<1>2. recent \in Seq(Files) /\ Len(recent) = 0
  BY <1>1
<1> QED BY <1>1, <1>2, IdleAttempts, FilesAssumption DEF BoundsInv

LEMMA FileTypes == FileInv /\ BoundsInv => FileTypeOK
<1> SUFFICES ASSUME FileInv, BoundsInv PROVE FileTypeOK
  OBVIOUS
<1>1. \A o \in Ops : op[o] \in OpRec /\ op[o].attempt \in 0..MaxAttempts
  BY FilesAssumption DEF FileInv, OpsInv, OpRec, BoundsInv, Attempts
<1>2. op \in [Ops -> [at : Places, kind : {"none", "new", "open", "save"},
                     path : Files \cup {NoFile}, body : Versions \cup {Torn},
                     attempt : 0..MaxAttempts, agreed : BOOLEAN, late : BOOLEAN]]
  BY <1>1 DEF FileInv, OpsInv, OpRec
<1>3. edits \in 0..MaxEdits /\ revision \in 0..edits /\ savedRevision \in 0..edits
  BY FilesAssumption DEF FileInv, SessionInv, BoundsInv
<1> QED BY <1>2, <1>3 DEF FileInv, SessionInv, BoundsInv, FileTypeOK

-----------------------------------------------------------------------------
(* Nothing unsaved is discarded unasked *)

Asked(o) == op'[o] = Idle /\ (op[o].at = "ask" \/ op[o].agreed \/ op[o].late)

LEMMA DoneIsIdle ==
  ASSUME FileInv, NEW o \in Ops, Done(o) PROVE op'[o] = Idle
BY DEF FileInv, OpsInv, Done, Goes

LEMMA DiscardStep ==
  ASSUME FileInv, [FileNext]_fileVars, isDirty, revision' = 0
  PROVE  \E o \in Ops : Asked(o)
<1>1. revision # 0 /\ revision + 1 # 0 /\ revision' # revision
  BY DEF isDirty, FileInv, SessionInv
<1>2. PICK o \in Ops : UserStep(o) \/ CallStep(o)
  BY <1>1 DEF FileNext, Edit, fileVars
<1>3. CASE UserStep(o)
  <2>1. CASE NewProject(o) \/ OpenProject(o) \/ OpenRecent(o)
    BY <1>1, <2>1 DEF NewProject, OpenProject, OpenRecent, Begin, NeedsConfirm, sessionVars
  <2>2. CASE SaveProject(o) \/ SaveProjectAs(o) \/ Pick(o)
    BY <1>1, <2>2 DEF SaveProject, SaveProjectAs, Pick, sessionVars
  <2>3. CASE Answer(o)
    <3>1. op[o].at = "ask" /\ Done(o)
      BY <1>1, <2>3 DEF Answer, Confirmed, sessionVars
    <3> QED BY <3>1, DoneIsIdle DEF Asked
  <2> QED BY <1>3, <2>1, <2>2, <2>3 DEF UserStep
<1>4. CASE CallStep(o)
  <2>1. Loaded(o)
    BY <1>1, <1>4 DEF CallStep, Retry, DiskReads, DiskWrites, Saved, sessionVars
  <2>2. op[o].at = "loaded" /\ op[o].kind = "open"
    BY <2>1 DEF Loaded, FileInv, OpsInv, WellFormed
  <2>3. op[o].agreed \/ op[o].late
    BY <2>2 DEF FileInv, OpsInv, Licensed, AtDisk
  <2> QED BY <2>1, <2>3, DoneIsIdle DEF Asked, Loaded
<1> QED BY <1>2, <1>3, <1>4

\* Unsaved changes are replaced unasked only if they were made while the operation
\* that replaces them was reading, for any operations interleaved in any way, their
\* retries and failures (confirmDiscardIfDirty, file-operations.svelte.ts:16).
THEOREM NothingIsDiscardedUnasked == FileSpec => DiscardIsAgreed
<1> DEFINE A == isDirty /\ revision' = 0
                  => \E o \in Ops : op'[o] = Idle
                                     /\ (op[o].at = "ask" \/ op[o].agreed \/ op[o].late)
<1>1. FileInv /\ [FileNext]_fileVars => [A]_fileVars
  BY DiscardStep DEF Asked
<1> QED BY <1>1, FileInvHolds, PTL DEF FileSpec, DiscardIsAgreed

-----------------------------------------------------------------------------
(* The layers and their preview *)

\* The part of the state the spinner depends on: the requests in flight are among
\* those that were given a number, and the spinner is shown while the latest one is
\* among them.
RequestsInv ==
  /\ requestId \in Nat
  /\ \A n \in inFlight : n \in Nat \ {0} /\ n <= requestId
  /\ isGenerating <=> requestId \in inFlight

requestVars == <<requestId, inFlight, isGenerating>>

LEMMA RequestsInit == PreviewInit => RequestsInv
BY DEF PreviewInit, RequestsInv

\* What touches the layers, the values, the workspace or the scrubber leaves the
\* requests alone.
LEMMA OthersLeaveRequests ==
  ASSUME \/ AddLayer \/ RemoveLayer \/ DuplicateLayer \/ ReorderLayers
         \/ SelectLayer \/ LoadLayers \/ EditValues \/ SwitchWorkspace \/ Scrub
  PROVE  UNCHANGED requestVars
BY DEF AddLayer, RemoveLayer, DuplicateLayer, ReorderLayers, SelectLayer,
       LoadLayers, EditValues, SwitchWorkspace, Scrub, Relayers, requestVars,
       answerVars

LEMMA GenerateKeepsRequests == RequestsInv /\ Generate => RequestsInv'
<1> SUFFICES ASSUME RequestsInv, Generate PROVE RequestsInv'
  OBVIOUS
<1>1. CASE UNCHANGED <<requestId, isGenerating, inFlight>>
  BY <1>1 DEF RequestsInv
<1>2. CASE /\ requestId' = requestId + 1
           /\ \/ isGenerating' = TRUE /\ inFlight' = inFlight \cup {requestId + 1}
              \/ isGenerating' = FALSE /\ inFlight' = inFlight
  <2>1. requestId + 1 \in Nat /\ requestId + 1 \notin inFlight
    BY DEF RequestsInv
  <2>2. \A n \in inFlight' : n \in Nat \ {0} /\ n <= requestId + 1
    BY <1>2 DEF RequestsInv
  <2> QED BY <1>2, <2>1, <2>2 DEF RequestsInv
<1> QED BY <1>1, <1>2 DEF Generate

LEMMA AnswerKeepsRequests ==
  ASSUME RequestsInv, NEW n \in inFlight, ImageAnswered(n)
  PROVE  RequestsInv'
<1>1. inFlight' = inFlight \ {n} /\ requestId' = requestId
  BY DEF ImageAnswered
<1>2. isGenerating' <=> requestId \in inFlight'
  BY <1>1 DEF ImageAnswered, RequestsInv
<1> QED BY <1>1, <1>2 DEF RequestsInv

LEMMA ResetKeepsRequests == RequestsInv /\ Reset => RequestsInv'
BY DEF RequestsInv, Reset

LEMMA RequestsStep == RequestsInv /\ [PreviewNext]_previewVars => RequestsInv'
<1> SUFFICES ASSUME RequestsInv, [PreviewNext]_previewVars PROVE RequestsInv'
  OBVIOUS
<1>1. ASSUME UNCHANGED requestVars PROVE RequestsInv'
  BY <1>1 DEF RequestsInv, requestVars
<1>2. CASE Generate
  BY <1>2, GenerateKeepsRequests
<1>3. CASE AnyAnswer
  BY <1>3, AnswerKeepsRequests DEF AnyAnswer
<1>4. CASE Reset
  BY <1>4, ResetKeepsRequests
<1>5. CASE UNCHANGED previewVars
  BY <1>1, <1>5 DEF previewVars, answerVars, requestVars
<1> QED BY <1>1, <1>2, <1>3, <1>4, <1>5, OthersLeaveRequests DEF PreviewNext

\* The spinner of the preview is shown exactly while the latest request is out, for
\* any number of requests answered in any order (preview-session.svelte.ts:31-75).
THEOREM SpinnerNeverSticks == PreviewSpec => []SpinnerMeansPending
<1>1. RequestsInv => SpinnerMeansPending
  BY DEF RequestsInv, SpinnerMeansPending
<1> QED BY <1>1, RequestsInit, RequestsStep, PTL DEF PreviewSpec

-----------------------------------------------------------------------------
(* The layers, their selection and the scrubber *)

LEMMA ConcatFacts ==
  ASSUME NEW S, NEW a \in Seq(S), NEW b \in Seq(S)
  PROVE  /\ a \o b \in Seq(S) /\ Len(a \o b) = Len(a) + Len(b)
         /\ \A k \in 1..(Len(a) + Len(b)) :
              (a \o b)[k] = IF k <= Len(a) THEN a[k] ELSE b[k - Len(a)]
OBVIOUS

LEMMA InsertFacts ==
  ASSUME NEW S, NEW s \in Seq(S), NEW i \in 1..(Len(s) + 1), NEW e \in S
  PROVE  /\ InsertAt(s, i, e) \in Seq(S) /\ Len(InsertAt(s, i, e)) = Len(s) + 1
         /\ \A k \in 1..(Len(s) + 1) :
              InsertAt(s, i, e)[k] = IF k < i THEN s[k] ELSE IF k = i THEN e ELSE s[k - 1]
<1> DEFINE a == SubSeq(s, 1, i - 1)
           b == SubSeq(s, i, Len(s))
<1>1. a \in Seq(S) /\ Len(a) = i - 1 /\ \A k \in 1..(i - 1) : a[k] = s[k]
  OBVIOUS
<1>2. /\ b \in Seq(S) /\ Len(b) = Len(s) - i + 1
      /\ \A k \in 1..(Len(s) - i + 1) : b[k] = s[i + k - 1]
  OBVIOUS
<1>3. InsertAt(s, i, e) = (a \o <<e>>) \o b
  BY DEF InsertAt
<1> HIDE DEF a, b
<1>4. /\ a \o <<e>> \in Seq(S) /\ Len(a \o <<e>>) = i
      /\ \A k \in 1..i : (a \o <<e>>)[k] = IF k < i THEN s[k] ELSE e
  BY <1>1
<1> DEFINE c == a \o <<e>>
<1>5. InsertAt(s, i, e) = c \o b
  BY <1>3
<1> HIDE DEF c
<1>6. /\ c \o b \in Seq(S) /\ Len(c \o b) = Len(s) + 1
      /\ \A k \in 1..(Len(s) + 1) : (c \o b)[k] = IF k <= i THEN c[k] ELSE b[k - i]
  <2>1. c \in Seq(S) /\ Len(c) = i
    BY <1>4 DEF c
  <2>2. /\ c \o b \in Seq(S) /\ Len(c \o b) = Len(c) + Len(b)
        /\ \A k \in 1..(Len(c) + Len(b)) :
              (c \o b)[k] = IF k <= Len(c) THEN c[k] ELSE b[k - Len(c)]
    BY <1>2, <2>1, ConcatFacts
  <2>3. Len(c) + Len(b) = Len(s) + 1
    BY <1>2, <2>1
  <2> QED BY <2>1, <2>2, <2>3
<1>7. \A k \in 1..i : c[k] = IF k < i THEN s[k] ELSE e
  BY <1>4 DEF c
<1>8. ASSUME NEW k \in 1..(Len(s) + 1), k > i PROVE b[k - i] = s[k - 1]
  <2>1. k - i \in 1..(Len(s) - i + 1) /\ i + (k - i) - 1 = k - 1
    BY <1>8
  <2> QED BY <1>2, <2>1
<1>9. ASSUME NEW k \in 1..(Len(s) + 1)
      PROVE  (c \o b)[k] = IF k < i THEN s[k] ELSE IF k = i THEN e ELSE s[k - 1]
  <2>1. CASE k <= i
    <3>1. k \in 1..i /\ (c \o b)[k] = c[k]
      BY <1>6, <2>1
    <3> QED BY <1>7, <2>1, <3>1
  <2>2. CASE k > i
    <3>1. (c \o b)[k] = b[k - i]
      BY <1>6, <2>2
    <3> QED BY <1>8, <2>2, <3>1
  <2>3. k <= i \/ k > i
    OBVIOUS
  <2> QED BY <2>1, <2>2, <2>3
<1> QED BY <1>5, <1>6, <1>9

LEMMA AppendInserts ==
  ASSUME NEW S, NEW s \in Seq(S), NEW e \in S
  PROVE  Append(s, e) = InsertAt(s, Len(s) + 1, e)
<1> DEFINE a == SubSeq(s, 1, Len(s) + 1 - 1)
           b == SubSeq(s, Len(s) + 1, Len(s))
<1>1. a = s
  <2>1. Len(s) + 1 - 1 = Len(s)
    OBVIOUS
  <2> QED BY <2>1
<1>2. b = <<>>
  OBVIOUS
<1>3. InsertAt(s, Len(s) + 1, e) = (a \o <<e>>) \o b
  BY DEF InsertAt
<1> HIDE DEF a, b
<1>4. (s \o <<e>>) \o <<>> = Append(s, e)
  OBVIOUS
<1> QED BY <1>1, <1>2, <1>3, <1>4

LEMMA RemoveFacts ==
  ASSUME NEW S, NEW s \in Seq(S), NEW i \in 1..Len(s)
  PROVE  /\ RemoveAt(s, i) \in Seq(S) /\ Len(RemoveAt(s, i)) = Len(s) - 1
         /\ \A k \in 1..(Len(s) - 1) : RemoveAt(s, i)[k] = IF k < i THEN s[k] ELSE s[k + 1]
<1> DEFINE a == SubSeq(s, 1, i - 1)
           b == SubSeq(s, i + 1, Len(s))
<1>1. a \in Seq(S) /\ Len(a) = i - 1 /\ \A k \in 1..(i - 1) : a[k] = s[k]
  OBVIOUS
<1>2. b \in Seq(S) /\ Len(b) = Len(s) - i /\ \A k \in 1..(Len(s) - i) : b[k] = s[i + k]
  OBVIOUS
<1>3. RemoveAt(s, i) = a \o b
  BY DEF RemoveAt
<1> HIDE DEF a, b
<1>4. /\ a \o b \in Seq(S) /\ Len(a \o b) = Len(s) - 1
      /\ \A k \in 1..(Len(s) - 1) : (a \o b)[k] = IF k < i THEN a[k] ELSE b[k - i + 1]
  <2>1. /\ a \o b \in Seq(S) /\ Len(a \o b) = Len(a) + Len(b)
        /\ \A k \in 1..(Len(a) + Len(b)) :
              (a \o b)[k] = IF k <= Len(a) THEN a[k] ELSE b[k - Len(a)]
    BY <1>1, <1>2, ConcatFacts
  <2>2. Len(a) + Len(b) = Len(s) - 1 /\ Len(a) = i - 1
    BY <1>1, <1>2
  <2>3. \A k \in 1..(Len(s) - 1) : k - (i - 1) = k - i + 1 /\ (k <= i - 1 <=> k < i)
    OBVIOUS
  <2> QED BY <2>1, <2>2, <2>3
<1>5. ASSUME NEW k \in 1..(Len(s) - 1), k >= i PROVE b[k - i + 1] = s[k + 1]
  <2>1. k - i + 1 \in 1..(Len(s) - i) /\ i + (k - i + 1) = k + 1
    BY <1>5
  <2> QED BY <1>2, <2>1
<1>6. ASSUME NEW k \in 1..(Len(s) - 1)
      PROVE  (a \o b)[k] = IF k < i THEN s[k] ELSE s[k + 1]
  BY <1>1, <1>4, <1>5
<1> QED BY <1>3, <1>4, <1>6

\* A list of layers without repetition, and what stands in it.
Listing(list) == list \in Seq(Layers) /\ IsInjective(list)

LEMMA ListingMeans ==
  ASSUME NEW list \in Seq(Layers)
  PROVE  /\ Listing(list) <=> \A i, j \in 1..Len(list) : list[i] = list[j] => i = j
         /\ \A id : id \in ToSet(list) <=> \E i \in 1..Len(list) : list[i] = id
BY DEF Listing, IsInjective, ToSet

LEMMA ListingIsShort ==
  ASSUME NEW list, Listing(list) PROVE Len(list) <= Cardinality(Layers)
<1>1. list \in Injection(1..Len(list), Layers)
  BY DEF Listing, Injection, IsInjective
<1>2. Cardinality(1..Len(list)) <= Cardinality(Layers)
  BY <1>1, PreviewAssumption, FS_Injection
<1>3. Len(list) \in Nat /\ Cardinality(1..Len(list)) = IF 1 > Len(list) THEN 0 ELSE Len(list) - 1 + 1
  BY FS_Interval DEF Listing
<1> QED BY <1>2, <1>3

LEMMA Inserted ==
  ASSUME NEW list, Listing(list), NEW i \in 1..(Len(list) + 1), NEW id \in Layers \ ToSet(list)
  PROVE  /\ Listing(InsertAt(list, i, id))
         /\ Len(InsertAt(list, i, id)) = Len(list) + 1
         /\ ToSet(InsertAt(list, i, id)) = ToSet(list) \cup {id}
<1>0. list \in Seq(Layers) /\ id \in Layers
  BY DEF Listing
<1>8. InsertAt(list, i, id) \in Seq(Layers) /\ Len(InsertAt(list, i, id)) = Len(list) + 1
  BY ONLY <1>0, i \in 1..(Len(list) + 1), InsertFacts
<1>9. \A k \in 1..(Len(list) + 1) :
        InsertAt(list, i, id)[k] = IF k < i THEN list[k] ELSE IF k = i THEN id ELSE list[k - 1]
  BY ONLY <1>0, i \in 1..(Len(list) + 1), InsertFacts
<1> DEFINE t == InsertAt(list, i, id)
<1>1. /\ t \in Seq(Layers) /\ Len(t) = Len(list) + 1 /\ list \in Seq(Layers)
      /\ \A k \in 1..(Len(list) + 1) :
           t[k] = IF k < i THEN list[k] ELSE IF k = i THEN id ELSE list[k - 1]
  BY <1>0, <1>8, <1>9
<1> HIDE DEF t
<1>2. /\ \A j, k \in 1..Len(list) : list[j] = list[k] => j = k
      /\ \A j \in 1..Len(list) : list[j] # id
      /\ Len(list) \in Nat
  BY <1>1, ListingMeans
<1>3. ASSUME NEW j \in 1..Len(t), NEW k \in 1..Len(t), j < k PROVE t[j] # t[k]
  <2>1. CASE k < i
    BY <1>1, <1>2, <1>3, <2>1
  <2>2. CASE k = i
    BY <1>1, <1>2, <1>3, <2>2
  <2>3. CASE k > i
    <3>1. /\ k - 1 \in 1..Len(list) /\ t[k] = list[k - 1]
          /\ j < i => j \in 1..Len(list) /\ t[j] = list[j] /\ j # k - 1
          /\ j > i => j - 1 \in 1..Len(list) /\ t[j] = list[j - 1] /\ j - 1 # k - 1
          /\ j = i => t[j] = id
      BY <1>1, <1>2, <1>3, <2>3
    <3> QED BY <1>1, <1>2, <1>3, <3>1
  <2> QED BY <1>1, <1>2, <2>1, <2>2, <2>3
<1>4. ASSUME NEW x PROVE x \in ToSet(t) <=> x \in ToSet(list) \cup {id}
  <2>1. ASSUME NEW k \in 1..Len(t), t[k] = x PROVE x \in ToSet(list) \cup {id}
    BY <1>1, <1>2, <2>1, ListingMeans
  <2>2. ASSUME NEW k \in 1..Len(list), list[k] = x PROVE x \in ToSet(t)
    <3>1. IF k < i THEN t[k] = x ELSE t[k + 1] = x
      BY <1>1, <1>2, <2>2
    <3>2. k \in 1..Len(t) /\ k + 1 \in 1..Len(t)
      BY <1>1, <1>2
    <3> QED BY <1>1, <3>1, <3>2, ListingMeans
  <2>3. id \in ToSet(t)
    BY <1>1, <1>2, ListingMeans
  <2> QED BY <1>1, <2>1, <2>2, <2>3, ListingMeans
<1>5. ToSet(t) = ToSet(list) \cup {id}
  BY <1>4
<1>6. \A j, k \in 1..Len(t) : t[j] = t[k] => j = k
  BY <1>1, <1>2, <1>3
<1> QED BY <1>1, <1>5, <1>6, ListingMeans DEF t

LEMMA Removed ==
  ASSUME NEW list, Listing(list), NEW i \in 1..Len(list)
  PROVE  /\ Listing(RemoveAt(list, i))
         /\ Len(RemoveAt(list, i)) = Len(list) - 1
         /\ ToSet(RemoveAt(list, i)) = ToSet(list) \ {list[i]}
<1> DEFINE t == RemoveAt(list, i)
<1>1. /\ t \in Seq(Layers) /\ Len(t) = Len(list) - 1 /\ list \in Seq(Layers)
      /\ \A k \in 1..(Len(list) - 1) : t[k] = IF k < i THEN list[k] ELSE list[k + 1]
  BY RemoveFacts DEF Listing
<1> HIDE DEF t
<1>2. /\ \A j, k \in 1..Len(list) : list[j] = list[k] => j = k
      /\ Len(list) \in Nat
  BY <1>1, ListingMeans
<1>3. \A j, k \in 1..Len(t) : t[j] = t[k] => j = k
  BY <1>1, <1>2
<1>4. ASSUME NEW x PROVE x \in ToSet(t) <=> x \in ToSet(list) \ {list[i]}
  <2>1. ASSUME NEW k \in 1..Len(t), t[k] = x PROVE x \in ToSet(list) \ {list[i]}
    <3>1. k \in 1..Len(list) /\ k + 1 \in 1..Len(list)
      BY <1>1, <1>2
    <3> QED BY <1>1, <1>2, <2>1, <3>1, ListingMeans
  <2>2. ASSUME NEW k \in 1..Len(list), list[k] = x, x # list[i] PROVE x \in ToSet(t)
    <3>1. IF k < i THEN k \in 1..Len(t) /\ t[k] = x ELSE k - 1 \in 1..Len(t) /\ t[k - 1] = x
      BY <1>1, <1>2, <2>2
    <3> QED BY <1>1, <3>1, ListingMeans
  <2> QED BY <1>1, <2>1, <2>2, ListingMeans
<1>5. ToSet(t) = ToSet(list) \ {list[i]}
  BY <1>4
<1> QED BY <1>1, <1>3, <1>5, ListingMeans DEF t

LEMMA RelayersTypes ==
  ASSUME PreviewTypeOK, NEW list, Listing(list), NEW id \in ToSet(list) \cup {NoLayer},
         Relayers(list, id)
  PROVE  PreviewTypeOK'
<1>1. /\ Len(list) \in Nat /\ Len(layers) \in Nat /\ Cardinality(Layers) \in Nat
      /\ Len(list) <= Cardinality(Layers) /\ (list # <<>> => Len(list) > 0)
      /\ (layers = <<>> => Len(layers) = 0)
  BY ListingIsShort, PreviewAssumption, FS_CardinalityType DEF PreviewTypeOK, Listing
<1>2. layers' = list /\ selectedLayerId' = id /\ mounted' = mounted
  BY DEF Relayers
<1>3. visibleLayerCount' = IF mounted /\ Len(list) # Len(layers)
                             THEN Len(list) ELSE visibleLayerCount
  BY <1>2 DEF Relayers, SyncScrubber, PreviewTypeOK
<1>4. /\ visibleLayerCount' \in 0..Cardinality(Layers)
      /\ mounted' => visibleLayerCount' <= Len(layers')
                       /\ (layers' # <<>> => visibleLayerCount' > 0)
  BY <1>1, <1>2, <1>3 DEF PreviewTypeOK
<1>5. UNCHANGED <<values, requestId, isGenerating, error, image, inFlight>>
  BY DEF Relayers, answerVars
<1> QED BY <1>2, <1>4, <1>5 DEF PreviewTypeOK, Listing

LEMMA LayerStepTypes ==
  ASSUME PreviewTypeOK, AddLayer \/ RemoveLayer \/ DuplicateLayer \/ ReorderLayers \/ LoadLayers
  PROVE  PreviewTypeOK'
<1>1. /\ Listing(layers) /\ Len(layers) \in Nat /\ layers \in Seq(Layers)
      /\ selectedLayerId \in ToSet(layers) \cup {NoLayer}
      /\ \A i \in 1..Len(layers) : layers[i] \in ToSet(layers) /\ layers[i] \in Layers
  BY ListingMeans DEF PreviewTypeOK, Listing
<1>2. CASE AddLayer
  <2>1. PICK id \in Layers \ ToSet(layers) : Relayers(Append(layers, id), id)
    BY <1>2 DEF AddLayer, Fresh
  <2>3. Len(layers) + 1 \in 1..(Len(layers) + 1) /\ id \in Layers
    BY <1>1
  <2>2. Append(layers, id) = InsertAt(layers, Len(layers) + 1, id)
    BY <1>1, <2>3, AppendInserts
  <2>4. Listing(Append(layers, id)) /\ id \in ToSet(Append(layers, id))
    BY <1>1, <2>2, <2>3, Inserted
  <2> QED BY <2>1, <2>4, RelayersTypes
<1>3. CASE RemoveLayer
  <2>1. PICK index \in 1..Len(layers) :
          LET list == RemoveAt(layers, index)
          IN Relayers(list, IF selectedLayerId # layers[index] THEN selectedLayerId
                            ELSE IF list = <<>> THEN NoLayer ELSE list[1])
    BY <1>3 DEF RemoveLayer
  <2> DEFINE list == RemoveAt(layers, index)
             id == IF selectedLayerId # layers[index] THEN selectedLayerId
                   ELSE IF list = <<>> THEN NoLayer ELSE list[1]
  <2>2. Listing(list) /\ ToSet(list) = ToSet(layers) \ {layers[index]} /\ Relayers(list, id)
    BY <1>1, <2>1, Removed
  <2> HIDE DEF list
  <2>3. list # <<>> => list[1] \in ToSet(list)
    BY <2>2, ListingMeans DEF Listing
  <2>4. id \in ToSet(list) \cup {NoLayer}
    BY <1>1, <2>2, <2>3
  <2> HIDE DEF id
  <2> QED BY <2>2, <2>4, RelayersTypes
<1>4. CASE DuplicateLayer
  <2>1. PICK index \in 1..Len(layers), id \in Layers \ ToSet(layers) :
          Relayers(InsertAt(layers, index + 1, id), id)
    BY <1>4 DEF DuplicateLayer, Fresh
  <2>2. index + 1 \in 1..(Len(layers) + 1)
    BY <1>1
  <2>3. Listing(InsertAt(layers, index + 1, id)) /\ id \in ToSet(InsertAt(layers, index + 1, id))
    BY <1>1, <2>2, Inserted
  <2> QED BY <2>1, <2>3, RelayersTypes
<1>5. CASE ReorderLayers
  <2>1. PICK from \in 1..Len(layers), to \in 1..Len(layers) :
          Relayers(InsertAt(RemoveAt(layers, from), to, layers[from]), selectedLayerId)
    BY <1>5 DEF ReorderLayers
  <2> DEFINE rest == RemoveAt(layers, from)
  <2>2. Listing(rest) /\ Len(rest) = Len(layers) - 1 /\ ToSet(rest) = ToSet(layers) \ {layers[from]}
    BY <1>1, Removed
  <2> HIDE DEF rest
  <2>3. to \in 1..(Len(rest) + 1) /\ layers[from] \in Layers \ ToSet(rest)
    BY <1>1, <2>2
  <2>4. /\ Listing(InsertAt(rest, to, layers[from]))
        /\ ToSet(InsertAt(rest, to, layers[from])) = ToSet(rest) \cup {layers[from]}
    BY <2>2, <2>3, Inserted
  <2>5. selectedLayerId \in ToSet(InsertAt(rest, to, layers[from])) \cup {NoLayer}
    BY <1>1, <2>2, <2>4
  <2> QED BY <2>1, <2>4, <2>5, RelayersTypes DEF rest
<1>6. CASE LoadLayers
  <2>1. PICK n \in 0..Cardinality(Layers) : \E list \in [1..n -> Layers] :
          IsInjective(list) /\ Relayers(list, NoLayer)
    BY <1>6 DEF LoadLayers
  <2>2. PICK list \in [1..n -> Layers] : IsInjective(list) /\ Relayers(list, NoLayer)
    BY <2>1
  <2>3. n \in Nat
    BY PreviewAssumption, FS_CardinalityType
  <2>4. Listing(list)
    BY <2>2, <2>3 DEF Listing
  <2> QED BY <2>2, <2>4, RelayersTypes
<1> QED BY <1>2, <1>3, <1>4, <1>5, <1>6

LEMMA ScreenStepTypes ==
  ASSUME PreviewTypeOK, SelectLayer \/ EditValues \/ SwitchWorkspace \/ Scrub
  PROVE  PreviewTypeOK'
<1>1. /\ Len(layers) \in Nat /\ Cardinality(Layers) \in Nat /\ Len(layers) <= Cardinality(Layers)
      /\ layers # <<>> => Len(layers) > 0
  BY ListingIsShort, PreviewAssumption, FS_CardinalityType DEF PreviewTypeOK, Listing
<1>2. CASE SelectLayer
  BY <1>2 DEF SelectLayer, PreviewTypeOK, answerVars
<1>3. CASE EditValues
  BY <1>3 DEF EditValues, PreviewTypeOK, answerVars
<1>4. CASE SwitchWorkspace
  <2>1. mounted' = ~mounted /\ UNCHANGED <<documentVars, answerVars>> /\ layers' = layers
        /\ visibleLayerCount' = IF mounted' THEN Len(layers) ELSE visibleLayerCount
    BY <1>4 DEF SwitchWorkspace, SyncScrubber, documentVars, PreviewTypeOK
  <2>2. visibleLayerCount' \in 0..Cardinality(Layers)
    BY <1>1, <2>1 DEF PreviewTypeOK
  <2>3. mounted' => visibleLayerCount' <= Len(layers) /\ (layers # <<>> => visibleLayerCount' > 0)
    BY <1>1, <2>1
  <2> QED BY <2>1, <2>2, <2>3 DEF PreviewTypeOK, documentVars, answerVars
<1>5. CASE Scrub
  BY <1>1, <1>5 DEF Scrub, PreviewTypeOK, documentVars, answerVars
<1> QED BY <1>2, <1>3, <1>4, <1>5

LEMMA RequestStepTypes ==
  ASSUME PreviewTypeOK, Generate \/ AnyAnswer \/ Reset
  PROVE  PreviewTypeOK'
<1>1. UNCHANGED <<layers, selectedLayerId, values, mounted, visibleLayerCount>>
  BY DEF Generate, AnyAnswer, ImageAnswered, Reset, documentVars
<1>0. /\ MaxRequests \in Nat /\ requestId \in 0..MaxRequests /\ inFlight \subseteq 1..requestId
      /\ image \in 0..requestId
  BY PreviewAssumption DEF PreviewTypeOK
<1>2. requestId' \in 0..MaxRequests /\ inFlight' \subseteq 1..requestId' /\ image' \in 0..requestId'
  <2>1. CASE requestId' = requestId
    <3>1. inFlight' \subseteq inFlight /\ image' \in {image} \cup inFlight
      BY <1>0, <2>1 DEF Generate, AnyAnswer, ImageAnswered, Reset
    <3> QED BY <1>0, <2>1, <3>1
  <2>2. CASE requestId' # requestId
    <3>1. /\ requestId < MaxRequests /\ requestId' = requestId + 1
          /\ inFlight' \subseteq inFlight \cup {requestId + 1} /\ image' \in {image, 0}
      BY <2>2 DEF Generate, AnyAnswer, ImageAnswered, Reset
    <3> QED BY <1>0, <3>1
  <2> QED BY <2>1, <2>2
<1>3. isGenerating' \in BOOLEAN /\ error' \in BOOLEAN
  <2>1. isGenerating' \in {TRUE, FALSE, isGenerating}
    BY DEF Generate, AnyAnswer, ImageAnswered, Reset
  <2>2. error' \in {TRUE, FALSE, error}
    BY DEF Generate, AnyAnswer, ImageAnswered, Reset
  <2> QED BY <2>1, <2>2 DEF PreviewTypeOK
<1> QED BY <1>1, <1>2, <1>3 DEF PreviewTypeOK

LEMMA PreviewTypesInit == PreviewInit => PreviewTypeOK
<1> SUFFICES ASSUME PreviewInit PROVE PreviewTypeOK
  OBVIOUS
<1>1. layers \in Seq(Layers) /\ Len(layers) = 0 /\ layers = <<>>
  BY DEF PreviewInit
<1>2. IsInjective(layers)
  BY <1>1 DEF IsInjective
<1>3. visibleLayerCount \in 0..Cardinality(Layers)
  BY PreviewAssumption, FS_CardinalityType DEF PreviewInit
<1>4. requestId \in 0..MaxRequests /\ inFlight \subseteq 1..requestId /\ image \in 0..requestId
  BY PreviewAssumption DEF PreviewInit
<1>5. /\ selectedLayerId = NoLayer /\ values \in Values /\ mounted \in BOOLEAN
      /\ isGenerating \in BOOLEAN /\ error \in BOOLEAN
  BY DEF PreviewInit, Values
<1>6. visibleLayerCount <= Len(layers) /\ (layers # <<>> => visibleLayerCount > 0)
  BY <1>1 DEF PreviewInit
<1> QED BY <1>1, <1>2, <1>3, <1>4, <1>5, <1>6 DEF PreviewTypeOK

LEMMA PreviewTypesStep == PreviewTypeOK /\ [PreviewNext]_previewVars => PreviewTypeOK'
<1>1. PreviewTypeOK /\ UNCHANGED previewVars => PreviewTypeOK'
  BY DEF PreviewTypeOK, previewVars, documentVars, answerVars
<1> QED BY <1>1, LayerStepTypes, ScreenStepTypes, RequestStepTypes DEF PreviewNext

\* The scrubber of the viewport asks for as many layers as there are at most, and for
\* one at least if there are any; the selected layer is one of them and no id names
\* two - however layers are added, removed, moved, duplicated or loaded, and whether
\* the viewport is on display meanwhile or not (preview-session.svelte.ts,
\* project-session.svelte.ts).
THEOREM ScrubberFollowsLayers == PreviewSpec => []PreviewTypeOK
BY PreviewTypesInit, PreviewTypesStep, PTL DEF PreviewSpec

-----------------------------------------------------------------------------
(* The whole workspace *)

\* Every field of the project has its type, for any files, layers, operations,
\* edits and requests: the revisions count edits, no call to the disk is tried more
\* often than retry.ts allows, and the recent files are a list without repetition
\* that is never longer than its maximum (recentFiles.ts); and the scrubber, the
\* selection and the requests of the preview have theirs.
THEOREM WorkspaceTypeCorrect == WorkspaceSpec => []WorkspaceTypeOK
<1> DEFINE Inv == FileInv /\ BoundsInv /\ PreviewTypeOK
<1>1. WorkspaceInit => Inv
  BY FileInitInv, BoundsInit, PreviewTypesInit DEF WorkspaceInit
<1>2. Inv /\ [FilePart \/ PreviewPart]_<<fileVars, previewVars, part>> => Inv'
  <2> SUFFICES ASSUME Inv, [FilePart \/ PreviewPart]_<<fileVars, previewVars, part>>
               PROVE  Inv'
    OBVIOUS
  <2>1. [FileNext]_fileVars /\ [PreviewNext]_previewVars
    BY DEF FilePart, PreviewPart
  <2> QED BY <2>1, FileStep, BoundsStep, PreviewTypesStep
<1>3. Inv => WorkspaceTypeOK
  BY FileTypes DEF WorkspaceTypeOK
<1> QED BY <1>1, <1>2, <1>3, PTL DEF WorkspaceSpec
=============================================================================
