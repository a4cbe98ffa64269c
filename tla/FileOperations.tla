--------------------------- MODULE FileOperations ---------------------------
(***************************************************************************)
(* The open project of the GUI (state/project-session.svelte.ts) and the   *)
(* file operations on it (services/file-operations.svelte.ts): new, open,  *)
(* open recent, save and save as, each an async function that asks the     *)
(* user, opens a file dialog and awaits the disk through a call that       *)
(* lib/retry.ts repeats.  Between two awaits the user may edit, and other  *)
(* operations may run.                                                     *)
(*                                                                         *)
(* A document is its version: 0 the empty one, f what file f held at       *)
(* first, n > 0 what the n-th edit left.                                   *)
(***************************************************************************)
EXTENDS Naturals, Sequences

CONSTANTS
  Files,         \* the paths of .wind files
  NoFile,        \* filePath = null
  Torn,          \* what a write that failed half way leaves in a file
  Ops,           \* bound: operations that run at the same time
  MaxAttempts,   \* retry's maxAttempts
  MaxRecent,     \* MAX_RECENT_FILES
  MaxEdits       \* bound: edits

ASSUME FilesAssumption ==
  /\ NoFile \notin Files \cup {Torn} /\ Torn \notin Files
  /\ MaxAttempts \in Nat \ {0} /\ MaxRecent \in Nat \ {0} /\ MaxEdits \in Nat

VARIABLES
  document,        \* the version of the document on display
  filePath,
  revision,
  savedRevision,
  recent,          \* the recent files, the latest first
  op,              \* the operations under way; late is history: the document was
                   \* edited after the operation had asked, or found nothing to ask
  disk,            \* what each file holds
  edits,           \* history: edits so far
  crossed          \* history: something changed while a save or a load was out

fileVars == <<document, filePath, revision, savedRevision, recent, op, disk,
              edits, crossed>>
sessionVars == <<document, filePath, revision, savedRevision, recent>>

Versions == {0} \cup 1..MaxEdits \cup Files
Idle == [at |-> "free", kind |-> "none", path |-> NoFile, body |-> 0,
         attempt |-> 0, agreed |-> FALSE, late |-> FALSE]

isDirty == revision # savedRevision

\* An operation whose call to the disk has not been answered to its end.
OnDisk(o) == op[o].at \in {"read", "loaded", "write", "written", "wait"}

\* A dialog of the application is modal: behind it there is no editing, no menu
\* and no shortcut.
NoDialog == \A o \in Ops : op[o].at \notin {"ask", "pick"}

Cross(others) == crossed' = (crossed \/ \E o \in others : OnDisk(o))

FileInit ==
  /\ document = 0 /\ filePath = NoFile
  /\ revision = 0 /\ savedRevision = 0
  /\ recent = <<>>
  /\ op = [o \in Ops |-> Idle]
  /\ disk = [f \in Files |-> f]
  /\ edits = 0 /\ crossed = FALSE

-----------------------------------------------------------------------------
(* The session and the list of recent files *)

\* update..., add, remove, reorder and duplicate: each changes the document and
\* bumps the revision, whatever is out at the disk.
Edit ==
  /\ NoDialog /\ edits < MaxEdits
  /\ edits' = edits + 1 /\ document' = edits + 1
  /\ revision' = revision + 1
  /\ op' = [o \in Ops |-> [op[o] EXCEPT !.late = @ \/ op[o].kind = "open"]]
  /\ Cross(Ops)
  /\ UNCHANGED <<filePath, savedRevision, recent, disk>>

\* Mutant: the saved revision is not reset.
LoadDocumentKeepsSaved(d, f) ==
  /\ document' = d /\ filePath' = f
  /\ revision' = 0 /\ UNCHANGED savedRevision

\* loadDocument replaces the document and starts its revisions anew.
LoadDocument(d, f) ==
  /\ document' = d /\ filePath' = f
  /\ revision' = 0 /\ savedRevision' = 0

\* The recent files without this one, in their order.
OtherRecentFiles(f) ==
  LET others[k \in 0..Len(recent)] ==
        IF k = 0 THEN <<>>
        ELSE IF recent[k] = f THEN others[k - 1]
        ELSE Append(others[k - 1], recent[k])
  IN others[Len(recent)]

\* addRecentFile: the path moves to the front of the list, which is cut.
AddRecentFile(f) ==
  LET list == <<f>> \o OtherRecentFiles(f)
  IN recent' = SubSeq(list, 1, IF Len(list) < MaxRecent THEN Len(list) ELSE MaxRecent)

-----------------------------------------------------------------------------
(* The operations *)

Goes(o, r) == op' = [op EXCEPT ![o] = r]
Done(o) == Goes(o, Idle)

\* The first attempt of a call to the disk.
Calls(o, at, r) ==
  /\ Goes(o, [r EXCEPT !.at = at, !.attempt = 1])
  /\ Cross(Ops \ {o})

\* loadFromPath and saveToFile: a save takes the document as it is now.
Read(o, r, f) == Calls(o, "read", [r EXCEPT !.path = f])
Write(o, f) == Calls(o, "write", [Idle EXCEPT !.kind = "save", !.path = f, !.body = document])

\* What follows confirmDiscardIfDirty.
Confirmed(o, r) ==
  \/ /\ r.kind = "new"
     /\ LoadDocument(0, NoFile) /\ Done(o) /\ Cross(Ops \ {o})
     /\ UNCHANGED recent
  \/ /\ r.kind = "open" /\ r.path = NoFile
     /\ Goes(o, [r EXCEPT !.at = "pick"])
     /\ UNCHANGED <<sessionVars, crossed>>
  \/ /\ r.kind = "open" /\ r.path # NoFile
     /\ Read(o, r, r.path)
     /\ UNCHANGED sessionVars

\* Mutant: asks only for a document that has a file.
NeedsConfirmNamed == isDirty /\ filePath # NoFile

\* confirmDiscardIfDirty asks only when there are unsaved changes.
NeedsConfirm == isDirty

\* newProject, openProject and openRecent; kind and path tell them apart.
Begin(o, kind, f) ==
  LET r == [Idle EXCEPT !.kind = kind, !.path = f]
  IN /\ op[o].at = "free"
     /\ \/ /\ NeedsConfirm
           /\ Goes(o, [r EXCEPT !.at = "ask"])
           /\ UNCHANGED <<sessionVars, crossed>>
        \/ /\ ~NeedsConfirm
           /\ Confirmed(o, r)
     /\ UNCHANGED <<disk, edits>>

NewProject(o) == NoDialog /\ Begin(o, "new", NoFile)
OpenProject(o) == NoDialog /\ Begin(o, "open", NoFile)

\* Also what the OS opens by file association, which waits for no dialog.
OpenRecent(o) == \E f \in Files : Begin(o, "open", f)

SaveProject(o) ==
  /\ NoDialog /\ op[o].at = "free"
  /\ \/ filePath # NoFile /\ Write(o, filePath)
     \/ /\ filePath = NoFile
        /\ Goes(o, [Idle EXCEPT !.at = "pick", !.kind = "save"]) /\ UNCHANGED crossed
  /\ UNCHANGED <<sessionVars, disk, edits>>

SaveProjectAs(o) ==
  /\ NoDialog /\ op[o].at = "free"
  /\ Goes(o, [Idle EXCEPT !.at = "pick", !.kind = "save"])
  /\ UNCHANGED <<sessionVars, disk, edits, crossed>>

Answer(o) ==
  /\ op[o].at = "ask"
  /\ \/ Done(o) /\ UNCHANGED <<sessionVars, crossed>>
     \/ Confirmed(o, [op[o] EXCEPT !.agreed = TRUE])
  /\ UNCHANGED <<disk, edits>>

Pick(o) ==
  /\ op[o].at = "pick"
  /\ \/ Done(o) /\ UNCHANGED crossed
     \/ \E f \in Files : op[o].kind = "open" /\ Read(o, op[o], f)
     \/ \E f \in Files : op[o].kind = "save" /\ Write(o, f)
  /\ UNCHANGED <<sessionVars, disk, edits>>

-----------------------------------------------------------------------------
(* The disk, and the retries of lib/retry.ts *)

\* An attempt that failed: another one after a delay, or the error is thrown.
Failed(o) ==
  \/ op[o].attempt < MaxAttempts /\ Goes(o, [op[o] EXCEPT !.at = "wait"])
  \/ op[o].attempt = MaxAttempts /\ Done(o)

Retry(o) ==
  /\ op[o].at = "wait"
  /\ Goes(o, [op[o] EXCEPT !.at = IF op[o].kind = "save" THEN "write" ELSE "read",
                           !.attempt = @ + 1])
  /\ UNCHANGED <<sessionVars, disk, edits, crossed>>

DiskReads(o) ==
  /\ op[o].at = "read"
  /\ \/ Goes(o, [op[o] EXCEPT !.at = "loaded", !.body = disk[op[o].path]])
     \/ Failed(o)
  /\ UNCHANGED <<sessionVars, disk, edits, crossed>>

\* The content is there: it is parsed and validated, or refused at either, as what a
\* failed write left always is.
Loaded(o) ==
  /\ op[o].at = "loaded" /\ Done(o)
  /\ \/ /\ op[o].body # Torn
        /\ LoadDocument(op[o].body, op[o].path)
        /\ AddRecentFile(op[o].path)
     \/ UNCHANGED sessionVars
  /\ UNCHANGED <<disk, edits, crossed>>

DiskWrites(o) ==
  /\ op[o].at = "write"
  /\ \/ /\ disk' = [disk EXCEPT ![op[o].path] = op[o].body]
        /\ Goes(o, [op[o] EXCEPT !.at = "written"])
     \/ /\ \/ disk' = disk
           \/ disk' = [disk EXCEPT ![op[o].path] = Torn]
        /\ Failed(o)
  /\ UNCHANGED <<sessionVars, edits, crossed>>

\* saveToFile after its await: path and revision are those of this moment.
Saved(o) ==
  /\ op[o].at = "written" /\ Done(o)
  /\ filePath' = op[o].path
  /\ savedRevision' = revision
  /\ AddRecentFile(op[o].path)
  /\ UNCHANGED <<document, revision, disk, edits, crossed>>

UserStep(o) ==
  NewProject(o) \/ OpenProject(o) \/ OpenRecent(o) \/ SaveProject(o)
    \/ SaveProjectAs(o) \/ Answer(o) \/ Pick(o)
CallStep(o) == Retry(o) \/ DiskReads(o) \/ Loaded(o) \/ DiskWrites(o) \/ Saved(o)

FileNext == Edit \/ \E o \in Ops : UserStep(o) \/ CallStep(o)

FileSpec == FileInit /\ [][FileNext]_fileVars

-----------------------------------------------------------------------------
(* Properties *)

Places == {"free", "ask", "pick", "read", "loaded", "write", "written", "wait"}

\* Every field has its type; only what is open has a place in the list, and no
\* path has two.
FileTypeOK ==
  /\ document \in Versions /\ filePath \in Files \cup {NoFile}
  /\ edits \in 0..MaxEdits /\ revision \in 0..edits /\ savedRevision \in 0..edits
  /\ recent \in Seq(Files) /\ Len(recent) <= MaxRecent
  /\ \A i, j \in 1..Len(recent) : recent[i] = recent[j] => i = j
  /\ op \in [Ops -> [at : Places, kind : {"none", "new", "open", "save"},
                     path : Files \cup {NoFile}, body : Versions \cup {Torn},
                     attempt : 0..MaxAttempts, agreed : BOOLEAN, late : BOOLEAN]]
  /\ disk \in [Files -> Versions \cup {Torn}]
  /\ crossed \in BOOLEAN

\* project-session.svelte.ts:138 "Mark the current revision as the on-disk one
\* (call after a successful save)": a document shown without unsaved changes is
\* the empty one or what its file holds.  (A write that failed may have torn the
\* file; the user was told.)
CleanDocumentIsOnDisk ==
  isDirty \/ IF filePath = NoFile THEN document = 0 ELSE disk[filePath] \in {document, Torn}

\* It is so in whatever order dialogs, calls, failures and retries come, as long as
\* nothing is edited and no second operation begins while a save or load is out.
CleanMeansSaved == ~crossed => CleanDocumentIsOnDisk

\* Unsaved changes are replaced by a new or a loaded document only if the user
\* agreed to it, or made them after the operation had asked or had found nothing to
\* ask: confirmDiscardIfDirty looks at the revision once, before the dialog and the
\* read, and LoadDocument does not look again.  So it is at every await of every
\* operation, whatever else is saved, loaded or fails meanwhile.
DiscardIsAgreed ==
  [][isDirty /\ revision' = 0
       => \E o \in Ops : op'[o] = Idle /\ (op[o].at = "ask" \/ op[o].agreed \/ op[o].late)]_fileVars
=============================================================================
