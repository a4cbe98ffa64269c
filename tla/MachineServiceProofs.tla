------------------------ MODULE MachineServiceProofs ------------------------
(***************************************************************************)
(* Proofs about MachineService, for any number of request threads, jobs,   *)
(* connections and lines, with or without failing disks.                   *)
(***************************************************************************)
EXTENDS MachineService, TLAPS

-----------------------------------------------------------------------------
(* The type invariant, made inductive *)

\* A request thread that waits for the board owns the lock, and whoever is
\* connecting still has a host number to use.
WaitersHoldLock ==
  \A c \in Clients :
    /\ client[c].at \in {"connecting", "querying"} => lock = c
    /\ client[c].at = "connecting" => conns < MaxHosts

\* Threads that use a host hold the number of one, and a live worker means that
\* the process runs and has a current job.
HostsNamed ==
  /\ \A c \in Clients :
       client[c].at \in {"querying", "halting"} => client[c].ref \in HostIds
  /\ \A w \in JobIds : Alive(w) => worker[w].host \in HostIds /\ job # 0 /\ up

\* A line is only out when the program has one more line.
LinesLeft ==
  \A w \in JobIds : worker[w].at = "sending" => worker[w].sent < jobs[w].total

\* A snapshot that would be recovered names a job.
SnapshotNamed == snap.state \in ActiveJobStates => snap.id \in JobIds

TypeInv == TypeOK /\ WaitersHoldLock /\ HostsNamed /\ LinesLeft /\ SnapshotNamed

USE DEF JobIds, HostIds, proc, conn, jobvars, threads, disk

-----------------------------------------------------------------------------
(* What the updates of the four tables preserve *)

LEMMA BlankTypes ==
  /\ ClosedHost \in HostType /\ [ClosedHost EXCEPT !.open = TRUE] \in HostType
  /\ NoJob \in JobType /\ NoWorker \in WorkerType
  /\ Idle \in ClientType /\ NoSnapshot \in SnapshotType
<1>1. ClosedHost \in HostType /\ [ClosedHost EXCEPT !.open = TRUE] \in HostType
  BY DEF ClosedHost, HostType
<1>2. NoJob \in JobType
  BY MachineAssumption DEF NoJob, JobType
<1>3. NoWorker \in WorkerType
  BY MachineAssumption DEF NoWorker, WorkerType
<1>4. Idle \in ClientType
  BY DEF Idle, ClientType
<1>5. NoSnapshot \in SnapshotType
  BY MachineAssumption DEF NoSnapshot, SnapshotType
<1>6. QED
  BY <1>1, <1>2, <1>3, <1>4, <1>5

LEMMA HostUpdate ==
  ASSUME NEW hs \in [HostIds -> HostType], NEW h \in HostIds, NEW b \in BOOLEAN
  PROVE  /\ [hs EXCEPT ![h].open = b] \in [HostIds -> HostType]
         /\ [hs EXCEPT ![h].paused = b] \in [HostIds -> HostType]
         /\ [hs EXCEPT ![h].stop = b] \in [HostIds -> HostType]
         /\ [hs EXCEPT ![h].halted = b] \in [HostIds -> HostType]
         /\ [hs EXCEPT ![h].paused = FALSE, ![h].stop = TRUE]
              \in [HostIds -> HostType]
  BY DEF HostType

LEMMA JobSetState ==
  ASSUME NEW js \in [JobIds -> JobType], NEW j \in JobIds,
         NEW s \in JobStates \cup {"none"}
  PROVE  [js EXCEPT ![j].state = s] \in [JobIds -> JobType]
  BY DEF JobType

LEMMA JobNote ==
  ASSUME NEW js \in [JobIds -> JobType], NEW j \in JobIds, NEW e \in EventTypes
  PROVE  [js EXCEPT ![j].events = Append(@, e)] \in [JobIds -> JobType]
<1>1. Append(js[j].events, e) \in Seq(EventTypes)
  BY DEF JobType
<1>2. QED
  BY <1>1 DEF JobType

LEMMA JobSettle ==
  ASSUME NEW js \in [JobIds -> JobType], NEW j \in JobIds,
         NEW s \in JobStates, NEW e \in EventTypes
  PROVE  [js EXCEPT ![j].state = s, ![j].events = Append(@, e)]
           \in [JobIds -> JobType]
<1>1. Append(js[j].events, e) \in Seq(EventTypes)
  BY DEF JobType
<1>2. QED
  BY <1>1 DEF JobType

LEMMA JobProgress ==
  ASSUME NEW js \in [JobIds -> JobType], NEW j \in JobIds,
         NEW n \in 0..MaxLines, NEW e \in EventTypes
  PROVE  [js EXCEPT ![j].sent = n, ![j].events = Append(@, e)]
           \in [JobIds -> JobType]
<1>1. Append(js[j].events, e) \in Seq(EventTypes)
  BY DEF JobType
<1>2. QED
  BY <1>1 DEF JobType

LEMMA WorkerMove ==
  ASSUME TypeOK, NEW w \in JobIds, NEW a \in RunningAt \cup {"none", "done", "died"},
         MoveTo(w, a)
  PROVE  worker' \in [JobIds -> WorkerType]
  BY DEF TypeOK, WorkerType, MoveTo

LEMMA ClientMove ==
  ASSUME NEW cs \in [Clients -> ClientType], NEW c \in Clients,
         NEW a \in {"idle", "connecting", "querying", "halting", "estop",
                    "cancelling", "joining", "closing"}
  PROVE  /\ [cs EXCEPT ![c].at = a] \in [Clients -> ClientType]
         /\ [cs EXCEPT ![c] = Idle] \in [Clients -> ClientType]
  BY BlankTypes DEF ClientType

LEMMA ClientHold ==
  ASSUME NEW cs \in [Clients -> ClientType], NEW c \in Clients,
         NEW a \in {"idle", "connecting", "querying", "halting", "estop",
                    "cancelling", "joining", "closing"}, NEW n \in Nat
  PROVE  [cs EXCEPT ![c] = [at |-> a, ref |-> n]] \in [Clients -> ClientType]
  BY DEF ClientType

LEMMA PersistType ==
  ASSUME TypeOK, NEW j \in JobIds, jobs' \in [JobIds -> JobType],
         Persist(j, jobs'), SnapshotNamed
  PROVE  snap' \in SnapshotType /\ SnapshotNamed'
<1>1. CASE snap' = [id |-> j, state |-> jobs'[j].state,
                    total |-> jobs'[j].total, sent |-> jobs'[j].sent]
  <2>1. jobs'[j] \in JobType /\ j \in 0..MaxJobs
    BY MachineAssumption
  <2>2. snap' \in SnapshotType
    BY <1>1, <2>1 DEF SnapshotType, JobType
  <2>3. snap'.id \in JobIds
    BY <1>1
  <2>4. QED
    BY <2>2, <2>3 DEF SnapshotNamed
<1>2. CASE snap' = snap
  BY <1>2 DEF TypeOK, SnapshotNamed
<1>3. QED
  BY <1>1, <1>2 DEF Persist

LEMMA ClearType ==
  ASSUME TypeOK, ClearPersisted, SnapshotNamed
  PROVE  snap' \in SnapshotType /\ fresh' \in BOOLEAN /\ SnapshotNamed'
<1>1. fresh' = FALSE /\ (snap' = NoSnapshot \/ snap' = snap)
  BY DEF ClearPersisted
<1>2. CASE snap' = NoSnapshot
  BY <1>1, <1>2, BlankTypes DEF SnapshotNamed, NoSnapshot, ActiveJobStates
<1>3. CASE snap' = snap
  BY <1>1, <1>3 DEF TypeOK, SnapshotNamed
<1>4. QED
  BY <1>1, <1>2, <1>3

-----------------------------------------------------------------------------
LEMMA ConnectBeginType == ASSUME TypeInv, NEW c \in Clients, ConnectBegin(c) PROVE TypeInv'
<1>0. TypeOK /\ WaitersHoldLock /\ HostsNamed /\ LinesLeft /\ SnapshotNamed
  BY DEF TypeInv
<1>1. client' \in [Clients -> ClientType]
  BY <1>0, ClientHold DEF ConnectBegin, TypeOK
<1>2. TypeOK'
  BY <1>0, <1>1 DEF ConnectBegin, TypeOK
<1>3. WaitersHoldLock'
  BY <1>0, MachineAssumption DEF ConnectBegin, WaitersHoldLock, TypeOK, ClientType, Locked
<1>4. HostsNamed'
  BY <1>0 DEF ConnectBegin, HostsNamed, TypeOK, Alive, ClientType
<1>5. LinesLeft'
  BY <1>0 DEF ConnectBegin, LinesLeft, TypeOK
<1>6. SnapshotNamed'
  BY <1>0 DEF ConnectBegin, SnapshotNamed
<1>7. QED
  BY <1>1, <1>2, <1>3, <1>4, <1>5, <1>6 DEF TypeInv

LEMMA ConnectOkType == ASSUME TypeInv, NEW c \in Clients, ConnectOk(c) PROVE TypeInv'
<1>0. TypeOK /\ WaitersHoldLock /\ HostsNamed /\ LinesLeft /\ SnapshotNamed
  BY DEF TypeInv
<1>a. conns + 1 \in HostIds /\ conns + 1 \in 0..MaxHosts
  BY <1>0, MachineAssumption DEF ConnectOk, TypeOK, WaitersHoldLock
<1>1. hosts' \in [HostIds -> HostType]
  BY <1>0, <1>a, BlankTypes DEF ConnectOk, TypeOK
<1>2. client' \in [Clients -> ClientType]
  BY <1>0, ClientMove DEF ConnectOk, TypeOK
<1>3. TypeOK'
  BY <1>0, <1>1, <1>2, <1>a DEF ConnectOk, TypeOK
<1>4. WaitersHoldLock'
  BY <1>0, MachineAssumption DEF ConnectOk, WaitersHoldLock, TypeOK, Idle, ClientType
<1>5. HostsNamed'
  BY <1>0 DEF ConnectOk, HostsNamed, TypeOK, Alive, Idle, ClientType
<1>6. LinesLeft'
  BY <1>0 DEF ConnectOk, LinesLeft, TypeOK
<1>7. SnapshotNamed'
  BY <1>0 DEF ConnectOk, SnapshotNamed
<1>8. QED
  BY <1>1, <1>2, <1>3, <1>4, <1>5, <1>6, <1>7 DEF TypeInv

LEMMA ConnectFailType == ASSUME TypeInv, NEW c \in Clients, ConnectFail(c) PROVE TypeInv'
<1>0. TypeOK /\ WaitersHoldLock /\ HostsNamed /\ LinesLeft /\ SnapshotNamed
  BY DEF TypeInv
<1>1. client' \in [Clients -> ClientType]
  BY <1>0, ClientMove DEF ConnectFail, TypeOK
<1>2. TypeOK'
  BY <1>0, <1>1 DEF ConnectFail, TypeOK
<1>3. WaitersHoldLock'
  BY <1>0, MachineAssumption DEF ConnectFail, WaitersHoldLock, TypeOK, Idle, ClientType
<1>4. HostsNamed'
  BY <1>0 DEF ConnectFail, HostsNamed, TypeOK, Alive, Idle, ClientType
<1>5. LinesLeft'
  BY <1>0 DEF ConnectFail, LinesLeft, TypeOK
<1>6. SnapshotNamed'
  BY <1>0 DEF ConnectFail, SnapshotNamed
<1>7. QED
  BY <1>1, <1>2, <1>3, <1>4, <1>5, <1>6 DEF TypeInv

LEMMA DisconnectReadType == ASSUME TypeInv, NEW c \in Clients, DisconnectRead(c) PROVE TypeInv'
<1>0. TypeOK /\ WaitersHoldLock /\ HostsNamed /\ LinesLeft /\ SnapshotNamed
  BY DEF TypeInv
<1>a. thread \in Nat
  BY <1>0, MachineAssumption DEF TypeOK
<1>1. client' \in [Clients -> ClientType]
  BY <1>0, <1>a, ClientHold DEF DisconnectRead, TypeOK
<1>2. TypeOK'
  BY <1>0, <1>1 DEF DisconnectRead, TypeOK
<1>3. WaitersHoldLock'
  BY <1>0 DEF DisconnectRead, WaitersHoldLock, TypeOK, ClientType
<1>4. HostsNamed'
  BY <1>0 DEF DisconnectRead, HostsNamed, TypeOK, Alive, ClientType
<1>5. LinesLeft'
  BY <1>0 DEF DisconnectRead, LinesLeft, TypeOK
<1>6. SnapshotNamed'
  BY <1>0 DEF DisconnectRead, SnapshotNamed
<1>7. QED
  BY <1>1, <1>2, <1>3, <1>4, <1>5, <1>6 DEF TypeInv

LEMMA DisconnectCancelType == ASSUME TypeInv, NEW c \in Clients, DisconnectCancel(c) PROVE TypeInv'
<1>0. TypeOK /\ WaitersHoldLock /\ HostsNamed /\ LinesLeft /\ SnapshotNamed
  BY DEF TypeInv
<1>a. /\ host # 0 => host \in HostIds
      /\ CurrentActive => job \in JobIds
  BY <1>0, MachineAssumption DEF TypeOK, CurrentActive
<1>1. hosts' \in [HostIds -> HostType]
  <2>1. CASE host # 0 /\ hosts' = [hosts EXCEPT ![host].paused = FALSE, ![host].stop = TRUE]
    BY <1>0, <1>a, <2>1, HostUpdate DEF TypeOK
  <2>2. CASE UNCHANGED hosts
    BY <1>0, <2>2 DEF TypeOK
  <2>3. QED
    BY <2>1, <2>2 DEF DisconnectCancel
<1>2. jobs' \in [JobIds -> JobType]
  <2>1. CASE CurrentActive /\ jobs' = [jobs EXCEPT ![job].state = "cancelled"]
    BY <1>0, <1>a, <2>1, JobSetState DEF TypeOK, JobStates
  <2>2. CASE UNCHANGED jobs
    BY <1>0, <2>2 DEF TypeOK
  <2>3. QED
    BY <2>1, <2>2 DEF DisconnectCancel
<1>3. client' \in [Clients -> ClientType]
  BY <1>0, ClientMove DEF DisconnectCancel, TypeOK
<1>4. TypeOK'
  BY <1>0, <1>1, <1>2, <1>3 DEF DisconnectCancel, TypeOK
<1>5. WaitersHoldLock'
  BY <1>0 DEF DisconnectCancel, WaitersHoldLock, TypeOK, ClientType
<1>6. HostsNamed'
  BY <1>0 DEF DisconnectCancel, HostsNamed, TypeOK, Alive, ClientType
<1>7. LinesLeft'
  <2>1. jobs' = jobs \/ jobs' = [jobs EXCEPT ![job].state = "cancelled"]
    BY DEF DisconnectCancel
  <2>2. \A w \in JobIds : jobs'[w].total = jobs[w].total
    <3>1. jobs \in [JobIds -> JobType]
      BY <1>0 DEF TypeOK
    <3>2. CASE jobs' = jobs
      BY <3>2
    <3>3. CASE jobs' = [jobs EXCEPT ![job].state = "cancelled"]
      <4>1. ASSUME NEW w \in JobIds PROVE jobs'[w].total = jobs[w].total
        <5>1. jobs[w] \in JobType
          BY <3>1
        <5>2. jobs'[w] = jobs[w] \/ jobs'[w] = [jobs[w] EXCEPT !.state = "cancelled"]
          BY <3>1, <3>3
        <5>3. QED
          BY <5>1, <5>2 DEF JobType
      <4>2. QED
        BY <4>1
    <3>4. QED
      BY <2>1, <3>2, <3>3
  <2>3. QED
    BY <1>0, <2>2 DEF DisconnectCancel, LinesLeft
<1>8. SnapshotNamed'
  BY <1>0 DEF DisconnectCancel, SnapshotNamed
<1>9. QED
  BY <1>1, <1>2, <1>3, <1>4, <1>5, <1>6, <1>7, <1>8 DEF TypeInv

LEMMA DisconnectJoinedType == ASSUME TypeInv, NEW c \in Clients, DisconnectJoined(c) PROVE TypeInv'
<1>0. TypeOK /\ WaitersHoldLock /\ HostsNamed /\ LinesLeft /\ SnapshotNamed
  BY DEF TypeInv
<1>1. client' \in [Clients -> ClientType]
  BY <1>0, ClientHold, 0 \in Nat DEF DisconnectJoined, TypeOK
<1>2. TypeOK'
  BY <1>0, <1>1 DEF DisconnectJoined, TypeOK
<1>3. WaitersHoldLock'
  BY <1>0 DEF DisconnectJoined, WaitersHoldLock, TypeOK, ClientType
<1>4. HostsNamed'
  BY <1>0 DEF DisconnectJoined, HostsNamed, TypeOK, Alive, ClientType
<1>5. LinesLeft'
  BY <1>0 DEF DisconnectJoined, LinesLeft, TypeOK
<1>6. SnapshotNamed'
  BY <1>0 DEF DisconnectJoined, SnapshotNamed
<1>7. QED
  BY <1>1, <1>2, <1>3, <1>4, <1>5, <1>6 DEF TypeInv

LEMMA JoinTimeoutType == ASSUME TypeInv, NEW c \in Clients, JoinTimeout(c) PROVE TypeInv'
<1>0. TypeOK /\ WaitersHoldLock /\ HostsNamed /\ LinesLeft /\ SnapshotNamed
  BY DEF TypeInv
<1>1. client' \in [Clients -> ClientType]
  BY <1>0, ClientHold, 0 \in Nat DEF JoinTimeout, TypeOK
<1>2. TypeOK'
  BY <1>0, <1>1 DEF JoinTimeout, TypeOK
<1>3. WaitersHoldLock'
  BY <1>0 DEF JoinTimeout, WaitersHoldLock, TypeOK, ClientType
<1>4. HostsNamed'
  BY <1>0 DEF JoinTimeout, HostsNamed, TypeOK, Alive, ClientType
<1>5. LinesLeft'
  BY <1>0 DEF JoinTimeout, LinesLeft, TypeOK
<1>6. SnapshotNamed'
  BY <1>0 DEF JoinTimeout, SnapshotNamed
<1>7. QED
  BY <1>1, <1>2, <1>3, <1>4, <1>5, <1>6 DEF TypeInv

LEMMA DisconnectCloseType == ASSUME TypeInv, NEW c \in Clients, DisconnectClose(c) PROVE TypeInv'
<1>0. TypeOK /\ WaitersHoldLock /\ HostsNamed /\ LinesLeft /\ SnapshotNamed
  BY DEF TypeInv
<1>a. host # 0 => host \in HostIds
  BY <1>0, MachineAssumption DEF TypeOK
<1>1. hosts' \in [HostIds -> HostType]
  <2>1. CASE host # 0 /\ hosts' = [hosts EXCEPT ![host].open = FALSE]
    BY <1>0, <1>a, <2>1, HostUpdate DEF TypeOK
  <2>2. CASE UNCHANGED hosts
    BY <1>0, <2>2 DEF TypeOK
  <2>3. QED
    BY <2>1, <2>2 DEF DisconnectClose
<1>2. client' \in [Clients -> ClientType]
  BY <1>0, ClientMove DEF DisconnectClose, TypeOK
<1>3. snap' \in SnapshotType /\ fresh' \in BOOLEAN /\ SnapshotNamed'
  BY <1>0, ClearType DEF DisconnectClose
<1>4. TypeOK'
  BY <1>0, <1>1, <1>2, <1>3, MachineAssumption DEF DisconnectClose, TypeOK
<1>5. WaitersHoldLock'
  BY <1>0 DEF DisconnectClose, WaitersHoldLock, TypeOK, Idle, ClientType
<1>6. HostsNamed'
  BY <1>0 DEF DisconnectClose, HostsNamed, TypeOK, Alive, Idle, ClientType
<1>7. LinesLeft'
  BY <1>0 DEF DisconnectClose, LinesLeft, TypeOK
<1>8. QED
  BY <1>1, <1>2, <1>3, <1>4, <1>5, <1>6, <1>7 DEF TypeInv

LEMMA QueryBeginType == ASSUME TypeInv, NEW c \in Clients, QueryBegin(c) PROVE TypeInv'
<1>0. TypeOK /\ WaitersHoldLock /\ HostsNamed /\ LinesLeft /\ SnapshotNamed
  BY DEF TypeInv
<1>a. host \in HostIds /\ host \in Nat
  BY <1>0, MachineAssumption DEF QueryBegin, HostReady, TypeOK
<1>1. client' \in [Clients -> ClientType]
  BY <1>0, <1>a, ClientHold DEF QueryBegin, TypeOK
<1>2. TypeOK'
  BY <1>0, <1>1 DEF QueryBegin, TypeOK
<1>3. WaitersHoldLock'
  BY <1>0, MachineAssumption DEF QueryBegin, WaitersHoldLock, TypeOK, ClientType, Locked
<1>4. HostsNamed'
  BY <1>0, <1>a DEF QueryBegin, HostsNamed, TypeOK, Alive, ClientType
<1>5. LinesLeft'
  BY <1>0 DEF QueryBegin, LinesLeft, TypeOK
<1>6. SnapshotNamed'
  BY <1>0 DEF QueryBegin, SnapshotNamed
<1>7. QED
  BY <1>1, <1>2, <1>3, <1>4, <1>5, <1>6 DEF TypeInv

LEMMA QueryEndType == ASSUME TypeInv, NEW c \in Clients, QueryEnd(c) PROVE TypeInv'
<1>0. TypeOK /\ WaitersHoldLock /\ HostsNamed /\ LinesLeft /\ SnapshotNamed
  BY DEF TypeInv
<1>1. hosts' \in [HostIds -> HostType]
  <2>1. client[c].ref \in HostIds
    BY <1>0 DEF QueryEnd, HostsNamed
  <2>2. PICK open \in {hosts[client[c].ref].open, FALSE} :
          hosts' = [hosts EXCEPT ![client[c].ref].open = open]
    BY DEF QueryEnd
  <2>3. open \in BOOLEAN
    BY <1>0, <2>1 DEF TypeOK, HostType
  <2>4. QED
    BY <1>0, <2>1, <2>2, <2>3, HostUpdate DEF TypeOK
<1>2. client' \in [Clients -> ClientType]
  BY <1>0, ClientMove DEF QueryEnd, TypeOK
<1>3. TypeOK'
  BY <1>0, <1>1, <1>2 DEF QueryEnd, TypeOK
<1>4. WaitersHoldLock'
  BY <1>0, MachineAssumption DEF QueryEnd, WaitersHoldLock, TypeOK, Idle, ClientType
<1>5. HostsNamed'
  BY <1>0 DEF QueryEnd, HostsNamed, TypeOK, Alive, Idle, ClientType
<1>6. LinesLeft'
  BY <1>0 DEF QueryEnd, LinesLeft, TypeOK
<1>7. SnapshotNamed'
  BY <1>0 DEF QueryEnd, SnapshotNamed
<1>8. QED
  BY <1>1, <1>2, <1>3, <1>4, <1>5, <1>6, <1>7 DEF TypeInv

LEMMA StartJobType == ASSUME TypeInv, NEW c \in Clients, NEW n \in 0..MaxLines, StartJob(c, n) PROVE TypeInv'
<1>0. TypeOK /\ WaitersHoldLock /\ HostsNamed /\ LinesLeft /\ SnapshotNamed
  BY DEF TypeInv
<1>a. counter + 1 \in JobIds /\ counter + 1 \in 0..MaxJobs /\ host \in HostIds
      /\ host \in 0..MaxHosts
  BY <1>0, MachineAssumption DEF StartJob, HostReady, TypeOK
<1>b. [NoJob EXCEPT !.state = "streaming", !.total = n] \in JobType
  BY BlankTypes DEF JobType, JobStates, ActiveJobStates
<1>c. [at |-> "ready", host |-> host, sent |-> 0] \in WorkerType
  BY <1>a, MachineAssumption DEF WorkerType, RunningAt
<1>1. jobs' \in [JobIds -> JobType]
  BY <1>0, <1>a, <1>b DEF StartJob, TypeOK
<1>2. worker' \in [JobIds -> WorkerType]
  BY <1>0, <1>a, <1>c DEF StartJob, TypeOK
<1>3. snap' \in SnapshotType /\ fresh' \in BOOLEAN /\ SnapshotNamed'
  <2>1. Persist(counter + 1, jobs') /\ fresh' = TRUE
    BY DEF StartJob
  <2>2. QED
    BY <1>0, <1>a, <1>1, <2>1, PersistType
<1>4. TypeOK'
  BY <1>0, <1>1, <1>2, <1>3, <1>a DEF StartJob, TypeOK
<1>5. WaitersHoldLock'
  BY <1>0 DEF StartJob, WaitersHoldLock, TypeOK
<1>6. HostsNamed'
  <2>1. client' = client /\ job' = counter + 1 /\ job' # 0 /\ up'
    BY <1>0, <1>a, MachineAssumption DEF StartJob, Request, TypeOK
  <2>2. \A w \in JobIds : worker'[w].host = host \/ worker'[w] = worker[w]
    BY <1>0, <1>a DEF StartJob, TypeOK
  <2>3. \A w \in JobIds : Alive(w)' => worker'[w].host \in HostIds
    BY <1>0, <1>a, <2>2 DEF HostsNamed, Alive
  <2> QED BY <1>0, <2>1, <2>3 DEF HostsNamed
<1>7. LinesLeft'
  BY <1>0 DEF StartJob, LinesLeft, TypeOK, JobType, WorkerType
<1>8. QED
  BY <1>1, <1>2, <1>3, <1>4, <1>5, <1>6, <1>7 DEF TypeInv

LEMMA PauseJobType == ASSUME TypeInv, NEW c \in Clients, PauseJob(c) PROVE TypeInv'
<1>0. TypeOK /\ WaitersHoldLock /\ HostsNamed /\ LinesLeft /\ SnapshotNamed
  BY DEF TypeInv
<1>a. job \in JobIds /\ host \in HostIds
  BY <1>0, MachineAssumption DEF PauseJob, KnownJob, HostReady, TypeOK
<1>b. PICK s \in JobStates \cup {"none"} : jobs' = [jobs EXCEPT ![job].state = s]
  <2>1. (IF jobs[job].state = "streaming" THEN "paused" ELSE jobs[job].state)
          \in JobStates \cup {"none"}
    BY <1>0, <1>a DEF TypeOK, JobType, JobStates, ActiveJobStates
  <2>2. QED
    BY <2>1 DEF PauseJob
<1>1. hosts' \in [HostIds -> HostType]
  BY <1>0, <1>a, HostUpdate DEF PauseJob, TypeOK
<1>2. jobs' \in [JobIds -> JobType]
  BY <1>0, <1>a, <1>b, JobSetState DEF TypeOK
<1>3. snap' \in SnapshotType /\ fresh' \in BOOLEAN /\ SnapshotNamed'
  <2>1. Persist(job, jobs') /\ fresh' = fresh
    BY DEF PauseJob
  <2>2. QED
    BY <1>0, <1>a, <1>2, <2>1, PersistType DEF TypeOK
<1>4. TypeOK'
  BY <1>0, <1>1, <1>2, <1>3 DEF PauseJob, TypeOK
<1>5. WaitersHoldLock'
  BY <1>0 DEF PauseJob, WaitersHoldLock, TypeOK
<1>6. HostsNamed'
  BY <1>0 DEF PauseJob, HostsNamed, TypeOK, Alive
<1>7. LinesLeft'
  BY <1>0, <1>b DEF PauseJob, LinesLeft, TypeOK, JobType
<1>8. QED
  BY <1>1, <1>2, <1>3, <1>4, <1>5, <1>6, <1>7 DEF TypeInv

LEMMA ResumeJobType == ASSUME TypeInv, NEW c \in Clients, ResumeJob(c) PROVE TypeInv'
<1>0. TypeOK /\ WaitersHoldLock /\ HostsNamed /\ LinesLeft /\ SnapshotNamed
  BY DEF TypeInv
<1>a. job \in JobIds /\ host \in HostIds
  BY <1>0, MachineAssumption DEF ResumeJob, KnownJob, HostReady, TypeOK
<1>b. PICK s \in JobStates \cup {"none"} : jobs' = [jobs EXCEPT ![job].state = s]
  <2>1. (IF jobs[job].state = "paused" THEN "streaming" ELSE jobs[job].state)
          \in JobStates \cup {"none"}
    BY <1>0, <1>a DEF TypeOK, JobType, JobStates, ActiveJobStates
  <2>2. QED
    BY <2>1 DEF ResumeJob
<1>1. hosts' \in [HostIds -> HostType]
  BY <1>0, <1>a, HostUpdate DEF ResumeJob, TypeOK
<1>2. jobs' \in [JobIds -> JobType]
  BY <1>0, <1>a, <1>b, JobSetState DEF TypeOK
<1>3. snap' \in SnapshotType /\ fresh' \in BOOLEAN /\ SnapshotNamed'
  <2>1. Persist(job, jobs') /\ fresh' = fresh
    BY DEF ResumeJob
  <2>2. QED
    BY <1>0, <1>a, <1>2, <2>1, PersistType DEF TypeOK
<1>4. TypeOK'
  BY <1>0, <1>1, <1>2, <1>3 DEF ResumeJob, TypeOK
<1>5. WaitersHoldLock'
  BY <1>0 DEF ResumeJob, WaitersHoldLock, TypeOK
<1>6. HostsNamed'
  BY <1>0 DEF ResumeJob, HostsNamed, TypeOK, Alive
<1>7. LinesLeft'
  BY <1>0, <1>b DEF ResumeJob, LinesLeft, TypeOK, JobType
<1>8. QED
  BY <1>1, <1>2, <1>3, <1>4, <1>5, <1>6, <1>7 DEF TypeInv

LEMMA CancelJobType == ASSUME TypeInv, NEW c \in Clients, CancelJob(c) PROVE TypeInv'
<1>0. TypeOK /\ WaitersHoldLock /\ HostsNamed /\ LinesLeft /\ SnapshotNamed
  BY DEF TypeInv
<1>a. job \in JobIds /\ host \in HostIds
  BY <1>0, MachineAssumption DEF CancelJob, KnownJob, HostReady, TypeOK
<1>b. PICK s \in JobStates \cup {"none"} : jobs' = [jobs EXCEPT ![job].state = s]
  <2>1. (IF jobs[job].state \in ActiveJobStates THEN "cancelled" ELSE jobs[job].state)
          \in JobStates \cup {"none"}
    BY <1>0, <1>a DEF TypeOK, JobType, JobStates
  <2>2. QED
    BY <2>1 DEF CancelJob
<1>1. hosts' \in [HostIds -> HostType]
  BY <1>0, <1>a, HostUpdate DEF CancelJob, TypeOK
<1>2. jobs' \in [JobIds -> JobType]
  BY <1>0, <1>a, <1>b, JobSetState DEF TypeOK
<1>3. snap' \in SnapshotType /\ fresh' \in BOOLEAN /\ SnapshotNamed'
  BY <1>0, ClearType DEF CancelJob
<1>4. TypeOK'
  BY <1>0, <1>1, <1>2, <1>3 DEF CancelJob, TypeOK
<1>5. WaitersHoldLock'
  BY <1>0 DEF CancelJob, WaitersHoldLock, TypeOK
<1>6. HostsNamed'
  BY <1>0 DEF CancelJob, HostsNamed, TypeOK, Alive
<1>7. LinesLeft'
  BY <1>0, <1>b DEF CancelJob, LinesLeft, TypeOK, JobType
<1>8. QED
  BY <1>1, <1>2, <1>3, <1>4, <1>5, <1>6, <1>7 DEF TypeInv

LEMMA EstopReadType == ASSUME TypeInv, NEW c \in Clients, EstopRead(c) PROVE TypeInv'
<1>0. TypeOK /\ WaitersHoldLock /\ HostsNamed /\ LinesLeft /\ SnapshotNamed
  BY DEF TypeInv
<1>a. host \in HostIds /\ host \in Nat
  BY <1>0, MachineAssumption DEF EstopRead, TypeOK
<1>1. client' \in [Clients -> ClientType]
  BY <1>0, <1>a, ClientHold DEF EstopRead, TypeOK
<1>2. TypeOK'
  BY <1>0, <1>1 DEF EstopRead, TypeOK
<1>3. WaitersHoldLock'
  BY <1>0 DEF EstopRead, WaitersHoldLock, TypeOK, ClientType
<1>4. HostsNamed'
  BY <1>0, <1>a DEF EstopRead, HostsNamed, TypeOK, Alive, ClientType
<1>5. LinesLeft'
  BY <1>0 DEF EstopRead, LinesLeft, TypeOK
<1>6. SnapshotNamed'
  BY <1>0 DEF EstopRead, SnapshotNamed
<1>7. QED
  BY <1>1, <1>2, <1>3, <1>4, <1>5, <1>6 DEF TypeInv

LEMMA EstopWriteType == ASSUME TypeInv, NEW c \in Clients, EstopWrite(c) PROVE TypeInv'
<1>0. TypeOK /\ WaitersHoldLock /\ HostsNamed /\ LinesLeft /\ SnapshotNamed
  BY DEF TypeInv
<1>a. client[c].ref \in HostIds
  BY <1>0 DEF EstopWrite, HostsNamed
<1>1. hosts' \in [HostIds -> HostType]
  <2>1. CASE hosts' = [hosts EXCEPT ![client[c].ref].halted = TRUE]
    BY <1>0, <1>a, <2>1, HostUpdate DEF TypeOK
  <2>2. CASE UNCHANGED hosts
    BY <1>0, <2>2 DEF TypeOK
  <2>3. QED
    BY <2>1, <2>2 DEF EstopWrite
<1>2. client' \in [Clients -> ClientType]
  <2>1. CASE client' = [client EXCEPT ![c].at = "estop"]
    BY <1>0, <2>1, ClientMove DEF TypeOK
  <2>2. CASE client' = [client EXCEPT ![c] = Idle]
    BY <1>0, <2>2, ClientMove DEF TypeOK
  <2>3. QED
    BY <2>1, <2>2 DEF EstopWrite
<1>3. TypeOK'
  BY <1>0, <1>1, <1>2 DEF EstopWrite, TypeOK
<1>4. WaitersHoldLock'
  BY <1>0 DEF EstopWrite, WaitersHoldLock, TypeOK, Idle, ClientType
<1>5. HostsNamed'
  BY <1>0 DEF EstopWrite, HostsNamed, TypeOK, Alive, Idle, ClientType
<1>6. LinesLeft'
  BY <1>0 DEF EstopWrite, LinesLeft, TypeOK
<1>7. SnapshotNamed'
  BY <1>0 DEF EstopWrite, SnapshotNamed
<1>8. QED
  BY <1>1, <1>2, <1>3, <1>4, <1>5, <1>6, <1>7 DEF TypeInv

LEMMA EstopMarkType == ASSUME TypeInv, NEW c \in Clients, EstopMark(c) PROVE TypeInv'
<1>0. TypeOK /\ WaitersHoldLock /\ HostsNamed /\ LinesLeft /\ SnapshotNamed
  BY DEF TypeInv
<1>1. client' \in [Clients -> ClientType]
  BY <1>0, ClientMove DEF EstopMark, TypeOK
<1>2. TypeOK'
  BY <1>0, <1>1 DEF EstopMark, TypeOK
<1>3. WaitersHoldLock'
  BY <1>0 DEF EstopMark, WaitersHoldLock, TypeOK, Idle, ClientType
<1>4. HostsNamed'
  BY <1>0 DEF EstopMark, HostsNamed, TypeOK, Alive, Idle, ClientType
<1>5. LinesLeft'
  BY <1>0 DEF EstopMark, LinesLeft, TypeOK
<1>6. SnapshotNamed'
  BY <1>0 DEF EstopMark, SnapshotNamed
<1>7. QED
  BY <1>1, <1>2, <1>3, <1>4, <1>5, <1>6 DEF TypeInv

LEMMA WorkerBeginType == ASSUME TypeInv, NEW w \in JobIds, WorkerBegin(w) PROVE TypeInv'
<1>0. TypeOK /\ WaitersHoldLock /\ HostsNamed /\ LinesLeft /\ SnapshotNamed
  BY DEF TypeInv
<1>a. worker[w].host \in HostIds
  BY <1>0 DEF WorkerBegin, HostsNamed, Alive, RunningAt
<1>1. hosts' \in [HostIds -> HostType]
  <2>1. CASE hosts' = [hosts EXCEPT ![worker[w].host].stop = FALSE]
    BY <1>0, <1>a, <2>1, HostUpdate DEF TypeOK
  <2>2. CASE UNCHANGED hosts
    BY <1>0, <2>2 DEF TypeOK
  <2>3. QED
    BY <2>1, <2>2 DEF WorkerBegin, ForgetStop
<1>2. worker' \in [JobIds -> WorkerType]
  BY <1>0, WorkerMove DEF WorkerBegin, RunningAt
<1>3. TypeOK'
  BY <1>0, <1>1, <1>2 DEF WorkerBegin, TypeOK
<1>4. WaitersHoldLock'
  BY <1>0 DEF WorkerBegin, WaitersHoldLock, TypeOK
<1>5. HostsNamed'
  BY <1>0, <1>a DEF WorkerBegin, HostsNamed, TypeOK, Alive, MoveTo, WorkerType, RunningAt
<1>6. LinesLeft'
  BY <1>0 DEF WorkerBegin, LinesLeft, TypeOK, MoveTo, WorkerType
<1>7. SnapshotNamed'
  BY <1>0 DEF WorkerBegin, SnapshotNamed
<1>8. QED
  BY <1>1, <1>2, <1>3, <1>4, <1>5, <1>6, <1>7 DEF TypeInv

LEMMA WorkerEndType == ASSUME TypeInv, NEW w \in JobIds, WorkerEnd(w) PROVE TypeInv'
<1>0. TypeOK /\ WaitersHoldLock /\ HostsNamed /\ LinesLeft /\ SnapshotNamed
  BY DEF TypeInv
<1>a. worker[w].host \in HostIds
  BY <1>0 DEF WorkerEnd, HostsNamed, Alive, RunningAt
<1>1. hosts' \in [HostIds -> HostType]
  <2>1. CASE hosts' = [hosts EXCEPT ![worker[w].host].stop = FALSE]
    BY <1>0, <1>a, <2>1, HostUpdate DEF TypeOK
  <2>2. CASE UNCHANGED hosts
    BY <1>0, <2>2 DEF TypeOK
  <2>3. QED
    BY <2>1, <2>2 DEF WorkerEnd, ForgetStop
<1>2. worker' \in [JobIds -> WorkerType]
  BY <1>0, WorkerMove DEF WorkerEnd, RunningAt
<1>3. TypeOK'
  BY <1>0, <1>1, <1>2 DEF WorkerEnd, TypeOK
<1>4. WaitersHoldLock'
  BY <1>0 DEF WorkerEnd, WaitersHoldLock, TypeOK
<1>5. HostsNamed'
  BY <1>0, <1>a DEF WorkerEnd, HostsNamed, TypeOK, Alive, MoveTo, WorkerType, RunningAt
<1>6. LinesLeft'
  BY <1>0 DEF WorkerEnd, LinesLeft, TypeOK, MoveTo, WorkerType
<1>7. SnapshotNamed'
  BY <1>0 DEF WorkerEnd, SnapshotNamed
<1>8. QED
  BY <1>1, <1>2, <1>3, <1>4, <1>5, <1>6, <1>7 DEF TypeInv

LEMMA WorkerSendType == ASSUME TypeInv, NEW w \in JobIds, WorkerSend(w) PROVE TypeInv'
<1>0. TypeOK /\ WaitersHoldLock /\ HostsNamed /\ LinesLeft /\ SnapshotNamed
  BY DEF TypeInv
<1>1. worker' \in [JobIds -> WorkerType]
  BY <1>0, WorkerMove DEF WorkerSend, RunningAt
<1>2. TypeOK'
  BY <1>0, <1>1 DEF WorkerSend, TypeOK
<1>3. WaitersHoldLock'
  BY <1>0 DEF WorkerSend, WaitersHoldLock, TypeOK
<1>4. HostsNamed'
  BY <1>0 DEF WorkerSend, HostsNamed, TypeOK, Alive, MoveTo, WorkerType, RunningAt
<1>5. LinesLeft'
  BY <1>0 DEF WorkerSend, LinesLeft, TypeOK, MoveTo, WorkerType
<1>6. SnapshotNamed'
  BY <1>0 DEF WorkerSend, SnapshotNamed
<1>7. QED
  BY <1>1, <1>2, <1>3, <1>4, <1>5, <1>6 DEF TypeInv

LEMMA WorkerAckType == ASSUME TypeInv, NEW w \in JobIds, WorkerAck(w) PROVE TypeInv'
<1>0. TypeOK /\ WaitersHoldLock /\ HostsNamed /\ LinesLeft /\ SnapshotNamed
  BY DEF TypeInv
<1>a. worker[w].sent + 1 \in 0..MaxLines
  <2>1. worker[w].sent \in 0..MaxLines /\ jobs[w].total \in 0..MaxLines
    BY <1>0 DEF TypeOK, JobType, WorkerType
  <2>2. worker[w].sent < jobs[w].total
    BY <1>0 DEF WorkerAck, LinesLeft
  <2> QED BY <2>1, <2>2, MachineAssumption
<1>1. worker' \in [JobIds -> WorkerType]
  BY <1>0, <1>a DEF WorkerAck, RunningAt, TypeOK, WorkerType
<1>2. TypeOK'
  BY <1>0, <1>1 DEF WorkerAck, TypeOK
<1>3. WaitersHoldLock'
  BY <1>0 DEF WorkerAck, WaitersHoldLock, TypeOK
<1>4. HostsNamed'
  BY <1>0 DEF WorkerAck, HostsNamed, TypeOK, Alive, WorkerType, RunningAt
<1>5. LinesLeft'
  BY <1>0 DEF WorkerAck, LinesLeft, TypeOK, WorkerType
<1>6. SnapshotNamed'
  BY <1>0 DEF WorkerAck, SnapshotNamed
<1>7. QED
  BY <1>1, <1>2, <1>3, <1>4, <1>5, <1>6 DEF TypeInv

LEMMA WorkerRaiseType == ASSUME TypeInv, NEW w \in JobIds, WorkerRaise(w) PROVE TypeInv'
<1>0. TypeOK /\ WaitersHoldLock /\ HostsNamed /\ LinesLeft /\ SnapshotNamed
  BY DEF TypeInv
<1>a. worker[w].host \in HostIds
  BY <1>0 DEF WorkerRaise, HostsNamed, Alive, RunningAt
<1>1. hosts' \in [HostIds -> HostType]
  <2>1. PICK open \in {StreamHost(w).open, FALSE} :
          hosts' = [hosts EXCEPT ![worker[w].host].open = open]
    BY DEF WorkerRaise
  <2>2. open \in BOOLEAN
    BY <1>0, <1>a DEF StreamHost, TypeOK, HostType
  <2>3. QED
    BY <1>0, <1>a, <2>1, <2>2, HostUpdate DEF TypeOK
<1>2. worker' \in [JobIds -> WorkerType]
  <2>1. CASE MoveTo(w, "raised")
    BY <1>0, <2>1, WorkerMove DEF RunningAt
  <2>2. CASE MoveTo(w, "died")
    BY <1>0, <2>2, WorkerMove
  <2>3. QED
    BY <2>1, <2>2 DEF WorkerRaise
<1>b. PICK a \in {"raised", "died"} : worker' = [worker EXCEPT ![w].at = a]
  BY DEF WorkerRaise, MoveTo
<1>c. \A v \in JobIds : worker'[v].host = worker[v].host /\ worker'[v].sent = worker[v].sent
  BY <1>0, <1>b DEF TypeOK, WorkerType
<1>d. \A v \in JobIds : worker'[v].at = worker[v].at \/ (v = w /\ worker'[v].at = a)
  BY <1>0, <1>b DEF TypeOK, WorkerType
<1>e. Alive(w)
  BY DEF WorkerRaise, Alive, RunningAt
<1>3. TypeOK'
  BY <1>0, <1>1, <1>2 DEF WorkerRaise, TypeOK
<1>4. WaitersHoldLock'
  BY <1>0 DEF WorkerRaise, WaitersHoldLock, TypeOK
<1>5. HostsNamed'
  <2>1. UNCHANGED <<client, job, up>>
    BY DEF WorkerRaise
  <2>2. \A v \in JobIds : Alive(v)' => Alive(v)
    BY <1>d, <1>e DEF Alive
  <2>3. QED
    BY <1>0, <1>c, <2>1, <2>2 DEF HostsNamed
<1>6. LinesLeft'
  BY <1>0, <1>c, <1>d DEF WorkerRaise, LinesLeft
<1>7. SnapshotNamed'
  BY <1>0 DEF WorkerRaise, SnapshotNamed
<1>8. QED
  BY <1>1, <1>2, <1>3, <1>4, <1>5, <1>6, <1>7 DEF TypeInv

LEMMA OnProgressType == ASSUME TypeInv, NEW w \in JobIds, OnProgress(w) PROVE TypeInv'
<1>0. TypeOK /\ WaitersHoldLock /\ HostsNamed /\ LinesLeft /\ SnapshotNamed
  BY DEF TypeInv
<1>a. job \in JobIds /\ worker[w].sent \in 0..MaxLines
  BY <1>0, MachineAssumption
     DEF OnProgress, HostsNamed, Alive, RunningAt, TypeOK, WorkerType
<1>1. jobs' \in [JobIds -> JobType]
  <2>1. jobs' = [jobs EXCEPT ![job].sent = worker[w].sent,
                              ![job].events = Append(@, "progress")]
    BY DEF OnProgress
  <2>2. QED
    BY <1>0, <1>a, <2>1, JobProgress DEF TypeOK, EventTypes
<1>2. worker' \in [JobIds -> WorkerType]
  <2>1. MoveTo(w, "between")
    BY DEF OnProgress
  <2>2. QED
    BY <1>0, <2>1, WorkerMove DEF RunningAt
<1>3. snap' \in SnapshotType /\ fresh' \in BOOLEAN /\ SnapshotNamed'
  <2>1. CASE Persist(job, jobs') /\ fresh' = TRUE
    BY <1>0, <1>a, <1>1, <2>1, PersistType
  <2>2. CASE UNCHANGED disk
    BY <1>0, <2>2 DEF TypeOK, SnapshotNamed
  <2>3. QED
    BY <2>1, <2>2 DEF OnProgress
<1>4. TypeOK'
  BY <1>0, <1>1, <1>2, <1>3 DEF OnProgress, TypeOK
<1>5. WaitersHoldLock'
  BY <1>0 DEF OnProgress, WaitersHoldLock, TypeOK
<1>6. HostsNamed'
  BY <1>0 DEF OnProgress, HostsNamed, TypeOK, Alive, MoveTo, WorkerType, RunningAt
<1>7. LinesLeft'
  BY <1>0, <1>a DEF OnProgress, LinesLeft, TypeOK, MoveTo, WorkerType, JobType
<1>8. QED
  BY <1>1, <1>2, <1>3, <1>4, <1>5, <1>6, <1>7 DEF TypeInv

LEMMA BoardActionType == ASSUME TypeInv, BoardAction PROVE TypeInv'
<1>0. TypeOK /\ WaitersHoldLock /\ HostsNamed /\ LinesLeft /\ SnapshotNamed
  BY DEF TypeInv
<1>a. job \in JobIds
  BY <1>0, MachineAssumption DEF BoardAction, TypeOK
<1>1. jobs' \in [JobIds -> JobType]
  <2>1. jobs' = [jobs EXCEPT ![job].events = Append(@, "action")]
    BY DEF BoardAction
  <2>2. QED
    BY <1>0, <1>a, <2>1, JobNote DEF TypeOK, EventTypes
<1>2. TypeOK'
  BY <1>0, <1>1 DEF BoardAction, TypeOK
<1>3. WaitersHoldLock'
  BY <1>0 DEF BoardAction, WaitersHoldLock, TypeOK
<1>4. HostsNamed'
  BY <1>0 DEF BoardAction, HostsNamed, TypeOK, Alive
<1>5. LinesLeft'
  BY <1>0, <1>a DEF BoardAction, LinesLeft, TypeOK, JobType
<1>6. SnapshotNamed'
  BY <1>0 DEF BoardAction, SnapshotNamed
<1>7. QED
  BY <1>1, <1>2, <1>3, <1>4, <1>5, <1>6 DEF TypeInv

LEMMA CrashType == ASSUME TypeInv, Crash PROVE TypeInv'
<1>0. TypeOK /\ WaitersHoldLock /\ HostsNamed /\ LinesLeft /\ SnapshotNamed
  BY DEF TypeInv
<1>1. hosts' \in [HostIds -> HostType]
  BY BlankTypes DEF Crash, NoHosts
<1>2. jobs' \in [JobIds -> JobType]
  BY BlankTypes DEF Crash, NoJobs
<1>3. worker' \in [JobIds -> WorkerType]
  BY BlankTypes DEF Crash, NoWorkers
<1>4. client' \in [Clients -> ClientType]
  BY BlankTypes DEF Crash, AllIdle
<1>5. snap' \in SnapshotType /\ fresh' \in BOOLEAN /\ SnapshotNamed'
  BY <1>0 DEF Crash, TypeOK, SnapshotNamed
<1>6. TypeOK'
  <2>1. crashes' \in 0..MaxCrashes
    BY <1>0, MachineAssumption DEF Crash, TypeOK
  <2>2. /\ up' \in BOOLEAN /\ lock' \in Clients \cup {Nobody}
        /\ state' \in {"disconnected", "connected", "streaming", "paused", "error"}
    BY DEF Crash
  <2>3. /\ host' \in 0..MaxHosts /\ conns' \in 0..MaxHosts
        /\ job' \in 0..MaxJobs /\ counter' \in 0..MaxJobs /\ thread' \in 0..MaxJobs
    BY MachineAssumption DEF Crash
  <2>4. QED
    BY <1>1, <1>2, <1>3, <1>4, <1>5, <2>1, <2>2, <2>3 DEF TypeOK
<1>7. WaitersHoldLock'
  BY <1>0 DEF Crash, WaitersHoldLock, TypeOK, AllIdle, Idle
<1>8. HostsNamed'
  BY <1>0 DEF Crash, HostsNamed, TypeOK, Alive, AllIdle, Idle, NoWorkers, NoWorker, RunningAt
<1>9. LinesLeft'
  BY <1>0 DEF Crash, LinesLeft, TypeOK, NoWorkers, NoWorker
<1>10. QED
  BY <1>1, <1>2, <1>3, <1>4, <1>5, <1>6, <1>7, <1>8, <1>9 DEF TypeInv

LEMMA SettleErrorType == ASSUME TypeInv, NEW w \in JobIds, SettleError(w) PROVE TypeInv'
<1>0. TypeOK /\ WaitersHoldLock /\ HostsNamed /\ LinesLeft /\ SnapshotNamed
  BY DEF TypeInv
<1>1. jobs' \in [JobIds -> JobType]
  <2>1. jobs' = [jobs EXCEPT ![w].state = "error", ![w].events = Append(@, "error")]
    BY DEF SettleError
  <2>2. QED
    BY <1>0, <2>1, JobSettle DEF TypeOK, JobStates, EventTypes
<1>2. worker' \in [JobIds -> WorkerType]
  BY <1>0, WorkerMove DEF SettleError, RunningAt
<1>3. snap' \in SnapshotType /\ fresh' \in BOOLEAN /\ SnapshotNamed'
  BY <1>0, ClearType DEF SettleError
<1>4. TypeOK'
  BY <1>0, <1>1, <1>2, <1>3 DEF SettleError, TypeOK
<1>5. WaitersHoldLock'
  BY <1>0 DEF SettleError, WaitersHoldLock, TypeOK
<1>6. HostsNamed'
  BY <1>0 DEF SettleError, HostsNamed, TypeOK, Alive, MoveTo, WorkerType, RunningAt
<1>7. LinesLeft'
  BY <1>0 DEF SettleError, LinesLeft, TypeOK, MoveTo, WorkerType, JobType
<1>8. QED
  BY <1>1, <1>2, <1>3, <1>4, <1>5, <1>6, <1>7 DEF TypeInv

LEMMA SettleEndType == ASSUME TypeInv, NEW w \in JobIds, SettleEnd(w) PROVE TypeInv'
<1>0. TypeOK /\ WaitersHoldLock /\ HostsNamed /\ LinesLeft /\ SnapshotNamed
  BY DEF TypeInv
<1>1. jobs' \in [JobIds -> JobType]
  <2>1. CASE UNCHANGED jobs
    BY <1>0, <2>1 DEF TypeOK
  <2>2. CASE jobs' = [jobs EXCEPT ![w].state = "completed",
                                  ![w].events = Append(@, "complete")]
    BY <1>0, <2>2, JobSettle DEF TypeOK, JobStates, EventTypes
  <2>3. QED
    BY <2>1, <2>2 DEF SettleEnd
<1>2. worker' \in [JobIds -> WorkerType]
  <2>1. MoveTo(w, "done")
    BY DEF SettleEnd
  <2>2. QED
    BY <1>0, <2>1, WorkerMove
<1>3. snap' \in SnapshotType /\ fresh' \in BOOLEAN /\ SnapshotNamed'
  BY <1>0, ClearType DEF SettleEnd
<1>4. TypeOK'
  BY <1>0, <1>1, <1>2, <1>3 DEF SettleEnd, TypeOK
<1>5. WaitersHoldLock'
  BY <1>0 DEF SettleEnd, WaitersHoldLock, TypeOK
<1>6. HostsNamed'
  BY <1>0 DEF SettleEnd, HostsNamed, TypeOK, Alive, MoveTo, WorkerType, RunningAt
<1>7. LinesLeft'
  BY <1>0 DEF SettleEnd, LinesLeft, TypeOK, MoveTo, WorkerType, JobType
<1>8. QED
  BY <1>1, <1>2, <1>3, <1>4, <1>5, <1>6, <1>7 DEF TypeInv

LEMMA RestartType == ASSUME TypeInv, Restart PROVE TypeInv'
<1>0. TypeOK /\ WaitersHoldLock /\ HostsNamed /\ LinesLeft /\ SnapshotNamed
  BY DEF TypeInv
<1>1. jobs' \in [JobIds -> JobType] /\ job' \in 0..MaxJobs /\ counter' \in 0..MaxJobs
      /\ (job # 0 => job' # 0)
  <2>1. CASE /\ snap.state \in ActiveJobStates
             /\ job' = snap.id /\ counter' = snap.id
             /\ jobs' = [jobs EXCEPT ![snap.id] = Tombstone]
    <3>1. snap.id \in JobIds /\ snap.id \in 0..MaxJobs
      BY <1>0, <2>1, MachineAssumption DEF SnapshotNamed
    <3>2. <<"error">> \in Seq(EventTypes)
      BY DEF EventTypes
    <3>3. Tombstone \in JobType
      BY <1>0, <3>2 DEF Tombstone, JobType, JobStates, TypeOK, SnapshotType
    <3>4. QED
      BY <1>0, <2>1, <3>1, <3>3 DEF TypeOK
  <2>2. CASE UNCHANGED jobvars
    BY <1>0, <2>2 DEF TypeOK
  <2>3. QED
    BY <2>1, <2>2 DEF Restart
<1>2. snap' \in SnapshotType /\ fresh' \in BOOLEAN /\ SnapshotNamed'
  <2>1. CASE ClearPersisted
    BY <1>0, <2>1, ClearType
  <2>2. CASE UNCHANGED disk
    BY <1>0, <2>2 DEF TypeOK, SnapshotNamed
  <2>3. QED
    BY <2>1, <2>2 DEF Restart
<1>3. TypeOK'
  BY <1>0, <1>1, <1>2 DEF Restart, TypeOK
<1>4. WaitersHoldLock'
  BY <1>0 DEF Restart, WaitersHoldLock
<1>5. HostsNamed'
  BY <1>0, <1>1 DEF Restart, HostsNamed, Alive
<1>6. LinesLeft'
  BY <1>0 DEF Restart, LinesLeft, HostsNamed, Alive, RunningAt
<1>7. QED
  BY <1>2, <1>3, <1>4, <1>5, <1>6 DEF TypeInv

LEMMA InitTypeInv == Init => TypeInv
<1> SUFFICES ASSUME Init PROVE TypeInv
  OBVIOUS
<1>1. /\ hosts \in [HostIds -> HostType] /\ jobs \in [JobIds -> JobType]
      /\ worker \in [JobIds -> WorkerType] /\ client \in [Clients -> ClientType]
  BY BlankTypes DEF Init, NoHosts, NoJobs, NoWorkers, AllIdle
<1>2. TypeOK
  <2>1. /\ up \in BOOLEAN /\ crashes \in 0..MaxCrashes
        /\ lock \in Clients \cup {Nobody}
        /\ host \in 0..MaxHosts /\ conns \in 0..MaxHosts
        /\ job \in 0..MaxJobs /\ counter \in 0..MaxJobs /\ thread \in 0..MaxJobs
    BY MachineAssumption DEF Init
  <2>2. snap \in SnapshotType /\ fresh \in BOOLEAN
    BY BlankTypes DEF Init
  <2>3. state \in {"disconnected", "connected", "streaming", "paused", "error"}
    BY DEF Init
  <2>4. QED
    BY <1>1, <2>1, <2>2, <2>3 DEF TypeOK
<1>3. WaitersHoldLock /\ HostsNamed /\ LinesLeft
  BY DEF Init, WaitersHoldLock, HostsNamed, LinesLeft, Alive, RunningAt,
         AllIdle, Idle, NoWorkers, NoWorker
<1>4. SnapshotNamed
  BY DEF Init, SnapshotNamed, NoSnapshot, ActiveJobStates
<1>5. QED
  BY <1>2, <1>3, <1>4 DEF TypeInv

LEMMA NextTypeInv == TypeInv /\ [Next]_vars => TypeInv'
<1> SUFFICES ASSUME TypeInv, [Next]_vars PROVE TypeInv'
  OBVIOUS
<1>1. ASSUME NEW c \in Clients, ClientStep(c) PROVE TypeInv'
  BY <1>1, ConnectBeginType, ConnectOkType, ConnectFailType,
     DisconnectReadType, DisconnectCancelType, DisconnectJoinedType,
     JoinTimeoutType, DisconnectCloseType, QueryBeginType, QueryEndType,
     StartJobType, PauseJobType, ResumeJobType, CancelJobType,
     EstopReadType, EstopWriteType, EstopMarkType, MachineAssumption
     DEF ClientStep
<1>2. ASSUME NEW w \in JobIds, WorkerStep(w) PROVE TypeInv'
  BY <1>2, WorkerBeginType, WorkerSendType, WorkerAckType, WorkerEndType,
     WorkerRaiseType, OnProgressType, SettleErrorType, SettleEndType DEF
     WorkerStep
<1>3. CASE Crash \/ Restart \/ BoardAction
  BY <1>3, CrashType, RestartType, BoardActionType
<1>4. CASE UNCHANGED vars
  BY <1>4 DEF vars, TypeInv, TypeOK, WaitersHoldLock, HostsNamed, LinesLeft,
     SnapshotNamed, Alive
<1>5. QED
  BY <1>1, <1>2, <1>3, <1>4 DEF Next

\* Every variable stays in its range: the lock has at most one owner, a job
\* never counts more lines than its longest program, a snapshot is well formed.
THEOREM TypeCorrect == Spec => []TypeOK
<1>1. TypeInv => TypeOK
  BY DEF TypeInv
<1>2. QED
  BY InitTypeInv, NextTypeInv, <1>1, PTL DEF Spec

=============================================================================
