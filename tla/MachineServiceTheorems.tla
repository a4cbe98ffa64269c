----------------------- MODULE MachineServiceTheorems -----------------------
(***************************************************************************)
(* Who drives a job: the safety theorems about jobs, workers and manual    *)
(* commands, the proof that MachineService implements JobService, and what *)
(* the snapshot on disk stands for.                                        *)
(***************************************************************************)
EXTENDS MachineServiceProofs, FiniteSetTheorems

USE DEF JobIds, HostIds, proc, conn, jobvars, threads, disk

-----------------------------------------------------------------------------
(* What the theorems see of the state: the status and the log of each job,   *)
(* and which workers have not settled.                                                  *)

\* A worker that died of an uncaught exception never settles either.
Live == {w \in JobIds : Alive(w) \/ Died(w)}

view == <<job, counter, Status, Log, Live>>

\* Job numbers are issued in order, the current job is the last issued, and a
\* job and its worker agree about whether the job still runs.
Unissued ==
  \A j \in JobIds : j > counter => Status[j] = "none" /\ Log[j] = <<>> /\ j \notin Live
LiveJobs ==
  \A w \in Live : Status[w] \in ActiveJobStates \cup {"cancelled"}
RunningJobs ==
  \A j \in JobIds : Status[j] \in ActiveJobStates => j = job /\ j \in Live
StaleWorkers ==
  \A w \in Live : w # job => Status[w] = "cancelled"

OwnerInv ==
  /\ job = counter /\ job \in 0..MaxJobs
  /\ ~up => counter = 0 /\ Live = {}
  /\ Unissued /\ LiveJobs /\ RunningJobs /\ StaleWorkers

-----------------------------------------------------------------------------
(* The steps, as they appear in that view *)

\* Nothing that the view shows changes.
ViewSame == up' = up /\ UNCHANGED view

\* An event that is no outcome is recorded in the current job.
ViewNote ==
  /\ up' = up /\ job # 0
  /\ \E e \in {"progress", "action"} : Log' = [Log EXCEPT ![job] = Append(@, e)]
  /\ UNCHANGED <<job, counter, Status, Live>>

\* A request moves the current job along an edge.
ViewEdge(from, to) ==
  /\ up' = up /\ job # 0
  /\ Status[job] = from /\ Status' = [Status EXCEPT ![job] = to]
  /\ UNCHANGED <<job, counter, Log, Live>>

\* A worker settles its job, or leaves a job alone that was cancelled.
ViewSettle(w, s, e) ==
  /\ up' = up /\ w \in Live
  /\ Live' = Live \ {w}
  /\ Status' = [Status EXCEPT ![w] = s] /\ Log' = [Log EXCEPT ![w] = Append(@, e)]
  /\ UNCHANGED <<job, counter>>

ViewLeave(w) ==
  /\ up' = up /\ w \in Live /\ Status[w] \notin ActiveJobStates
  /\ Live' = Live \ {w}
  /\ UNCHANGED <<job, counter, Status, Log>>

ViewStart ==
  /\ Locked /\ up' = up
  /\ counter + 1 \in JobIds /\ ~(job # 0 /\ Status[job] \in ActiveJobStates)
  /\ counter' = counter + 1 /\ job' = counter + 1
  /\ Status' = [Status EXCEPT ![counter + 1] = "streaming"]
  /\ Log' = [Log EXCEPT ![counter + 1] = <<>>]
  /\ Live' = Live \cup {counter + 1}

ViewCrash ==
  /\ job' = 0 /\ counter' = 0 /\ Live' = {}
  /\ Status' = [j \in JobIds |-> "none"] /\ Log' = [j \in JobIds |-> <<>>]

ViewRecover(j) ==
  /\ ~up /\ up'
  /\ job' = j /\ counter' = j
  /\ Status' = [Status EXCEPT ![j] = "orphaned"]
  /\ Log' = [Log EXCEPT ![j] = <<"error">>]
  /\ UNCHANGED Live

ViewRestart == ~up /\ up' /\ UNCHANGED view

ViewGoesOn ==
  \/ ViewSame \/ ViewNote
  \/ ViewEdge("streaming", "paused")
  \/ Locked /\ ViewEdge("paused", "streaming")
  \/ \E s \in ActiveJobStates : ViewEdge(s, "cancelled")
  \/ \E w \in JobIds : \/ ViewSettle(w, "error", "error")
                       \/ /\ Status[w] \notin {"cancelled", "error"}
                          /\ ViewSettle(w, "completed", "complete")
                       \/ ViewLeave(w)
  \/ ViewStart
  \/ \E j \in JobIds : ViewRecover(j)
  \/ ViewRestart

ViewStep == ViewGoesOn \/ ViewCrash

-----------------------------------------------------------------------------
(* How the updates of the tables look in the view *)

LEMMA ViewTypes ==
  ASSUME TypeOK
  PROVE  /\ Status \in [JobIds -> JobStates \cup {"none"}]
         /\ Log \in [JobIds -> Seq(EventTypes)]
         /\ Live \subseteq JobIds
  BY DEF TypeOK, JobType, Status, Log, Live

LEMMA SetStateView ==
  ASSUME TypeOK, NEW j \in JobIds, NEW s, jobs' = [jobs EXCEPT ![j].state = s]
  PROVE  Status' = [Status EXCEPT ![j] = s] /\ Log' = Log
  BY DEF TypeOK, JobType, Status, Log

LEMMA SettleView ==
  ASSUME TypeOK, NEW j \in JobIds, NEW s, NEW e,
         jobs' = [jobs EXCEPT ![j].state = s, ![j].events = Append(@, e)]
  PROVE  Status' = [Status EXCEPT ![j] = s] /\ Log' = [Log EXCEPT ![j] = Append(@, e)]
  BY DEF TypeOK, JobType, Status, Log

LEMMA NoteView ==
  ASSUME TypeOK, NEW j \in JobIds, NEW e,
         jobs' = [jobs EXCEPT ![j].events = Append(@, e)]
  PROVE  Status' = Status /\ Log' = [Log EXCEPT ![j] = Append(@, e)]
  BY DEF TypeOK, JobType, Status, Log

LEMMA ProgressView ==
  ASSUME TypeOK, NEW j \in JobIds, NEW n, NEW e,
         jobs' = [jobs EXCEPT ![j].sent = n, ![j].events = Append(@, e)]
  PROVE  Status' = Status /\ Log' = [Log EXCEPT ![j] = Append(@, e)]
  BY DEF TypeOK, JobType, Status, Log

LEMMA NewJobView ==
  ASSUME TypeOK, NEW j \in JobIds, NEW r, jobs' = [jobs EXCEPT ![j] = r]
  PROVE  /\ Status' = [Status EXCEPT ![j] = r.state]
         /\ Log' = [Log EXCEPT ![j] = r.events]
  BY DEF TypeOK, Status, Log

LEMMA SameJobsView == ASSUME jobs' = jobs PROVE Status' = Status /\ Log' = Log
  BY DEF Status, Log

LEMMA SameWorkersView == ASSUME worker' = worker PROVE Live' = Live
  BY DEF Live, Died, Alive

\* A worker that moves on without settling stays alive; one that is done does not.
LEMMA MoveView ==
  ASSUME TypeOK, NEW w \in Live, NEW a \in RunningAt \cup {"died"}, MoveTo(w, a)
  PROVE  Live' = Live
  BY DEF TypeOK, WorkerType, MoveTo, Live, Died, Alive

LEMMA DoneView ==
  ASSUME TypeOK, NEW w \in JobIds, MoveTo(w, "done")
  PROVE  Live' = Live \ {w}
  BY DEF TypeOK, WorkerType, MoveTo, Live, Died, Alive, RunningAt

-----------------------------------------------------------------------------
(* Every step of the view keeps the invariant *)

LEMMA InitOwner == Init => OwnerInv
<1>1. ASSUME Init PROVE Live = {}
  BY <1>1 DEF Init, NoWorkers, NoWorker, Live, Died, Alive, RunningAt
<1>2. ASSUME Init PROVE Status = [j \in JobIds |-> "none"]
  BY <1>2 DEF Init, NoJobs, NoJob, Status
<1>3. ASSUME Init PROVE Log = [j \in JobIds |-> <<>>]
  BY <1>3 DEF Init, NoJobs, NoJob, Log
<1>4. ASSUME Init PROVE job = 0 /\ counter = 0 /\ up
  BY <1>4 DEF Init
<1>5. QED
  BY <1>1, <1>2, <1>3, <1>4, MachineAssumption
     DEF OwnerInv, Unissued, LiveJobs, RunningJobs, StaleWorkers, ActiveJobStates

LEMMA ViewStepOwner ==
  ASSUME TypeOK, TypeOK', OwnerInv, ViewStep PROVE OwnerInv'
<1> USE DEF OwnerInv, Unissued, LiveJobs, RunningJobs, StaleWorkers,
            ActiveJobStates
<1>0. /\ Status \in [JobIds -> JobStates \cup {"none"}]
      /\ Log \in [JobIds -> Seq(EventTypes)]
      /\ Live \subseteq JobIds
      /\ MaxJobs \in Nat
  BY ViewTypes, MachineAssumption
<1>1. CASE ViewSame
  BY <1>1 DEF ViewSame, view
<1>2. CASE ViewNote
  <2>1. up' = up /\ UNCHANGED <<job, counter, Status, Live>>
    BY <1>2 DEF ViewNote
  <2>2. job \in JobIds /\ ~(job > counter)
    BY <1>0, <1>2 DEF ViewNote
  <2>3. \A j \in JobIds : j > counter => Log'[j] = Log[j]
    BY <1>0, <1>2, <2>2 DEF ViewNote
  <2> QED BY <2>1, <2>3
<1>3. ASSUME NEW s \in ActiveJobStates, NEW t \in ActiveJobStates \cup {"cancelled"},
             ViewEdge(s, t)
      PROVE  OwnerInv'
  BY <1>0, <1>3 DEF ViewEdge
<1>4. ASSUME NEW w \in JobIds, ViewSettle(w, "error", "error") PROVE OwnerInv'
  BY <1>0, <1>4 DEF ViewSettle
<1>5. ASSUME NEW w \in JobIds, ViewSettle(w, "completed", "complete")
      PROVE  OwnerInv'
  BY <1>0, <1>5 DEF ViewSettle
<1>6. ASSUME NEW w \in JobIds, ViewLeave(w) PROVE OwnerInv'
  BY <1>0, <1>6 DEF ViewLeave
<1>7. CASE ViewStart
  <2> DEFINE k == counter + 1
  <2>1. /\ up' /\ k \in JobIds /\ k > counter
        /\ counter' = k /\ job' = k /\ k # job
    BY <1>0, <1>7 DEF ViewStart, Locked
  <2>2. \A j \in JobIds : Status[j] \notin ActiveJobStates
    BY <1>7 DEF ViewStart
  <2>3. /\ Status' = [Status EXCEPT ![k] = "streaming"]
        /\ Log' = [Log EXCEPT ![k] = <<>>]
        /\ Live' = Live \cup {k}
    BY <1>7 DEF ViewStart
  <2>4. job' = counter' /\ job' \in 0..MaxJobs /\ \A j \in JobIds : j > k => j > counter
    BY <1>0, <2>1
  <2>5. \A j \in JobIds : j # k => Status'[j] = Status[j] /\ Log'[j] = Log[j]
    BY <2>3
  <2>6. \A j \in JobIds : j > k => j # k
    OBVIOUS
  <2>7. Unissued'
    BY <2>1, <2>3, <2>4, <2>5, <2>6
  <2>8. Status'[k] = "streaming"
    BY <1>0, <2>1, <2>3
  <2>9. LiveJobs' /\ RunningJobs' /\ StaleWorkers'
    BY <1>0, <2>1, <2>2, <2>3, <2>5, <2>8
  <2>10. QED
    BY <2>1, <2>4, <2>7, <2>9
<1>8. CASE ViewCrash
  BY <1>0, <1>8 DEF ViewCrash
<1>9. ASSUME NEW j \in JobIds, ViewRecover(j) PROVE OwnerInv'
  BY <1>0, <1>9 DEF ViewRecover
<1>10. CASE ViewRestart
  BY <1>10 DEF ViewRestart, view
<1>11. QED
  BY <1>1, <1>2, <1>3, <1>4, <1>5, <1>6, <1>7, <1>8, <1>9, <1>10 DEF ViewStep, ViewGoesOn

-----------------------------------------------------------------------------
(* Every action is a step of the view *)

LEMMA UntouchedView ==
  ASSUME UNCHANGED <<up, jobvars, worker>> PROVE ViewSame
  BY SameJobsView, SameWorkersView DEF ViewSame, view

LEMMA CrashView == ASSUME Crash PROVE ViewCrash
<1>1. worker' = NoWorkers /\ jobs' = NoJobs /\ job' = 0 /\ counter' = 0
  BY DEF Crash
<1>2. Live' = {}
  BY <1>1 DEF NoWorkers, NoWorker, Live, Died, Alive, RunningAt
<1>3. Status' = [j \in JobIds |-> "none"] /\ Log' = [j \in JobIds |-> <<>>]
  BY <1>1 DEF NoJobs, NoJob, Status, Log
<1>4. QED
  BY <1>1, <1>2, <1>3 DEF ViewCrash

LEMMA RestartView == ASSUME TypeInv, Restart PROVE ViewGoesOn
<1>1. ~up /\ up' /\ worker' = worker
  BY DEF Restart
<1>2. Live' = Live
  BY <1>1, SameWorkersView
<1>3. CASE jobs' = jobs /\ job' = job /\ counter' = counter
  BY <1>1, <1>2, <1>3, SameJobsView DEF ViewGoesOn, ViewRestart, view
<1>4. CASE /\ snap.state \in ActiveJobStates
           /\ job' = snap.id /\ counter' = snap.id
           /\ jobs' = [jobs EXCEPT ![snap.id] = Tombstone]
  <2>1. snap.id \in JobIds
    BY <1>4 DEF TypeInv, SnapshotNamed
  <2>2. Tombstone.state = "orphaned" /\ Tombstone.events = <<"error">>
    BY DEF Tombstone
  <2>3. /\ Status' = [Status EXCEPT ![snap.id] = Tombstone.state]
        /\ Log' = [Log EXCEPT ![snap.id] = Tombstone.events]
    BY <1>4, <2>1, NewJobView DEF TypeInv
  <2>4. ViewRecover(snap.id)
    BY <1>1, <1>2, <1>4, <2>2, <2>3 DEF ViewRecover
  <2>5. QED
    BY <2>1, <2>4 DEF ViewGoesOn
<1>5. QED
  BY <1>3, <1>4 DEF Restart

LEMMA SetJobView ==
  ASSUME TypeOK, up' = up, worker' = worker, job' = job, counter' = counter,
         job # 0, NEW s, jobs' = [jobs EXCEPT ![job].state = s]
  PROVE  IF s = Status[job] THEN ViewSame ELSE ViewEdge(Status[job], s)
<1>1. job \in JobIds
  BY DEF TypeOK
<1>2. Status' = [Status EXCEPT ![job] = s] /\ Log' = Log /\ Live' = Live
  BY <1>1, SetStateView, SameWorkersView
<1>3. s = Status[job] => Status' = Status
  BY <1>1, <1>2, ViewTypes
<1>4. QED
  BY <1>2, <1>3 DEF ViewSame, ViewEdge, view

LEMMA DisconnectCancelView ==
  ASSUME TypeOK, NEW c \in Clients, DisconnectCancel(c) PROVE ViewGoesOn
<1>1. UNCHANGED <<up, job, counter, worker>>
  BY DEF DisconnectCancel
<1>2. CASE UNCHANGED jobs
  BY <1>1, <1>2, UntouchedView DEF ViewGoesOn
<1>3. CASE CurrentActive /\ jobs' = [jobs EXCEPT ![job].state = "cancelled"]
  <2>1. job # 0 /\ job \in JobIds /\ Status[job] \in ActiveJobStates
    BY <1>3 DEF CurrentActive, Active, Status, TypeOK
  <2>2. Status[job] # "cancelled"
    BY <2>1 DEF ActiveJobStates
  <2>3. ViewEdge(Status[job], "cancelled")
    BY <1>1, <1>3, <2>1, <2>2, SetJobView
  <2>4. QED
    BY <2>1, <2>3 DEF ViewGoesOn
<1>4. QED
  BY <1>2, <1>3 DEF DisconnectCancel

LEMMA StartJobView ==
  ASSUME TypeOK, NEW c \in Clients, NEW n \in Programs, StartJob(c, n)
  PROVE  ViewStart
<1> DEFINE j == counter + 1
           r == [NoJob EXCEPT !.state = "streaming", !.total = n]
<1>1. Locked /\ up' = up /\ j \in JobIds /\ counter' = j /\ job' = j
  BY MachineAssumption DEF StartJob, TypeOK
<1>2. ~(job # 0 /\ Status[job] \in ActiveJobStates)
  BY DEF StartJob, CurrentActive, Active, Status, TypeOK
<1>3. jobs' = [jobs EXCEPT ![j] = r]
  BY DEF StartJob
<1>4. r.state = "streaming" /\ r.events = <<>>
  BY DEF NoJob
<1>5. Status' = [Status EXCEPT ![j] = "streaming"] /\ Log' = [Log EXCEPT ![j] = <<>>]
  <2> HIDE DEF r, j
  <2>1. Status' = [Status EXCEPT ![j] = r.state] /\ Log' = [Log EXCEPT ![j] = r.events]
    BY <1>1, <1>3, NewJobView
  <2>2. QED
    BY <1>4, <2>1
<1>6. worker' = [worker EXCEPT ![j] = [at |-> "ready", host |-> host, sent |-> 0]]
  BY DEF StartJob
<1>7. Live' = Live \cup {j}
  BY <1>1, <1>6 DEF TypeOK, Live, Died, Alive, RunningAt
<1>8. QED
  BY <1>1, <1>2, <1>5, <1>7 DEF ViewStart

LEMMA PauseView == ASSUME TypeOK, NEW c \in Clients, PauseJob(c) PROVE ViewGoesOn
<1> DEFINE s == IF jobs[job].state = "streaming" THEN "paused" ELSE jobs[job].state
<1>1. UNCHANGED <<up, job, counter, worker>> /\ job # 0
  BY DEF PauseJob, KnownJob
<1>2. job \in JobIds /\ Status[job] = jobs[job].state
  BY <1>1 DEF TypeOK, Status
<1>3. jobs' = [jobs EXCEPT ![job].state = s]
  BY DEF PauseJob
<1>4. IF s = Status[job] THEN ViewSame ELSE ViewEdge(Status[job], s)
  BY <1>1, <1>3, SetJobView
<1>5. QED
  BY <1>2, <1>4 DEF ViewGoesOn

LEMMA ResumeView == ASSUME TypeOK, NEW c \in Clients, ResumeJob(c) PROVE ViewGoesOn
<1> DEFINE s == IF jobs[job].state = "paused" THEN "streaming" ELSE jobs[job].state
<1>1. UNCHANGED <<up, job, counter, worker>> /\ job # 0 /\ Locked
  BY DEF ResumeJob, KnownJob
<1>2. job \in JobIds /\ Status[job] = jobs[job].state
  BY <1>1 DEF TypeOK, Status
<1>3. jobs' = [jobs EXCEPT ![job].state = s]
  BY DEF ResumeJob
<1>4. IF s = Status[job] THEN ViewSame ELSE ViewEdge(Status[job], s)
  BY <1>1, <1>3, SetJobView
<1>5. QED
  BY <1>1, <1>2, <1>4 DEF ViewGoesOn

LEMMA CancelView == ASSUME TypeOK, NEW c \in Clients, CancelJob(c) PROVE ViewGoesOn
<1> DEFINE s == IF jobs[job].state \in ActiveJobStates THEN "cancelled"
                ELSE jobs[job].state
<1>1. UNCHANGED <<up, job, counter, worker>> /\ job # 0
  BY DEF CancelJob, KnownJob
<1>2. job \in JobIds /\ Status[job] = jobs[job].state
  BY <1>1 DEF TypeOK, Status
<1>3. jobs' = [jobs EXCEPT ![job].state = s]
  BY DEF CancelJob
<1>4. IF s = Status[job] THEN ViewSame ELSE ViewEdge(Status[job], s)
  BY <1>1, <1>3, SetJobView
<1>5. QED
  BY <1>2, <1>4 DEF ViewGoesOn

LEMMA OnProgressView ==
  ASSUME TypeInv, NEW w \in JobIds, OnProgress(w) PROVE ViewGoesOn
<1>1. TypeOK /\ w \in Live /\ job # 0
  BY DEF TypeInv, HostsNamed, OnProgress, Live, Died, Alive, RunningAt
<1>2. job \in JobIds
  BY <1>1 DEF TypeOK
<1>3. UNCHANGED <<up, job, counter>> /\ MoveTo(w, "between")
  BY DEF OnProgress
<1>4. Live' = Live
  BY <1>1, <1>3, MoveView DEF RunningAt
<1>5. jobs' = [jobs EXCEPT ![job].sent = worker[w].sent,
                           ![job].events = Append(@, "progress")]
  BY DEF OnProgress
<1>6. Status' = Status /\ Log' = [Log EXCEPT ![job] = Append(@, "progress")]
  BY <1>1, <1>2, <1>5, ProgressView
<1>7. QED
  BY <1>1, <1>3, <1>4, <1>6 DEF ViewGoesOn, ViewNote

LEMMA SettleErrorView ==
  ASSUME TypeOK, NEW w \in JobIds, SettleError(w) PROVE ViewGoesOn
<1>1. UNCHANGED <<up, job, counter>> /\ MoveTo(w, "done") /\ w \in Live
  BY DEF SettleError, Live, Died, Alive, RunningAt
<1>2. jobs' = [jobs EXCEPT ![w].state = "error", ![w].events = Append(@, "error")]
  BY DEF SettleError
<1>3. Status' = [Status EXCEPT ![w] = "error"]
      /\ Log' = [Log EXCEPT ![w] = Append(@, "error")]
  BY <1>2, SettleView
<1>4. ViewSettle(w, "error", "error")
  BY <1>1, <1>3, DoneView DEF ViewSettle
<1>5. QED
  BY <1>4 DEF ViewGoesOn

LEMMA SettleEndView ==
  ASSUME TypeOK, NEW w \in JobIds, SettleEnd(w) PROVE ViewGoesOn
<1>1. UNCHANGED <<up, job, counter>> /\ MoveTo(w, "done") /\ w \in Live
  BY DEF SettleEnd, Live, Died, Alive, RunningAt
<1>2. Live' = Live \ {w} /\ Status[w] = jobs[w].state
  BY <1>1, DoneView DEF Status
<1>3. CASE /\ jobs[w].state \notin {"cancelled", "error"}
           /\ jobs' = [jobs EXCEPT ![w].state = "completed",
                                   ![w].events = Append(@, "complete")]
  <2>1. Status' = [Status EXCEPT ![w] = "completed"]
        /\ Log' = [Log EXCEPT ![w] = Append(@, "complete")]
    BY <1>3, SettleView
  <2>2. ViewSettle(w, "completed", "complete")
    BY <1>1, <1>2, <2>1 DEF ViewSettle
  <2>3. QED
    BY <1>2, <1>3, <2>2 DEF ViewGoesOn
<1>4. CASE jobs[w].state \in {"cancelled", "error"} /\ UNCHANGED jobs
  <2>1. ViewLeave(w)
    BY <1>1, <1>2, <1>4, SameJobsView DEF ViewLeave, ActiveJobStates
  <2>2. QED
    BY <2>1 DEF ViewGoesOn
<1>5. QED
  BY <1>3, <1>4 DEF SettleEnd

LEMMA BoardActionView == ASSUME TypeOK, BoardAction PROVE ViewGoesOn
<1>1. UNCHANGED <<up, job, counter, worker>> /\ job # 0
  BY DEF BoardAction
<1>2. job \in JobIds
  BY <1>1 DEF TypeOK
<1>3. jobs' = [jobs EXCEPT ![job].events = Append(@, "action")]
  BY DEF BoardAction
<1>4. Status' = Status /\ Log' = [Log EXCEPT ![job] = Append(@, "action")]
  BY <1>2, <1>3, NoteView
<1>5. QED
  BY <1>1, <1>4, SameWorkersView DEF ViewGoesOn, ViewNote

LEMMA WorkerRunsView ==
  ASSUME TypeOK, NEW w \in JobIds, WorkerRuns(w) PROVE ViewSame
<1>1. w \in Live
  BY DEF WorkerRuns, WorkerBegin, WorkerSend, WorkerAck, WorkerEnd, WorkerRaise,
         Live, Died, Alive, RunningAt
<1>2. up' = up /\ UNCHANGED jobvars
  BY DEF WorkerRuns, WorkerBegin, WorkerSend, WorkerAck, WorkerEnd, WorkerRaise
<1>3. Live' = Live
  <2>1. CASE WorkerAck(w)
    BY <2>1 DEF WorkerAck, TypeOK, WorkerType, Live, Died, Alive, RunningAt
  <2>2. CASE ~WorkerAck(w)
    <3>1. PICK a \in RunningAt \cup {"died"} : MoveTo(w, a)
      BY <2>2 DEF WorkerRuns, WorkerBegin, WorkerSend, WorkerEnd, WorkerRaise,
                  RunningAt
    <3>2. QED
      BY <1>1, <3>1, MoveView
  <2>3. QED
    BY <2>1, <2>2
<1>4. QED
  BY <1>2, <1>3, SameJobsView DEF ViewSame, view

LEMMA ClientStepView ==
  ASSUME TypeOK, NEW c \in Clients, ClientStep(c) PROVE ViewGoesOn
<1>1. CASE DisconnectCancel(c)
  BY <1>1, DisconnectCancelView
<1>2. ASSUME NEW n \in Programs, StartJob(c, n) PROVE ViewGoesOn
  BY <1>2, StartJobView DEF ViewGoesOn
<1>3. CASE PauseJob(c) \/ ResumeJob(c) \/ CancelJob(c)
  BY <1>3, PauseView, ResumeView, CancelView
<1>4. CASE ConnectBegin(c) \/ ConnectOk(c) \/ ConnectFail(c)
  <2>1. UNCHANGED <<up, jobvars, worker>>
    BY <1>4 DEF ConnectBegin, ConnectOk, ConnectFail
  <2>2. QED
    BY <2>1, UntouchedView DEF ViewGoesOn
<1>5. CASE \/ DisconnectRead(c) \/ DisconnectJoined(c) \/ JoinTimeout(c)
           \/ DisconnectClose(c)
  <2>1. UNCHANGED <<up, jobvars, worker>>
    BY <1>5 DEF DisconnectRead, DisconnectJoined, JoinTimeout, DisconnectClose
  <2>2. QED
    BY <2>1, UntouchedView DEF ViewGoesOn
<1>6. CASE QueryBegin(c) \/ QueryEnd(c) \/ EstopRead(c) \/ EstopWrite(c) \/ EstopMark(c)
  <2>1. UNCHANGED <<up, jobvars, worker>>
    BY <1>6 DEF QueryBegin, QueryEnd, EstopRead, EstopWrite, EstopMark
  <2>2. QED
    BY <2>1, UntouchedView DEF ViewGoesOn
<1>7. QED
  BY <1>1, <1>2, <1>3, <1>4, <1>5, <1>6 DEF ClientStep

LEMMA NextGoesOn == ASSUME TypeInv, [Next]_vars, ~Crash PROVE ViewGoesOn
<1>0. TypeOK
  BY DEF TypeInv
<1>1. CASE Restart
  BY <1>1, RestartView
<1>2. ASSUME NEW c \in Clients, ClientStep(c) PROVE ViewGoesOn
  BY <1>0, <1>2, ClientStepView
<1>3. ASSUME NEW w \in JobIds, WorkerStep(w) PROVE ViewGoesOn
  <2>1. CASE WorkerRuns(w)
    BY <1>0, <2>1, WorkerRunsView DEF ViewGoesOn
  <2>2. CASE OnProgress(w) \/ SettleError(w) \/ SettleEnd(w)
    BY <1>0, <2>2, OnProgressView, SettleErrorView, SettleEndView
  <2>3. QED
    BY <1>3, <2>1, <2>2 DEF WorkerStep, WorkerRuns
<1>4. CASE BoardAction
  BY <1>0, <1>4, BoardActionView
<1>5. CASE UNCHANGED vars
  <2>1. UNCHANGED <<up, jobvars, worker>>
    BY <1>5 DEF vars
  <2>2. QED
    BY <2>1, UntouchedView DEF ViewGoesOn
<1>6. QED
  BY <1>1, <1>2, <1>3, <1>4, <1>5 DEF Next

LEMMA NextView == ASSUME TypeInv, [Next]_vars PROVE ViewStep
BY NextGoesOn, CrashView DEF ViewStep

-----------------------------------------------------------------------------
(* The theorems *)

LEMMA NextOwner == ASSUME TypeInv, TypeInv', OwnerInv, [Next]_vars PROVE OwnerInv'
  BY NextView, ViewStepOwner DEF TypeInv

LEMMA SpecInvs == Spec => [](TypeInv /\ OwnerInv)
<1>1. Init => TypeInv /\ OwnerInv
  BY InitTypeInv, InitOwner
<1>2. TypeInv /\ OwnerInv /\ [Next]_vars => (TypeInv /\ OwnerInv)'
  BY NextTypeInv, NextOwner
<1>3. QED
  BY <1>1, <1>2, PTL DEF Spec

\* Every job shown as streaming or paused is the current one and is driven by a
\* live worker: no interleaving of requests, workers and crashes strands a job,
\* only an exception that _run_job does not catch.
THEOREM ActiveJobsAreDriven == Spec => []ActiveJobHasWorker
<1>1. OwnerInv => ActiveJobHasWorker
  BY DEF OwnerInv, RunningJobs, ActiveJobHasWorker, Active, Status, Live
<1>2. QED
  BY <1>1, SpecInvs, PTL

\* A worker whose job is no longer the current one was cancelled, so it can
\* never report that job as completed.
THEOREM ReplacedWorkersAreCancelled == Spec => []StaleWorkersAreCancelled
<1>1. OwnerInv => StaleWorkersAreCancelled
  BY DEF OwnerInv, StaleWorkers, StaleWorkersAreCancelled, Status, Live
<1>2. QED
  BY <1>1, SpecInvs, PTL

-----------------------------------------------------------------------------
(* A manual command keeps every job from streaming *)

Quiet ==
  \A c \in Clients : client[c].at = "querying" =>
    \A j \in JobIds : Status[j] # "streaming"

\* Only the owner of a free lock makes a job stream.
LEMMA LockKeepsQuiet ==
  ASSUME TypeOK, OwnerInv, ViewStep, lock # Nobody,
         \A j \in JobIds : Status[j] # "streaming"
  PROVE  \A j \in JobIds : Status'[j] # "streaming"
<1>0. Status \in [JobIds -> JobStates \cup {"none"}]
  BY ViewTypes
<1>1. ~Locked
  BY DEF Locked
<1>2. CASE Status' = Status
  BY <1>2
<1>3. ASSUME NEW i \in JobIds, NEW s, s # "streaming", Status' = [Status EXCEPT ![i] = s]
      PROVE  \A j \in JobIds : Status'[j] # "streaming"
  BY <1>0, <1>3
<1>4. ASSUME NEW f, NEW s, s # "streaming", ViewEdge(f, s)
      PROVE  \A j \in JobIds : Status'[j] # "streaming"
  BY <1>0, <1>4 DEF ViewEdge
<1>5. CASE \E f \in {"streaming"} : ViewEdge(f, "paused")
  BY <1>4, <1>5
<1>6. CASE \E f \in ActiveJobStates : ViewEdge(f, "cancelled")
  BY <1>4, <1>6
<1>7. ASSUME NEW w \in JobIds, ViewSettle(w, "error", "error")
      PROVE  \A j \in JobIds : Status'[j] # "streaming"
  BY <1>3, <1>7 DEF ViewSettle
<1>8. ASSUME NEW w \in JobIds, ViewSettle(w, "completed", "complete")
      PROVE  \A j \in JobIds : Status'[j] # "streaming"
  BY <1>3, <1>8 DEF ViewSettle
<1>9. CASE ViewCrash
  BY <1>9 DEF ViewCrash
<1>10. ASSUME NEW j \in JobIds, ViewRecover(j)
       PROVE  \A i \in JobIds : Status'[i] # "streaming"
  BY <1>3, <1>10 DEF ViewRecover
<1>11. (ViewSame \/ ViewNote \/ ViewRestart \/ \E w \in JobIds : ViewLeave(w))
         => Status' = Status
  BY DEF ViewSame, ViewNote, ViewRestart, ViewLeave, view
<1>12. ~ViewStart
  BY <1>1 DEF ViewStart
<1>13. QED
  BY <1>1, <1>2, <1>5, <1>6, <1>7, <1>8, <1>9, <1>10, <1>11, <1>12 DEF ViewStep, ViewGoesOn

\* A request thread starts to query in QueryBegin only.
LEMMA OnlyQueryBegins ==
  ASSUME TypeOK, [Next]_vars, NEW c \in Clients, client'[c].at = "querying"
  PROVE  client[c].at = "querying" \/ QueryBegin(c)
<1>0. client \in [Clients -> ClientType]
  BY DEF TypeOK
<1>1. CASE client' = client
  BY <1>1
<1>2. CASE client' = AllIdle
  BY <1>2 DEF AllIdle, Idle
<1>3. ASSUME NEW d \in Clients, NEW a, a # "querying",
             \/ client' = [client EXCEPT ![d].at = a]
             \/ \E r : client' = [client EXCEPT ![d] = [at |-> a, ref |-> r]]
      PROVE  client[c].at = "querying"
  BY <1>0, <1>3 DEF ClientType
<1>4. ASSUME NEW d \in Clients, client' = [client EXCEPT ![d] = Idle]
      PROVE  client[c].at = "querying"
  BY <1>3, <1>4 DEF Idle
<1>5. ASSUME NEW d \in Clients, ClientStep(d)
      PROVE  client[c].at = "querying" \/ QueryBegin(c)
  <2>1. CASE ConnectBegin(d)
    BY <1>3, <2>1 DEF ConnectBegin
  <2>2. CASE ConnectOk(d) \/ ConnectFail(d)
    BY <1>4, <2>2 DEF ConnectOk, ConnectFail
  <2>3. CASE DisconnectRead(d)
    BY <1>3, <2>3 DEF DisconnectRead
  <2>4. CASE DisconnectCancel(d) \/ DisconnectJoined(d) \/ JoinTimeout(d)
    <3>1. CASE DisconnectCancel(d)
      BY <1>3, <3>1 DEF DisconnectCancel
    <3>2. CASE DisconnectJoined(d) \/ JoinTimeout(d)
      BY <1>3, <3>2 DEF DisconnectJoined, JoinTimeout
    <3>3. QED
      BY <2>4, <3>1, <3>2
  <2>5. CASE DisconnectClose(d) \/ QueryEnd(d) \/ EstopMark(d)
    BY <1>4, <2>5 DEF DisconnectClose, QueryEnd, EstopMark
  <2>6. CASE QueryBegin(d)
    <3>1. client' = [client EXCEPT ![d] = [at |-> "querying", ref |-> host]]
      BY <2>6 DEF QueryBegin
    <3>2. c # d => client'[c] = client[c]
      BY <1>0, <3>1
    <3>3. QED
      BY <2>6, <3>2
  <2>7. CASE (\E n \in Programs : StartJob(d, n))
             \/ PauseJob(d) \/ ResumeJob(d) \/ CancelJob(d)
    BY <1>1, <2>7 DEF StartJob, PauseJob, ResumeJob, CancelJob
  <2>8. CASE EstopRead(d) \/ EstopWrite(d)
    <3>1. CASE EstopRead(d)
      BY <1>3, <3>1 DEF EstopRead
    <3>2. CASE EstopWrite(d)
      BY <1>3, <1>4, <3>2 DEF EstopWrite
    <3>3. QED
      BY <2>8, <3>1, <3>2
  <2>9. QED
    BY <1>5, <2>1, <2>2, <2>3, <2>4, <2>5, <2>6, <2>7, <2>8 DEF ClientStep
<1>6. ASSUME NEW w \in JobIds, WorkerStep(w) PROVE client' = client
  BY <1>6 DEF WorkerStep, WorkerBegin, WorkerSend, WorkerAck, WorkerEnd,
              WorkerRaise, OnProgress, SettleError, SettleEnd
<1>7. CASE Restart \/ BoardAction \/ UNCHANGED vars
  BY <1>1, <1>7 DEF Restart, BoardAction, vars
<1>8. CASE Crash
  BY <1>2, <1>8 DEF Crash
<1>9. QED
  BY <1>1, <1>5, <1>6, <1>7, <1>8 DEF Next

LEMMA NextQuiet ==
  ASSUME TypeInv, OwnerInv, Quiet, [Next]_vars PROVE Quiet'
<1>0. TypeOK /\ ViewStep
  BY NextView DEF TypeInv
<1> SUFFICES ASSUME NEW c \in Clients, client'[c].at = "querying"
             PROVE  \A j \in JobIds : Status'[j] # "streaming"
  BY DEF Quiet
<1>1. CASE client[c].at = "querying"
  <2>1. lock # Nobody
    BY <1>1, MachineAssumption DEF TypeInv, WaitersHoldLock
  <2>2. QED
    BY <1>0, <1>1, <2>1, LockKeepsQuiet DEF Quiet
<1>2. CASE QueryBegin(c)
  <2>1. ~(job # 0 /\ jobs[job].state = "streaming") /\ jobs' = jobs
    BY <1>2 DEF QueryBegin
  <2>2. \A j \in JobIds : Status[j] = "streaming" => j = job
    BY DEF OwnerInv, RunningJobs, ActiveJobStates
  <2>3. \A j \in JobIds : Status[j] = jobs[j].state /\ j # 0
    BY DEF Status
  <2>4. QED
    BY <2>1, <2>2, <2>3, SameJobsView
<1>3. QED
  BY <1>0, <1>1, <1>2, OnlyQueryBegins

\* While a manual command is out its thread owns the lock and no job streams,
\* not even one that another request starts or resumes meanwhile.
THEOREM CommandsExcludeStreaming == Spec => []CommandExcludesStreaming
<1>1. Init => Quiet
  BY DEF Init, AllIdle, Idle, Quiet
<1>2. TypeInv /\ OwnerInv /\ Quiet /\ [Next]_vars => Quiet'
  BY NextQuiet
<1>3. TypeInv /\ Quiet => CommandExcludesStreaming
  BY DEF TypeInv, WaitersHoldLock, Quiet, Status, CommandExcludesStreaming
<1>4. QED
  BY <1>1, <1>2, <1>3, SpecInvs, PTL DEF Spec

-----------------------------------------------------------------------------
(* MachineService implements JobService *)

LEMMA ViewStepImplements ==
  ASSUME TypeOK, OwnerInv, ViewStep
  PROVE  [Jobs!JobNext]_(Jobs!jobServiceVars)
<1>0. /\ Status \in [JobIds -> JobStates \cup {"none"}]
      /\ Log \in [JobIds -> Seq(EventTypes)]
      /\ job = counter /\ (job # 0 => job \in JobIds) /\ Live \subseteq JobIds
  BY ViewTypes DEF TypeOK, OwnerInv
<1>1. CASE ViewSame \/ ViewRestart
  BY <1>1 DEF ViewSame, ViewRestart, view, Jobs!jobServiceVars
<1>2. CASE ViewNote
  BY <1>2 DEF ViewNote, Jobs!JobNext, Jobs!Record, Jobs!Note
<1>3. CASE ViewEdge("streaming", "paused")
  BY <1>3 DEF ViewEdge, Jobs!JobNext, Jobs!Pause, Jobs!SetStatus
<1>4. CASE ViewEdge("paused", "streaming")
  BY <1>4 DEF ViewEdge, Jobs!JobNext, Jobs!Resume, Jobs!SetStatus
<1>5. ASSUME NEW s \in ActiveJobStates, ViewEdge(s, "cancelled")
      PROVE  Jobs!JobNext
  BY <1>5 DEF ViewEdge, ActiveJobStates, Jobs!JobNext, Jobs!Cancel, Jobs!SetStatus,
              Jobs!Running
<1>6. ASSUME NEW w \in JobIds, ViewSettle(w, "error", "error") PROVE Jobs!JobNext
  <2>1. Jobs!Fail(w)
    BY <1>6 DEF ViewSettle, OwnerInv, LiveJobs, ActiveJobStates, Jobs!Fail,
                Jobs!SetStatus, Jobs!Note, Jobs!Running
  <2>2. QED
    BY <2>1 DEF Jobs!JobNext
<1>7. ASSUME NEW w \in JobIds, Status[w] \notin {"cancelled", "error"},
             ViewSettle(w, "completed", "complete")
      PROVE  Jobs!JobNext
  <2>1. Jobs!Complete(w)
    BY <1>7 DEF ViewSettle, OwnerInv, LiveJobs, ActiveJobStates, Jobs!Complete,
                Jobs!SetStatus, Jobs!Note, Jobs!Running
  <2>2. QED
    BY <2>1 DEF Jobs!JobNext
<1>8. CASE \E w \in JobIds : ViewLeave(w)
  BY <1>8 DEF ViewLeave, Jobs!jobServiceVars
<1>9. CASE ViewStart
  <2> DEFINE k == counter + 1
  <2>1. k \in JobIds /\ job' = k /\ Status' = [Status EXCEPT ![k] = "streaming"]
    BY <1>9 DEF ViewStart
  <2>2. Status[k] = "none" /\ Log[k] = <<>>
    BY <1>0, <2>1 DEF OwnerInv, Unissued
  <2>3. Log' = Log
    BY <1>0, <1>9, <2>2 DEF ViewStart
  <2>4. \A i \in JobIds : Status[i] \notin Jobs!Running
    BY <1>9 DEF ViewStart, OwnerInv, RunningJobs, ActiveJobStates, Jobs!Running
  <2>5. Jobs!Start(k)
    BY <2>1, <2>2, <2>3, <2>4 DEF Jobs!Start, Jobs!SetStatus
  <2>6. QED
    BY <2>1, <2>5 DEF Jobs!JobNext
<1>10. CASE ViewCrash
  BY <1>10 DEF ViewCrash, Jobs!JobNext, Jobs!Forget, Jobs!Blank, Jobs!EmptyLog
<1>11. ASSUME NEW j \in JobIds, ViewRecover(j) PROVE Jobs!JobNext
  <2>1. counter = 0 /\ job = 0
    BY <1>0, <1>11 DEF ViewRecover, OwnerInv
  <2>2. \A i \in JobIds : Status[i] = "none" /\ Log[i] = <<>>
    BY <2>1 DEF OwnerInv, Unissued
  <2>3. Jobs!JobInit
    BY <1>0, <2>1, <2>2 DEF Jobs!JobInit, Jobs!Blank, Jobs!EmptyLog
  <2>4. Log' = [Log EXCEPT ![j] = Append(@, "error")]
    <3>1. Log' = [Log EXCEPT ![j] = <<"error">>]
      BY <1>11 DEF ViewRecover
    <3>2. Append(Log[j], "error") = <<"error">>
      <4>1. Append(<<>>, "error") = <<"error">>
        OBVIOUS
      <4>2. QED
        BY <2>2, <4>1
    <3>3. QED
      BY <3>1, <3>2
  <2>5. Jobs!Recover(j)
    BY <1>11, <2>3, <2>4 DEF ViewRecover, Jobs!Recover, Jobs!SetStatus, Jobs!Note
  <2>6. QED
    BY <2>5 DEF Jobs!JobNext
<1>12. QED
  BY <1>1, <1>2, <1>3, <1>4, <1>5, <1>6, <1>7, <1>8, <1>9, <1>10, <1>11
     DEF ViewStep, ViewGoesOn

\* Threads, locks, the board and the snapshot file together implement the job
\* service: no interleaving revives a finished job, completes a cancelled one,
\* loses an event or reissues the id of a recovered job.
THEOREM ServiceImplementsJobs == Spec => ImplementsJobService
<1>1. Init => Jobs!JobInit
  BY DEF Init, NoJobs, NoJob, Status, Log, Jobs!JobInit, Jobs!Blank, Jobs!EmptyLog
<1>2. TypeInv /\ OwnerInv /\ [Next]_vars => [Jobs!JobNext]_(Jobs!jobServiceVars)
  BY NextView, ViewStepImplements DEF TypeInv
<1>3. QED
  BY <1>1, <1>2, SpecInvs, PTL DEF Spec, ImplementsJobService, Jobs!JobSpec

-----------------------------------------------------------------------------
(* The outcome in the log: what a job service of any kind tells *)

\* Where a log tells an event.
Told(s, type) == {n \in DOMAIN s : s[n] = type}

\* The log of a job in a state: its outcome at one place, and no other outcome.
TellsOutcome(st, s) ==
  /\ IF st = "completed" THEN \E n : Told(s, "complete") = {n} ELSE Told(s, "complete") = {}
  /\ IF st \in {"error", "orphaned"} THEN \E n : Told(s, "error") = {n} ELSE Told(s, "error") = {}

OutcomeInv == \A j \in JobIds : TellsOutcome(Status[j], Log[j])

LEMMA TellsNothing == Told(<<>>, "complete") = {} /\ Told(<<>>, "error") = {}
BY DEF Told

\* An event that is appended is told at the end.
LEMMA ToldAtEnd ==
  ASSUME NEW s \in Seq(EventTypes), NEW e \in EventTypes, NEW type
  PROVE  Told(Append(s, e), type) =
           IF e = type THEN Told(s, type) \cup {Len(s) + 1} ELSE Told(s, type)
<1>1. /\ DOMAIN s = 1..Len(s) /\ Len(s) \in Nat
      /\ DOMAIN Append(s, e) = 1..(Len(s) + 1)
      /\ \A n \in 1..Len(s) : Append(s, e)[n] = s[n]
      /\ Append(s, e)[Len(s) + 1] = e
  OBVIOUS
<1>2. \A n \in 1..(Len(s) + 1) : n \in 1..Len(s) \/ n = Len(s) + 1
  BY <1>1
<1>3. \A n \in 1..Len(s) : n \in 1..(Len(s) + 1)
  BY <1>1
<1>4. Len(s) + 1 \in 1..(Len(s) + 1)
  BY <1>1
<1> QED BY <1>1, <1>2, <1>3, <1>4 DEF Told

\* A job moves to a state, or its log grows, or both.
LEMMA OneJobTells ==
  ASSUME TypeOK, OutcomeInv, NEW j \in JobIds, NEW st, NEW s, TellsOutcome(st, s),
         Status' = [Status EXCEPT ![j] = st], Log' = [Log EXCEPT ![j] = s]
  PROVE  OutcomeInv'
<1>1. \A i \in JobIds : /\ Status'[i] = IF i = j THEN st ELSE Status[i]
                        /\ Log'[i] = IF i = j THEN s ELSE Log[i]
  BY ViewTypes
<1>2. \A i \in JobIds : TellsOutcome(Status'[i], Log'[i])
  BY <1>1 DEF OutcomeInv
<1> QED BY <1>2 DEF OutcomeInv, TellsOutcome, Told

\* Every operation of a job service keeps it.
LEMMA OutcomeStep ==
  ASSUME TypeOK, OutcomeInv, [Jobs!JobNext]_(Jobs!jobServiceVars) PROVE OutcomeInv'
<1>0. /\ Status \in [JobIds -> JobStates \cup {"none"}] /\ Log \in [JobIds -> Seq(EventTypes)]
      /\ job \in 0..MaxJobs /\ (job # 0 => job \in JobIds)
  BY ViewTypes, MachineAssumption DEF TypeOK
<1>1. ASSUME NEW j \in JobIds PROVE TellsOutcome(Status[j], Log[j]) /\ Log[j] \in Seq(EventTypes)
  BY <1>0 DEF OutcomeInv
<1>2. CASE UNCHANGED <<Status, Log>>
  BY <1>2 DEF OutcomeInv, TellsOutcome, Told
<1>3. ASSUME NEW j \in JobIds, NEW st, UNCHANGED Log, Jobs!SetStatus(j, st),
             Status[j] \notin {"completed", "error", "orphaned"},
             st \notin {"completed", "error", "orphaned"}
      PROVE  OutcomeInv'
  <2>1. TellsOutcome(st, Log[j])
    BY <1>1, <1>3 DEF TellsOutcome
  <2>2. Log' = [Log EXCEPT ![j] = Log[j]]
    BY <1>0, <1>3
  <2> QED BY <1>3, <2>1, <2>2, OneJobTells DEF Jobs!SetStatus
<1>4. ASSUME NEW j \in JobIds, Jobs!Start(j) PROVE OutcomeInv'
  BY <1>3, <1>4 DEF Jobs!Start
<1>5. CASE Jobs!Pause \/ Jobs!Resume \/ Jobs!Cancel
  BY <1>0, <1>3, <1>5 DEF Jobs!Pause, Jobs!Resume, Jobs!Cancel, Jobs!Running
<1>6. ASSUME NEW e \in {"progress", "action"}, Jobs!Record(e) PROVE OutcomeInv'
  <2>1. job \in JobIds /\ Log' = [Log EXCEPT ![job] = Append(Log[job], e)] /\ Status' = Status
    BY <1>0, <1>6 DEF Jobs!Record, Jobs!Note
  <2>2. \A type : type # e => Told(Append(Log[job], e), type) = Told(Log[job], type)
    BY <1>1, <2>1, ToldAtEnd DEF EventTypes
  <2>3. TellsOutcome(Status[job], Append(Log[job], e))
    BY <1>1, <2>1, <2>2 DEF TellsOutcome
  <2>4. Status' = [Status EXCEPT ![job] = Status[job]]
    BY <1>0, <2>1
  <2> QED BY <2>1, <2>3, <2>4, OneJobTells
<1>7. ASSUME NEW j \in JobIds, NEW st, NEW e,
             (st = "completed" /\ e = "complete") \/ (st = "error" /\ e = "error"),
             Status[j] \notin {"completed", "error", "orphaned"},
             Jobs!SetStatus(j, st), Jobs!Note(j, e)
      PROVE  OutcomeInv'
  <2>1. Told(Log[j], "complete") = {} /\ Told(Log[j], "error") = {}
    BY <1>1, <1>7 DEF TellsOutcome
  <2>2. e \in EventTypes /\ Log[j] \in Seq(EventTypes)
    BY <1>1, <1>7 DEF EventTypes
  <2>3. \A type : Told(Append(Log[j], e), type) =
          IF e = type THEN Told(Log[j], type) \cup {Len(Log[j]) + 1} ELSE Told(Log[j], type)
    BY <2>2, ToldAtEnd
  <2>4. TellsOutcome(st, Append(Log[j], e))
    <3>1. CASE st = "completed" /\ e = "complete"
      <4>1. /\ Told(Append(Log[j], e), "complete") = {Len(Log[j]) + 1}
            /\ Told(Append(Log[j], e), "error") = {}
        BY <2>1, <2>3, <3>1
      <4> QED BY <3>1, <4>1 DEF TellsOutcome
    <3>2. CASE st = "error" /\ e = "error"
      <4>1. /\ Told(Append(Log[j], e), "error") = {Len(Log[j]) + 1}
            /\ Told(Append(Log[j], e), "complete") = {}
        BY <2>1, <2>3, <3>2
      <4> QED BY <3>2, <4>1 DEF TellsOutcome
    <3> QED BY <1>7, <3>1, <3>2
  <2> QED BY <1>7, <2>4, OneJobTells DEF Jobs!SetStatus, Jobs!Note
<1>8. ASSUME NEW j \in JobIds, Jobs!Complete(j) \/ Jobs!Fail(j) PROVE OutcomeInv'
  <2>1. CASE Jobs!Complete(j)
    <3>1. Status[j] \notin {"completed", "error", "orphaned"}
      BY <2>1 DEF Jobs!Complete, Jobs!Running
    <3> QED BY <1>7, <2>1, <3>1 DEF Jobs!Complete
  <2>2. CASE Jobs!Fail(j)
    <3>1. Status[j] \notin {"completed", "error", "orphaned"}
      BY <2>2 DEF Jobs!Fail, Jobs!Running
    <3> QED BY <1>7, <2>2, <3>1 DEF Jobs!Fail
  <2> QED BY <1>8, <2>1, <2>2
<1>9. ASSUME NEW j \in JobIds, Jobs!Recover(j) PROVE OutcomeInv'
  <2>1. Status[j] = "none" /\ Log[j] = <<>>
    BY <1>9 DEF Jobs!Recover, Jobs!JobInit, Jobs!Blank, Jobs!EmptyLog
  <2>2. Told(Append(<<>>, "error"), "error") = {1} /\ Told(Append(<<>>, "error"), "complete") = {}
    BY DEF Told
  <2>3. TellsOutcome("orphaned", Append(<<>>, "error"))
    BY <2>2 DEF TellsOutcome
  <2> QED BY <1>9, <2>1, <2>3, OneJobTells DEF Jobs!Recover, Jobs!SetStatus, Jobs!Note
<1>10. CASE Jobs!Forget
  <2>1. \A j \in JobIds : TellsOutcome(Status'[j], Log'[j])
    BY <1>10, TellsNothing DEF Jobs!Forget, Jobs!Blank, Jobs!EmptyLog, TellsOutcome
  <2> QED BY <2>1 DEF OutcomeInv, TellsOutcome, Told
<1> QED BY <1>2, <1>4, <1>5, <1>6, <1>8, <1>9, <1>10 DEF Jobs!JobNext, Jobs!jobServiceVars

\* The event log tells the outcome exactly once: it is what a job service does, and
\* MachineService is one, whatever interleaving of cancels, halts, late workers,
\* crashes and recoveries led there (_run_job, _recover_orphaned).
THEOREM OutcomeIsLoggedOnce == Spec => []OutcomeLoggedOnce
<1>1. Init => OutcomeInv
  <2> SUFFICES ASSUME Init PROVE OutcomeInv
    OBVIOUS
  <2>1. \A j \in JobIds : Status[j] = "none" /\ Log[j] = <<>>
    BY DEF Init, NoJobs, NoJob, Status, Log
  <2> QED BY <2>1, TellsNothing DEF OutcomeInv, TellsOutcome
<1>2. TypeInv /\ OutcomeInv /\ [Jobs!JobNext]_(Jobs!jobServiceVars) => OutcomeInv'
  BY OutcomeStep DEF TypeInv
<1>3. OutcomeInv => OutcomeLoggedOnce
  <2> SUFFICES ASSUME OutcomeInv, NEW j \in JobIds
               PROVE  /\ EventCount(j, "complete") = IF jobs[j].state = "completed" THEN 1 ELSE 0
                      /\ EventCount(j, "error") =
                           IF jobs[j].state \in {"error", "orphaned"} THEN 1 ELSE 0
    BY DEF OutcomeLoggedOnce
  <2>1. TellsOutcome(jobs[j].state, jobs[j].events)
    BY DEF OutcomeInv, Status, Log
  <2>2. \A type : EventCount(j, type) = Cardinality(Told(jobs[j].events, type))
    BY DEF EventCount, Told
  <2>3. \A T : (T = {} => Cardinality(T) = 0) /\ ((\E n : T = {n}) => Cardinality(T) = 1)
    BY FS_EmptySet, FS_Singleton
  <2> QED BY <2>1, <2>2, <2>3 DEF TellsOutcome
<1>4. Spec => [][Jobs!JobNext]_(Jobs!jobServiceVars)
  BY ServiceImplementsJobs, PTL DEF ImplementsJobService, Jobs!JobSpec
<1> QED BY <1>1, <1>2, <1>3, <1>4, SpecInvs, PTL DEF Spec

-----------------------------------------------------------------------------
(* What the current job is credited with: the lines of its own worker, or of a *)
(* worker before it whose job was cancelled under it                           *)

\* No step but a crash takes a job out of these states.
LEMMA EndingsStay ==
  ASSUME TypeOK, OwnerInv, ViewGoesOn, NEW j \in JobIds
  PROVE  /\ Status[j] = "orphaned" => Status'[j] = "orphaned"
         /\ Status[j] \in {"cancelled", "error"} => Status'[j] \in {"cancelled", "error"}
<1> DEFINE Stays == /\ Status[j] = "orphaned" => Status'[j] = "orphaned"
                    /\ Status[j] \in {"cancelled", "error"}
                         => Status'[j] \in {"cancelled", "error"}
<1>0. /\ Status \in [JobIds -> JobStates \cup {"none"}] /\ Live \subseteq JobIds
      /\ counter \in 0..MaxJobs /\ MaxJobs \in Nat
  BY ViewTypes, MachineAssumption DEF TypeOK
<1>1. CASE Status' = Status
  BY <1>1
<1>2. ASSUME NEW i \in JobIds, NEW s, Status' = [Status EXCEPT ![i] = s],
             Status[i] \notin {"orphaned", "cancelled", "error"}
      PROVE  Stays
  BY <1>0, <1>2
<1>3. ASSUME NEW s \in ActiveJobStates, NEW t, ViewEdge(s, t) PROVE Stays
  <2>1. job \in JobIds /\ Status[job] = s
    BY <1>3 DEF ViewEdge, TypeOK
  <2>2. s \notin {"orphaned", "cancelled", "error"}
    BY DEF ActiveJobStates
  <2> QED BY <1>2, <1>3, <2>1, <2>2 DEF ViewEdge
<1>4. ASSUME NEW w \in JobIds, ViewSettle(w, "error", "error") PROVE Stays
  BY <1>0, <1>4 DEF ViewSettle, OwnerInv, LiveJobs, ActiveJobStates
<1>5. ASSUME NEW w \in JobIds, Status[w] \notin {"cancelled", "error"},
             ViewSettle(w, "completed", "complete")
      PROVE  Stays
  BY <1>0, <1>5 DEF ViewSettle, OwnerInv, LiveJobs, ActiveJobStates
<1>6. CASE ViewStart
  BY <1>0, <1>2, <1>6 DEF ViewStart, OwnerInv, Unissued
<1>7. ASSUME NEW i \in JobIds, ViewRecover(i) PROVE Stays
  <2>1. counter = 0 /\ i > counter
    BY <1>7 DEF ViewRecover, OwnerInv
  <2> QED BY <1>2, <1>7, <2>1 DEF ViewRecover, OwnerInv, Unissued
<1>8. (ViewSame \/ ViewNote \/ ViewRestart \/ \E w \in JobIds : ViewLeave(w))
        => Status' = Status
  BY DEF ViewSame, ViewNote, ViewRestart, ViewLeave, view
<1>9. "streaming" \in ActiveJobStates /\ "paused" \in ActiveJobStates
  BY DEF ActiveJobStates
<1> QED BY <1>1, <1>3, <1>4, <1>5, <1>6, <1>7, <1>8, <1>9 DEF ViewGoesOn

\* How many lines a job shows: those of its own worker at most, or those of a worker
\* before it.
Credited(j) ==
  jobs[j].state # "orphaned" /\ jobs[j].sent > worker[j].sent =>
    \E w \in 1..(j - 1) :
      worker[w].sent >= jobs[j].sent /\ jobs[w].state \in {"cancelled", "error"}

\* A step that neither credits a job nor takes lines from a worker keeps it so.
LEMMA CreditKept ==
  ASSUME TypeOK, TypeOK', OwnerInv, ViewGoesOn, NEW j \in JobIds, Credited(j),
         jobs'[j].sent = jobs[j].sent,
         \A w \in JobIds : w = j \/ Status[w] \in {"cancelled", "error"}
                             => worker'[w].sent >= worker[w].sent
  PROVE  Credited(j)'
<1> SUFFICES ASSUME jobs'[j].state # "orphaned", jobs'[j].sent > worker'[j].sent
             PROVE  \E w \in 1..(j - 1) : /\ worker'[w].sent >= jobs'[j].sent
                                          /\ jobs'[w].state \in {"cancelled", "error"}
  BY DEF Credited
<1>1. ASSUME NEW w \in JobIds
      PROVE  /\ worker[w].sent \in Nat /\ worker'[w].sent \in Nat
             /\ jobs[w].sent \in Nat /\ jobs'[w].sent \in Nat
             /\ Status[w] = jobs[w].state /\ Status'[w] = jobs'[w].state
  <2>1. MaxLines \in Nat
    BY MachineAssumption
  <2>2. /\ worker[w] \in WorkerType /\ worker'[w] \in WorkerType
        /\ jobs[w] \in JobType /\ jobs'[w] \in JobType
    BY DEF TypeOK
  <2> QED BY <2>1, <2>2 DEF WorkerType, JobType, Status
<1>2. jobs[j].state # "orphaned" /\ jobs[j].sent > worker[j].sent
  BY <1>1, EndingsStay
<1>3. PICK w \in 1..(j - 1) :
        worker[w].sent >= jobs[j].sent /\ jobs[w].state \in {"cancelled", "error"}
  BY <1>2 DEF Credited
<1>4. w \in JobIds
  BY <1>3, MachineAssumption
<1>5. worker'[w].sent >= jobs'[j].sent /\ jobs'[w].state \in {"cancelled", "error"}
  BY <1>1, <1>3, <1>4, EndingsStay
<1> QED BY <1>3, <1>5

\* The counts a request, a settling worker or the board leaves as they are.
LEMMA CountsKept ==
  ASSUME TypeOK, NEW i \in JobIds, NEW j \in JobIds, NEW s, NEW e,
         \/ jobs' = [jobs EXCEPT ![i].state = s]
         \/ jobs' = [jobs EXCEPT ![i].events = Append(@, e)]
         \/ jobs' = [jobs EXCEPT ![i].state = s, ![i].events = Append(@, e)]
  PROVE  jobs'[j].sent = jobs[j].sent
<1>0. jobs \in [JobIds -> JobType] /\ jobs[i] \in JobType
  BY DEF TypeOK
<1>1. CASE jobs' = [jobs EXCEPT ![i].state = s]
  BY <1>0, <1>1 DEF JobType
<1>2. CASE jobs' = [jobs EXCEPT ![i].events = Append(@, e)]
  BY <1>0, <1>2 DEF JobType
<1>3. CASE jobs' = [jobs EXCEPT ![i].state = s, ![i].events = Append(@, e)]
  BY <1>0, <1>3 DEF JobType
<1> QED BY <1>1, <1>2, <1>3

LEMMA MovesKeepLines ==
  ASSUME TypeOK, NEW v \in JobIds, NEW a,
         \/ worker' = worker
         \/ MoveTo(v, a)
         \/ worker' = [worker EXCEPT ![v].at = a, ![v].sent = @ + 1]
  PROVE  \A w \in JobIds : worker'[w].sent >= worker[w].sent
<1> SUFFICES ASSUME NEW w \in JobIds PROVE worker'[w].sent >= worker[w].sent
  OBVIOUS
<1>0. worker \in [JobIds -> WorkerType] /\ worker[w] \in WorkerType /\ worker[v] \in WorkerType
  BY DEF TypeOK
<1>1. worker[w].sent \in Nat
  BY <1>0, MachineAssumption DEF WorkerType
<1>2. CASE worker' = worker
  BY <1>1, <1>2
<1>3. CASE MoveTo(v, a)
  <2>1. worker'[w].sent = worker[w].sent
    BY <1>0, <1>3 DEF MoveTo, WorkerType
  <2> QED BY <1>1, <2>1
<1>4. CASE worker' = [worker EXCEPT ![v].at = a, ![v].sent = @ + 1]
  <2>1. worker'[w].sent = worker[w].sent \/ worker'[w].sent = worker[w].sent + 1
    BY <1>0, <1>4 DEF WorkerType
  <2> QED BY <1>1, <2>1
<1> QED BY <1>2, <1>3, <1>4

LEMMA KeptLines ==
  ASSUME TypeOK, worker' = worker PROVE \A w \in JobIds : worker'[w].sent >= worker[w].sent
BY MovesKeepLines

LEMMA RequestCredits ==
  ASSUME TypeOK, TypeOK', OwnerInv, ViewGoesOn, MiscountNeedsLateWorker,
         NEW c \in Clients, ClientStep(c), NEW j \in JobIds
  PROVE  Credited(j)'
<1>0. Credited(j) /\ \A w \in JobIds : worker[w].sent \in Nat
  <2>1. \A w \in JobIds : worker[w] \in WorkerType /\ MaxLines \in Nat
    BY MachineAssumption DEF TypeOK
  <2> QED BY <2>1 DEF MiscountNeedsLateWorker, Credited, WorkerType
<1>1. ASSUME worker' = worker, jobs'[j].sent = jobs[j].sent PROVE Credited(j)'
  BY <1>0, <1>1, KeptLines, CreditKept
<1>2. CASE \E n \in Programs : StartJob(c, n)
  <2> DEFINE k == counter + 1
  <2>1. k \in JobIds /\ Status[k] = "none"
    BY <1>2, MachineAssumption DEF StartJob, TypeOK, OwnerInv, Unissued
  <2>2. PICK n \in Programs :
          /\ jobs' = [jobs EXCEPT ![k] = [NoJob EXCEPT !.state = "streaming", !.total = n]]
          /\ worker' = [worker EXCEPT ![k] = [at |-> "ready", host |-> host, sent |-> 0]]
    BY <1>2 DEF StartJob
  <2> HIDE DEF k
  <2>3. CASE j = k
    <3>1. jobs'[j].sent = 0 /\ worker'[j].sent = 0
      BY <2>1, <2>2, <2>3 DEF TypeOK, NoJob
    <3> QED BY <3>1 DEF Credited
  <2>4. CASE j # k
    <3>1. jobs'[j].sent = jobs[j].sent
      BY <2>1, <2>2, <2>4 DEF TypeOK
    <3>2. \A w \in JobIds : w # k => worker'[w].sent = worker[w].sent
      BY <2>2 DEF TypeOK
    <3> QED BY <1>0, <2>1, <2>4, <3>1, <3>2, CreditKept
  <2> QED BY <2>3, <2>4
<1>3. CASE PauseJob(c) \/ ResumeJob(c) \/ CancelJob(c) \/ DisconnectCancel(c)
  <2>1. \/ jobs' = jobs
        \/ job \in JobIds /\ \E s : jobs' = [jobs EXCEPT ![job].state = s]
    <3>1. CASE PauseJob(c) \/ ResumeJob(c) \/ CancelJob(c)
      <4>1. job \in JobIds
        BY <3>1 DEF PauseJob, ResumeJob, CancelJob, KnownJob, TypeOK
      <4> QED BY <3>1, <4>1 DEF PauseJob, ResumeJob, CancelJob
    <3>2. CASE DisconnectCancel(c)
      BY <3>2 DEF DisconnectCancel, CurrentActive, TypeOK
    <3> QED BY <1>3, <3>1, <3>2
  <2>2. worker' = worker
    BY <1>3 DEF PauseJob, ResumeJob, CancelJob, DisconnectCancel
  <2> QED BY <1>1, <2>1, <2>2, CountsKept
<1>4. CASE \/ ConnectBegin(c) \/ ConnectOk(c) \/ ConnectFail(c)
           \/ DisconnectRead(c) \/ DisconnectJoined(c) \/ JoinTimeout(c) \/ DisconnectClose(c)
           \/ QueryBegin(c) \/ QueryEnd(c) \/ EstopRead(c) \/ EstopWrite(c) \/ EstopMark(c)
  <2>1. worker' = worker /\ jobs' = jobs
    BY <1>4 DEF ConnectBegin, ConnectOk, ConnectFail, DisconnectRead, DisconnectJoined,
                JoinTimeout, DisconnectClose, QueryBegin, QueryEnd, EstopRead, EstopWrite,
                EstopMark
  <2> QED BY <1>1, <2>1
<1> QED BY <1>2, <1>3, <1>4 DEF ClientStep

LEMMA WorkerCredits ==
  ASSUME TypeInv, TypeOK', OwnerInv, ViewGoesOn, MiscountNeedsLateWorker,
         NEW v \in JobIds, WorkerStep(v), NEW j \in JobIds
  PROVE  Credited(j)'
<1>0. TypeOK /\ Credited(j)
  BY DEF TypeInv, MiscountNeedsLateWorker, Credited
<1>1. ASSUME \A w \in JobIds : worker'[w].sent >= worker[w].sent,
             jobs'[j].sent = jobs[j].sent
      PROVE  Credited(j)'
  BY <1>0, <1>1, CreditKept
<1>2. \A w \in JobIds : worker'[w].sent >= worker[w].sent
  <2>1. \E a : MoveTo(v, a) \/ worker' = [worker EXCEPT ![v].at = a, ![v].sent = @ + 1]
    BY DEF WorkerStep, WorkerBegin, WorkerSend, WorkerAck, WorkerEnd, WorkerRaise,
           OnProgress, SettleError, SettleEnd
  <2> QED BY <1>0, <2>1, MovesKeepLines
<1>3. CASE WorkerRuns(v)
  <2>1. jobs' = jobs
    BY <1>3 DEF WorkerRuns, WorkerBegin, WorkerSend, WorkerAck, WorkerEnd, WorkerRaise
  <2> QED BY <1>1, <1>2, <2>1
<1>4. CASE SettleError(v) \/ SettleEnd(v)
  <2>1. ASSUME NEW s, NEW e, jobs' = [jobs EXCEPT ![v].state = s, ![v].events = Append(@, e)]
        PROVE  jobs'[j].sent = jobs[j].sent
    BY <1>0, <2>1, CountsKept
  <2>2. jobs'[j].sent = jobs[j].sent
    <3>1. CASE SettleError(v)
      BY <2>1, <3>1 DEF SettleError
    <3>2. CASE SettleEnd(v)
      BY <2>1, <3>2 DEF SettleEnd
    <3> QED BY <1>4, <3>1, <3>2
  <2> QED BY <1>1, <1>2, <2>2
<1>5. CASE OnProgress(v)
  <2>1. v \in Live /\ job \in JobIds /\ job = counter
    BY <1>0, <1>5 DEF OnProgress, TypeInv, TypeOK, HostsNamed, OwnerInv, Live, Died, Alive,
                      RunningAt
  <2>2. jobs' = [jobs EXCEPT ![job].sent = worker[v].sent,
                             ![job].events = Append(@, "progress")]
    BY <1>5 DEF OnProgress
  <2>3. Status' = Status
    BY <1>0, <2>1, <2>2, ProgressView
  <2>4. worker'[v].sent = worker[v].sent /\ worker[v].sent \in Nat
    BY <1>0, <1>5, MachineAssumption DEF OnProgress, MoveTo, TypeOK, WorkerType
  <2>5. CASE j # job
    BY <1>0, <1>1, <1>2, <2>1, <2>2, <2>5 DEF TypeOK
  <2>6. CASE j = job
    <3>1. jobs'[j].sent = worker'[v].sent
      BY <1>0, <2>1, <2>2, <2>4, <2>6 DEF TypeOK, JobType
    <3>2. CASE v = job
      BY <2>4, <2>6, <3>1, <3>2 DEF Credited
    <3>3. CASE v # job
      <4>1. Status[v] = "cancelled"
        BY <2>1, <3>3 DEF OwnerInv, StaleWorkers
      <4>2. v \in 1..(j - 1)
        BY <2>1, <2>6, <3>3 DEF OwnerInv, Unissued
      <4>3. jobs'[v].state = "cancelled"
        BY <2>3, <4>1 DEF Status
      <4> QED BY <2>4, <3>1, <4>2, <4>3 DEF Credited
    <3> QED BY <3>2, <3>3
  <2> QED BY <2>5, <2>6
<1> QED BY <1>3, <1>4, <1>5 DEF WorkerStep, WorkerRuns

LEMMA NextCredits ==
  ASSUME TypeInv, TypeInv', OwnerInv, MiscountNeedsLateWorker, [Next]_vars
  PROVE  MiscountNeedsLateWorker'
<1> SUFFICES ASSUME NEW j \in JobIds PROVE Credited(j)'
  BY DEF MiscountNeedsLateWorker, Credited
<1>0. TypeOK /\ TypeOK' /\ Credited(j)
  BY DEF TypeInv, MiscountNeedsLateWorker, Credited
<1>1. CASE Crash
  BY <1>1 DEF Crash, NoJobs, NoJob, NoWorkers, NoWorker, Credited
<1>2. CASE ~Crash
  <2>1. ViewGoesOn
    BY <1>2, NextGoesOn
  <2>2. CASE \E c \in Clients : ClientStep(c)
    BY <1>0, <2>1, <2>2, RequestCredits
  <2>3. CASE \E w \in JobIds : WorkerStep(w)
    BY <1>0, <2>1, <2>3, WorkerCredits
  <2>4. CASE Restart
    <3>1. worker' = worker
      BY <2>4 DEF Restart
    <3>2. jobs' = jobs \/ jobs' = [jobs EXCEPT ![snap.id] = Tombstone]
      BY <2>4 DEF Restart
    <3>3. CASE jobs'[j] = jobs[j]
      BY <1>0, <2>1, <3>1, <3>3, KeptLines, CreditKept
    <3>4. CASE jobs'[j] = Tombstone
      BY <3>4 DEF Tombstone, Credited
    <3> QED BY <1>0, <3>2, <3>3, <3>4 DEF TypeOK
  <2>5. CASE BoardAction \/ UNCHANGED vars
    <3>1. worker' = worker
      BY <2>5 DEF BoardAction, vars
    <3>2. jobs' = jobs \/ (job \in JobIds /\ jobs' = [jobs EXCEPT ![job].events = Append(@, "action")])
      BY <1>0, <2>5 DEF BoardAction, vars, TypeOK
    <3>3. jobs'[j].sent = jobs[j].sent
      BY <1>0, <3>2, CountsKept
    <3> QED BY <1>0, <2>1, <3>1, <3>3, KeptLines, CreditKept
  <2> QED BY <1>2, <2>2, <2>3, <2>4, <2>5 DEF Next
<1> QED BY <1>1, <1>2

\* No job shows more lines than its worker has had acknowledged but by the late
\* progress of a worker before it, whose job was cancelled under it (_on_progress,
\* disconnect, cancel_job): the miscount needs a cancel and a replacement.
THEOREM MiscountsComeFromLateWorkers == Spec => []MiscountNeedsLateWorker
<1>1. Init => MiscountNeedsLateWorker
  BY DEF Init, NoJobs, NoJob, NoWorkers, NoWorker, MiscountNeedsLateWorker
<1>2. (TypeInv /\ OwnerInv) /\ (TypeInv /\ OwnerInv)' /\ MiscountNeedsLateWorker /\ [Next]_vars
        => MiscountNeedsLateWorker'
  BY NextCredits
<1> QED BY <1>1, <1>2, SpecInvs, PTL DEF Spec

-----------------------------------------------------------------------------
(* The snapshot on disk *)

\* A disconnect is between its cancel and its close.
Disconnecting == \E c \in Clients : client[c].at \in {"joining", "closing"}

\* The inductive invariant: nothing is throttled before a process has started.
SavedInv == (~up => ~fresh) /\ ThrottledMeansSaved /\ SnapshotNamesActiveJob

LEMMA ClearSaves == ASSUME ClearPersisted PROVE SavedInv'
<1>1. fresh' = FALSE /\ (DiskFaults \/ snap'.state = "none")
  BY DEF ClearPersisted, NoSnapshot
<1> QED BY <1>1 DEF SavedInv, ThrottledMeansSaved, SnapshotNamesActiveJob, ActiveJobStates

LEMMA PersistSaves == ASSUME up', Persist(job', jobs') PROVE SavedInv'
<1>1. CASE DiskFaults
  BY <1>1 DEF SavedInv, ThrottledMeansSaved, SnapshotNamesActiveJob
<1>2. CASE ~DiskFaults
  <2>1. snap'.id = job' /\ snap'.state = jobs'[job'].state
    BY <1>2 DEF Persist
  <2> QED BY <2>1 DEF SavedInv, ThrottledMeansSaved, SnapshotNamesActiveJob, Active
<1> QED BY <1>1, <1>2

\* A step that leaves the file alone keeps the invariant if it ends no job but in a
\* disconnect, and no disconnect.
LEMMA FileUntouchedSaves ==
  ASSUME SavedInv, UNCHANGED <<up, job, disk>>,
         Active(job) => Active(job)' \/ Disconnecting',
         Disconnecting => Disconnecting'
  PROVE  SavedInv'
BY DEF SavedInv, ThrottledMeansSaved, SnapshotNamesActiveJob, Disconnecting

LEMMA RequestKeepsDisconnecting ==
  ASSUME TypeOK, NEW d \in Clients, client[d].at \notin {"joining", "closing"},
         NEW r, client' = [client EXCEPT ![d] = r]
  PROVE  Disconnecting => Disconnecting'
BY DEF TypeOK, Disconnecting

LEMMA DisconnectKeepsDisconnecting ==
  ASSUME TypeOK, NEW d \in Clients, NEW a \in {"joining", "closing"},
         \/ client' = [client EXCEPT ![d].at = a]
         \/ client' = [client EXCEPT ![d] = [at |-> a, ref |-> 0]]
  PROVE  Disconnecting'
BY DEF TypeOK, ClientType, Disconnecting

LEMMA RequestSaves ==
  ASSUME TypeInv, SavedInv, NEW c \in Clients, ClientStep(c)
  PROVE  SavedInv'
<1>0. TypeOK
  BY DEF TypeInv
<1>1. ASSUME UNCHANGED <<up, job, jobs, disk>>, NEW r,
             client[c].at \notin {"joining", "closing"}, client' = [client EXCEPT ![c] = r]
      PROVE  SavedInv'
  BY <1>0, <1>1, RequestKeepsDisconnecting, FileUntouchedSaves DEF Active
<1>2. CASE ConnectBegin(c) \/ ConnectOk(c) \/ ConnectFail(c)
  BY <1>1, <1>2 DEF ConnectBegin, ConnectOk, ConnectFail, Request
<1>3. CASE \/ DisconnectRead(c) \/ QueryBegin(c) \/ QueryEnd(c)
           \/ EstopRead(c) \/ EstopMark(c)
  BY <1>1, <1>3 DEF DisconnectRead, QueryBegin, QueryEnd, EstopRead, EstopMark, Request
<1>8. CASE EstopWrite(c)
  <2>1. \E r : client' = [client EXCEPT ![c] = r]
    <3>1. [client EXCEPT ![c].at = "estop"]
            = [client EXCEPT ![c] = [client[c] EXCEPT !.at = "estop"]]
      BY <1>0 DEF TypeOK
    <3> QED BY <1>8, <3>1 DEF EstopWrite
  <2> QED BY <1>1, <1>8, <2>1 DEF EstopWrite
<1>4. CASE DisconnectCancel(c) \/ DisconnectJoined(c) \/ JoinTimeout(c)
  <2>1. PICK a \in {"joining", "closing"} :
          \/ client' = [client EXCEPT ![c].at = a]
          \/ client' = [client EXCEPT ![c] = [at |-> a, ref |-> 0]]
    BY <1>4 DEF DisconnectCancel, DisconnectJoined, JoinTimeout
  <2>2. Disconnecting'
    BY <1>0, <2>1, DisconnectKeepsDisconnecting
  <2>3. UNCHANGED <<up, job, disk>>
    BY <1>4 DEF DisconnectCancel, DisconnectJoined, JoinTimeout
  <2> QED BY <2>2, <2>3, FileUntouchedSaves
<1>5. CASE DisconnectClose(c) \/ CancelJob(c)
  BY <1>5, ClearSaves DEF DisconnectClose, CancelJob
<1>6. ASSUME NEW n \in Programs, StartJob(c, n) PROVE SavedInv'
  BY <1>6, PersistSaves DEF StartJob, Request
<1>7. CASE PauseJob(c) \/ ResumeJob(c)
  BY <1>7, PersistSaves DEF PauseJob, ResumeJob, KnownJob, Request
<1> QED BY <1>2, <1>3, <1>4, <1>5, <1>6, <1>7, <1>8 DEF ClientStep

LEMMA WorkerSaves ==
  ASSUME TypeInv, SavedInv, NEW w \in JobIds, WorkerStep(w)
  PROVE  SavedInv'
<1>1. CASE WorkerRuns(w)
  <2>1. UNCHANGED <<up, job, jobs, client, disk>>
    BY <1>1 DEF WorkerRuns, WorkerBegin, WorkerSend, WorkerAck, WorkerEnd, WorkerRaise
  <2> QED BY <2>1, FileUntouchedSaves DEF Active, Disconnecting
<1>2. CASE OnProgress(w)
  <2>1. UNCHANGED <<up, job, client>> /\ up
    BY <1>2 DEF OnProgress, Locked
  <2>2. CASE UNCHANGED disk
    <3>1. w \in Live /\ job \in JobIds /\ TypeOK
      BY <1>2 DEF TypeInv, HostsNamed, OnProgress, Live, Died, Alive, RunningAt, TypeOK
    <3>2. jobs' = [jobs EXCEPT ![job].sent = worker[w].sent,
                               ![job].events = Append(@, "progress")]
      BY <1>2 DEF OnProgress
    <3>3. Status' = Status
      BY <3>1, <3>2, ProgressView
    <3>4. Active(job) => Active(job)'
      BY <2>1, <3>1, <3>3 DEF Active, Status
    <3> QED BY <2>1, <2>2, <3>4, FileUntouchedSaves DEF Disconnecting
  <2>3. CASE Persist(job, jobs')
    BY <2>1, <2>3, PersistSaves
  <2> QED BY <1>2, <2>2, <2>3 DEF OnProgress
<1>3. CASE SettleError(w) \/ SettleEnd(w)
  BY <1>3, ClearSaves DEF SettleError, SettleEnd
<1> QED BY <1>1, <1>2, <1>3 DEF WorkerStep, WorkerRuns

LEMMA RestartSaves == ASSUME TypeInv, SavedInv, Restart PROVE SavedInv'
<1>1. CASE ClearPersisted
  BY <1>1, ClearSaves
<1>2. CASE (snap.id = 0 \/ DiskFaults) /\ UNCHANGED disk
  <2>1. up' /\ ~fresh'
    BY <1>2 DEF Restart, SavedInv
  <2>2. DiskFaults \/ snap'.state \notin ActiveJobStates
    BY <1>2 DEF TypeInv, SnapshotNamed
  <2> QED BY <2>1, <2>2 DEF SavedInv, ThrottledMeansSaved, SnapshotNamesActiveJob
<1> QED BY <1>1, <1>2 DEF Restart

LEMMA NextSaves == ASSUME TypeInv, SavedInv, [Next]_vars PROVE SavedInv'
<1>1. CASE Crash
  BY <1>1 DEF Crash, SavedInv, ThrottledMeansSaved, SnapshotNamesActiveJob
<1>2. CASE Restart
  BY <1>2, RestartSaves
<1>3. CASE \E c \in Clients : ClientStep(c)
  BY <1>3, RequestSaves
<1>4. CASE \E w \in JobIds : WorkerStep(w)
  BY <1>4, WorkerSaves
<1>5. CASE BoardAction
  <2>1. UNCHANGED <<up, job, client, disk>> /\ job \in JobIds /\ TypeOK
    BY <1>5 DEF BoardAction, TypeInv, TypeOK
  <2>2. jobs' = [jobs EXCEPT ![job].events = Append(@, "action")]
    BY <1>5 DEF BoardAction
  <2>3. Status' = Status
    BY <2>1, <2>2, NoteView
  <2>4. Active(job) => Active(job)'
    BY <2>1, <2>3 DEF Active, Status
  <2> QED BY <2>1, <2>4, FileUntouchedSaves DEF Disconnecting
<1>6. CASE UNCHANGED vars
  BY <1>6, FileUntouchedSaves DEF vars, Active, Disconnecting
<1> QED BY <1>1, <1>2, <1>3, <1>4, <1>5, <1>6 DEF Next

LEMMA SpecSaves == Spec => []SavedInv
<1>1. Init => SavedInv
  BY DEF Init, NoSnapshot, SavedInv, ThrottledMeansSaved, SnapshotNamesActiveJob, ActiveJobStates
<1>2. TypeInv /\ SavedInv /\ [Next]_vars => SavedInv'
  BY NextSaves
<1> QED BY <1>1, <1>2, SpecInvs, PTL DEF Spec

\* No false orphan: when snapshot I/O works, a snapshot that a restart would turn
\* into an orphan is that of a job that still runs, or that a disconnect has just
\* cancelled (_persist_job, _clear_persisted and their callers).
THEOREM NoFalseOrphan == Spec => []SnapshotNamesActiveJob
<1>1. SavedInv => SnapshotNamesActiveJob
  BY DEF SavedInv
<1> QED BY <1>1, SpecSaves, PTL

\* Writes are throttled only while the file on disk is the current job's, so a
\* snapshot removed from under a running job returns with its next line (_on_progress).
THEOREM ThrottleLosesNothing == Spec => []ThrottledMeansSaved
<1>1. SavedInv => ThrottledMeansSaved
  BY DEF SavedInv
<1> QED BY <1>1, SpecSaves, PTL

=============================================================================
