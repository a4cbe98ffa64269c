----------------------------- MODULE JobService -----------------------------
(***************************************************************************)
(* What the sidecar promises a client about streaming jobs, without        *)
(* threads, boards or files: one current job, job ids that are never       *)
(* reissued, a status that moves along the legal edges only, and an event  *)
(* log that only grows and tells the outcome once.  MachineService         *)
(* implements it; a client of the sidecar relies on nothing more.          *)
(***************************************************************************)
EXTENDS Naturals, Sequences

CONSTANT Ids    \* job numbers; 0 is not one of them

VARIABLES
  current,  \* the job the service knows, 0 for none
  status,   \* the state of each job
  log       \* the event log of each job

jobServiceVars == <<current, status, log>>

Running  == {"streaming", "paused"}
Blank    == [j \in Ids |-> "none"]
EmptyLog == [j \in Ids |-> <<>>]

JobInit == current = 0 /\ status = Blank /\ log = EmptyLog

SetStatus(j, s) == status' = [status EXCEPT ![j] = s]
Note(j, e)      == log' = [log EXCEPT ![j] = Append(@, e)]

\* A new job replaces the current one only when that is no longer running.
Start(j) ==
  /\ \A i \in Ids : status[i] \notin Running
  /\ status[j] = "none"
  /\ current' = j /\ SetStatus(j, "streaming")
  /\ UNCHANGED log

Pause ==
  /\ current # 0 /\ status[current] = "streaming"
  /\ SetStatus(current, "paused")
  /\ UNCHANGED <<current, log>>

Resume ==
  /\ current # 0 /\ status[current] = "paused"
  /\ SetStatus(current, "streaming")
  /\ UNCHANGED <<current, log>>

Cancel ==
  /\ current # 0 /\ status[current] \in Running
  /\ SetStatus(current, "cancelled")
  /\ UNCHANGED <<current, log>>

\* Progress and board notifications go to the current job, running or not.
Record(e) ==
  /\ current # 0 /\ e \in {"progress", "action"}
  /\ Note(current, e)
  /\ UNCHANGED <<current, status>>

Complete(j) ==
  /\ status[j] \in Running
  /\ SetStatus(j, "completed") /\ Note(j, "complete")
  /\ UNCHANGED current

\* A cancelled job may still fail before its worker is gone.
Fail(j) ==
  /\ status[j] \in Running \cup {"cancelled"}
  /\ SetStatus(j, "error") /\ Note(j, "error")
  /\ UNCHANGED current

\* The process dies and forgets; the next one may remember one job's loss.
Forget ==
  /\ current' = 0 /\ status' = Blank /\ log' = EmptyLog

Recover(j) ==
  /\ JobInit
  /\ current' = j
  /\ SetStatus(j, "orphaned") /\ Note(j, "error")

JobNext ==
  \/ \E j \in Ids : Start(j) \/ Complete(j) \/ Fail(j) \/ Recover(j)
  \/ Pause \/ Resume \/ Cancel
  \/ \E e \in {"progress", "action"} : Record(e)
  \/ Forget

JobSpec == JobInit /\ [][JobNext]_jobServiceVars

=============================================================================
