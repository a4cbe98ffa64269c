--------------------------- MODULE MachineService ---------------------------
(***************************************************************************)
(* The machine-control service of the FiberPath sidecar                    *)
(* (fiberpath_api/machine.py): the singleton that owns the serial          *)
(* connection, the background streaming job and the crash-recovery         *)
(* snapshot on disk.                                                       *)
(*                                                                         *)
(* Three kinds of threads interleave: request threads (FastAPI runs every  *)
(* route handler in a thread pool), one worker thread per streaming job,   *)
(* and the board behind MarlinHost.  A request that holds the service lock *)
(* without waiting for anything is one action; a request that waits for    *)
(* the board or for a thread is split where it waits.                      *)
(*                                                                         *)
(* MarlinHost belongs to the marlin-host package.  It is modelled from its *)
(* use here: a host has an open connection, a pause flag, a stop flag and  *)
(* a halt flag, and stream() looks at them between two lines.              *)
(***************************************************************************)
EXTENDS Integers, Sequences, FiniteSets

CONSTANTS
  Clients,     \* request threads
  Nobody,      \* the holder of a free lock
  MaxJobs,     \* bound: job ids issued by one process
  MaxHosts,    \* bound: connections opened by one process
  MaxLines,    \* bound: streamable lines of a program
  Programs,    \* how many streamable lines the programs sent to it have
  MaxActions,  \* bound: events of a job's log up to which the board may notify
  MaxCrashes,  \* bound: process crashes
  DiskFaults,  \* TRUE when snapshot I/O may fail (OSError is swallowed)
  StopReset    \* where MarlinHost.stream forgets a stop: "at_start", "at_end"

ASSUME MachineAssumption ==
  /\ Nobody \notin Clients
  /\ MaxJobs \in Nat /\ MaxHosts \in Nat /\ MaxLines \in Nat
  /\ MaxActions \in Nat /\ MaxCrashes \in Nat
  /\ Programs \subseteq 0..MaxLines
  /\ DiskFaults \in BOOLEAN
  /\ StopReset \in {"at_start", "at_end"}

JobIds  == 1..MaxJobs
HostIds == 1..MaxHosts

VARIABLES
  up,       \* the sidecar process is running
  crashes,  \* how often it has died
  lock,     \* the thread that keeps _lock across a wait, or Nobody
  host,     \* _host: the current MarlinHost, 0 for None
  hosts,    \* the MarlinHost objects
  conns,    \* how many MarlinHost objects this process has connected
  state,    \* _state
  job,      \* _job: the id of the current job, 0 for None
  jobs,     \* the Job objects, by number
  counter,  \* _job_counter
  thread,   \* _thread: the job whose worker was started last, 0 for None
  worker,   \* the worker threads, by job number
  client,   \* the request threads: where each is, and what it has read
  snap,     \* the recovery snapshot on disk
  fresh     \* _last_persist is not 0.0: writes are throttled

proc    == <<up, crashes>>
conn    == <<host, hosts, conns>>
jobvars == <<job, jobs, counter>>
threads == <<thread, worker>>
disk    == <<snap, fresh>>
vars    == <<proc, lock, conn, state, jobvars, threads, client, disk>>

-----------------------------------------------------------------------------
(* Job, worker and host objects *)

ActiveJobStates == {"streaming", "paused"}
JobStates  == ActiveJobStates \cup {"completed", "cancelled", "error", "orphaned"}
EventTypes == {"progress", "action", "error", "complete"}
RunningAt  == {"ready", "between", "sending", "acked", "ended", "raised"}

NoJob      == [state |-> "none", total |-> 0, sent |-> 0, events |-> <<>>]
NoWorker   == [at |-> "none", host |-> 0, sent |-> 0]
ClosedHost == [open |-> FALSE, paused |-> FALSE, stop |-> FALSE, halted |-> FALSE]
NoSnapshot == [id |-> 0, state |-> "none", total |-> 0, sent |-> 0]
Idle       == [at |-> "idle", ref |-> 0]

\* Mutant: a paused job does not count as active.
CurrentStreaming == job # 0 /\ jobs[job].state = "streaming"

Active(j)     == jobs[j].state \in ActiveJobStates
CurrentActive == job # 0 /\ Active(job)
HostReady     == host # 0 /\ hosts[host].open
Alive(w)      == w # 0 /\ worker[w].at \in RunningAt
Died(w)       == worker[w].at = "died"

\* Mutant: the lock excludes nobody.
LockIgnored == up

\* A request thread that is not busy, and the moment it takes a free lock.
Request(c) == up /\ client[c].at = "idle"
Locked     == up /\ lock = Nobody

\* _persist_job: best effort, so a failed write leaves the old file.
Persist(j, js) ==
  \/ snap' = [id |-> j, state |-> js[j].state,
              total |-> js[j].total, sent |-> js[j].sent]
  \/ DiskFaults /\ snap' = snap

\* Mutants: one half of _clear_persisted each.
ClearKeepsFile == fresh' = FALSE /\ UNCHANGED snap
ClearKeepsThrottle ==
  /\ UNCHANGED fresh
  /\ snap' = NoSnapshot \/ (DiskFaults /\ snap' = snap)

\* _clear_persisted: forget the throttle and unlink the file, if the OS lets us.
ClearPersisted ==
  /\ fresh' = FALSE
  /\ snap' = NoSnapshot \/ (DiskFaults /\ snap' = snap)

-----------------------------------------------------------------------------
(* The process starts: __init__ with an empty memory, then _recover_orphaned *)

NoHosts   == [h \in HostIds |-> ClosedHost]
NoJobs    == [j \in JobIds |-> NoJob]
NoWorkers == [w \in JobIds |-> NoWorker]
AllIdle   == [c \in Clients |-> Idle]

Init ==
  /\ up = TRUE /\ crashes = 0
  /\ lock = Nobody
  /\ host = 0 /\ hosts = NoHosts /\ conns = 0
  /\ state = "disconnected"
  /\ job = 0 /\ jobs = NoJobs /\ counter = 0
  /\ thread = 0 /\ worker = NoWorkers
  /\ client = AllIdle
  /\ snap = NoSnapshot /\ fresh = FALSE

\* The process dies between any two steps: the memory is gone, the OS closes
\* the port, the snapshot stays on disk.
Crash ==
  /\ up /\ crashes < MaxCrashes
  /\ up' = FALSE /\ crashes' = crashes + 1
  /\ lock' = Nobody
  /\ host' = 0 /\ hosts' = NoHosts /\ conns' = 0
  /\ state' = "disconnected"
  /\ job' = 0 /\ jobs' = NoJobs /\ counter' = 0
  /\ thread' = 0 /\ worker' = NoWorkers
  /\ client' = AllIdle
  /\ fresh' = FALSE
  /\ UNCHANGED snap

\* Mutant: the recovered job has no error event.
TombstoneSilent == [state |-> "orphaned", total |-> snap.total,
                    sent |-> snap.sent, events |-> <<>>]

Tombstone == [state |-> "orphaned", total |-> snap.total,
              sent |-> snap.sent, events |-> <<"error">>]

Restart ==
  /\ ~up /\ up' = TRUE
  /\ \/ /\ snap.state \in ActiveJobStates
        /\ job' = snap.id /\ counter' = snap.id
        /\ jobs' = [jobs EXCEPT ![snap.id] = Tombstone]
        /\ ClearPersisted
     \/ /\ snap.id # 0 /\ snap.state \notin ActiveJobStates
        /\ ClearPersisted
        /\ UNCHANGED jobvars
     \/ /\ snap.id = 0 \/ DiskFaults      \* no file, or it cannot be read
        /\ UNCHANGED <<jobvars, disk>>
  /\ UNCHANGED <<crashes, lock, conn, state, threads, client>>

-----------------------------------------------------------------------------
(* connect: the lock is kept while the board answers the handshake *)

ConnectBegin(c) ==
  /\ Request(c) /\ Locked
  /\ ~HostReady
  /\ conns < MaxHosts
  /\ lock' = c
  /\ client' = [client EXCEPT ![c] = [at |-> "connecting", ref |-> 0]]
  /\ UNCHANGED <<proc, conn, state, jobvars, threads, disk>>

ConnectOk(c) ==
  /\ client[c].at = "connecting"
  /\ conns' = conns + 1
  /\ hosts' = [hosts EXCEPT ![conns + 1] = [ClosedHost EXCEPT !.open = TRUE]]
  /\ host' = conns + 1
  /\ state' = "connected"
  /\ lock' = Nobody
  /\ client' = [client EXCEPT ![c] = Idle]
  /\ UNCHANGED <<proc, jobvars, threads, disk>>

ConnectFail(c) ==
  /\ client[c].at = "connecting"
  /\ lock' = Nobody
  /\ client' = [client EXCEPT ![c] = Idle]
  /\ UNCHANGED <<proc, conn, state, jobvars, threads, disk>>

-----------------------------------------------------------------------------
(* disconnect: read _thread, cancel under the lock, join, close under it *)

DisconnectRead(c) ==
  /\ Request(c)
  /\ client' = [client EXCEPT ![c] = [at |-> "cancelling", ref |-> thread]]
  /\ UNCHANGED <<proc, lock, conn, state, jobvars, threads, disk>>

DisconnectCancel(c) ==
  /\ Locked /\ client[c].at = "cancelling"
  /\ client' = [client EXCEPT ![c].at = "joining"]
  /\ \/ /\ CurrentActive /\ host # 0
        /\ hosts' = [hosts EXCEPT ![host].paused = FALSE, ![host].stop = TRUE]
        /\ jobs' = [jobs EXCEPT ![job].state = "cancelled"]
     \/ /\ ~CurrentActive \/ host = 0
        /\ UNCHANGED <<hosts, jobs>>
  /\ UNCHANGED <<proc, lock, host, conns, state, job, counter, threads, disk>>

DisconnectJoined(c) ==
  /\ client[c].at = "joining" /\ ~Alive(client[c].ref)
  /\ client' = [client EXCEPT ![c] = [at |-> "closing", ref |-> 0]]
  /\ UNCHANGED <<proc, lock, conn, state, jobvars, threads, disk>>

\* Mutant: thread.join() without a timeout.
JoinForever(c) == FALSE

\* thread.join(timeout=10.0) gives up on a worker that is still alive.
JoinTimeout(c) ==
  /\ client[c].at = "joining" /\ Alive(client[c].ref)
  /\ client' = [client EXCEPT ![c] = [at |-> "closing", ref |-> 0]]
  /\ UNCHANGED <<proc, lock, conn, state, jobvars, threads, disk>>

DisconnectClose(c) ==
  /\ Locked /\ client[c].at = "closing"
  /\ \/ host # 0 /\ hosts' = [hosts EXCEPT ![host].open = FALSE]
     \/ host = 0 /\ UNCHANGED hosts
  /\ host' = 0
  /\ state' = "disconnected"
  /\ ClearPersisted
  /\ client' = [client EXCEPT ![c] = Idle]
  /\ UNCHANGED <<proc, lock, conns, jobvars, threads>>

-----------------------------------------------------------------------------
(* send_command: the lock is kept while the board answers the query *)

QueryBegin(c) ==
  /\ Request(c) /\ Locked
  /\ HostReady
  /\ ~(job # 0 /\ jobs[job].state = "streaming")
  /\ lock' = c
  /\ client' = [client EXCEPT ![c] = [at |-> "querying", ref |-> host]]
  /\ UNCHANGED <<proc, conn, state, jobvars, threads, disk>>

\* The query returns, or raises; a failing board may drop the connection.
QueryEnd(c) ==
  /\ client[c].at = "querying"
  /\ \E open \in {hosts[client[c].ref].open, FALSE} :
       hosts' = [hosts EXCEPT ![client[c].ref].open = open]
  /\ lock' = Nobody
  /\ client' = [client EXCEPT ![c] = Idle]
  /\ UNCHANGED <<proc, host, conns, state, jobvars, threads, disk>>

-----------------------------------------------------------------------------
(* Jobs, as seen from the request threads *)

StartJob(c, n) ==
  LET j == counter + 1 IN
  /\ Request(c) /\ Locked
  /\ HostReady
  /\ ~CurrentActive
  /\ counter < MaxJobs
  /\ counter' = j /\ job' = j
  /\ jobs' = [jobs EXCEPT ![j] = [NoJob EXCEPT !.state = "streaming", !.total = n]]
  /\ state' = "streaming"
  /\ Persist(j, jobs') /\ fresh' = TRUE
  /\ thread' = j
  /\ worker' = [worker EXCEPT ![j] = [at |-> "ready", host |-> host, sent |-> 0]]
  /\ UNCHANGED <<proc, lock, conn, client>>

\* pause_job, resume_job and cancel_job look the id up first (only the current
\* job is known), then act on the host whatever state the job is in.
KnownJob(c) == Request(c) /\ Locked /\ job # 0 /\ HostReady

PauseJob(c) ==
  /\ KnownJob(c)
  /\ hosts' = [hosts EXCEPT ![host].paused = TRUE]
  /\ jobs' = [jobs EXCEPT ![job].state = IF @ = "streaming" THEN "paused" ELSE @]
  /\ state' = "paused"
  /\ Persist(job, jobs')
  /\ UNCHANGED <<proc, lock, host, conns, job, counter, threads, client, fresh>>

ResumeJob(c) ==
  /\ KnownJob(c)
  /\ hosts' = [hosts EXCEPT ![host].paused = FALSE]
  /\ jobs' = [jobs EXCEPT ![job].state = IF @ = "paused" THEN "streaming" ELSE @]
  /\ state' = "streaming"
  /\ Persist(job, jobs')
  /\ UNCHANGED <<proc, lock, host, conns, job, counter, threads, client, fresh>>

\* Mutant: a cancel marks a job that is over, too.
CancelJobAlways(c) ==
  /\ KnownJob(c)
  /\ hosts' = [hosts EXCEPT ![host].paused = FALSE, ![host].stop = TRUE]
  /\ jobs' = [jobs EXCEPT ![job].state = "cancelled"]
  /\ ClearPersisted
  /\ UNCHANGED <<proc, lock, host, conns, state, job, counter, threads, client>>

CancelJob(c) ==
  /\ KnownJob(c)
  /\ hosts' = [hosts EXCEPT ![host].paused = FALSE, ![host].stop = TRUE]
  /\ jobs' = [jobs EXCEPT ![job].state =
                IF @ \in ActiveJobStates THEN "cancelled" ELSE @]
  /\ ClearPersisted
  /\ UNCHANGED <<proc, lock, host, conns, state, job, counter, threads, client>>

\* emergency_stop takes no lock: it reads _host, connected or not, ...
EstopRead(c) ==
  /\ Request(c) /\ host # 0
  /\ client' = [client EXCEPT ![c] = [at |-> "halting", ref |-> host]]
  /\ UNCHANGED <<proc, lock, conn, state, jobvars, threads, disk>>

\* ... writes M112 to that host, which may raise, ...
EstopWrite(c) ==
  /\ client[c].at = "halting"
  /\ \/ /\ hosts' = [hosts EXCEPT ![client[c].ref].halted = TRUE]
        /\ client' = [client EXCEPT ![c].at = "estop"]
     \/ /\ client' = [client EXCEPT ![c] = Idle]
        /\ UNCHANGED hosts
  /\ UNCHANGED <<proc, lock, host, conns, state, jobvars, threads, disk>>

\* ... and marks the service.
EstopMark(c) ==
  /\ client[c].at = "estop"
  /\ state' = "error"
  /\ client' = [client EXCEPT ![c] = Idle]
  /\ UNCHANGED <<proc, lock, conn, jobvars, threads, disk>>

-----------------------------------------------------------------------------
(* The worker thread: _run_job over MarlinHost.stream *)

StreamHost(w) == hosts[worker[w].host]
MoveTo(w, at) == worker' = [worker EXCEPT ![w].at = at]

\* A stop asked of one stream is forgotten before the next one on the host.
ForgetStop(w, when) ==
  IF StopReset = when THEN hosts' = [hosts EXCEPT ![worker[w].host].stop = FALSE]
                      ELSE UNCHANGED hosts

\* stream() begins.
WorkerBegin(w) ==
  /\ worker[w].at = "ready"
  /\ MoveTo(w, "between")
  /\ ForgetStop(w, "at_start")
  /\ UNCHANGED <<proc, lock, host, conns, state, jobvars, thread, client, disk>>

\* stream() writes the next line when nothing holds it back.
WorkerSend(w) ==
  /\ worker[w].at = "between" /\ worker[w].sent < jobs[w].total
  /\ StreamHost(w).open /\ ~StreamHost(w).halted
  /\ ~StreamHost(w).paused /\ ~StreamHost(w).stop
  /\ MoveTo(w, "sending")
  /\ UNCHANGED <<proc, lock, conn, state, jobvars, thread, client, disk>>

\* Mutant: an acknowledged line is counted twice.
WorkerAckTwice(w) ==
  /\ worker[w].at = "sending" /\ StreamHost(w).open
  /\ worker' = [worker EXCEPT ![w].at = "acked", ![w].sent = @ + 2]
  /\ UNCHANGED <<proc, lock, conn, state, jobvars, thread, client, disk>>

\* The board acknowledges the line and stream() yields a StreamProgress.
WorkerAck(w) ==
  /\ worker[w].at = "sending" /\ StreamHost(w).open
  /\ worker' = [worker EXCEPT ![w].at = "acked", ![w].sent = @ + 1]
  /\ UNCHANGED <<proc, lock, conn, state, jobvars, thread, client, disk>>

\* stream() returns: every line is out, or it sees the stop flag.
WorkerEnd(w) ==
  /\ worker[w].at = "between"
  /\ \/ worker[w].sent = jobs[w].total
     \/ StreamHost(w).stop /\ ~StreamHost(w).paused
  /\ MoveTo(w, "ended")
  /\ ForgetStop(w, "at_end")
  /\ UNCHANGED <<proc, lock, host, conns, state, jobvars, thread, client, disk>>

\* Mutant: only a line that fails raises, not a host found halted or closed.
WorkerRaiseInLine(w) ==
  /\ worker[w].at = "sending"
  /\ MoveTo(w, "raised")
  /\ UNCHANGED <<proc, lock, conn, state, jobvars, thread, client, disk>>

\* stream() raises: the board fails a line, or the next line meets a halted or
\* closed host.  A failing board may drop the connection.  Of an exception that
\* _run_job does not catch the thread dies, and the job stays as it is.
WorkerRaise(w) ==
  /\ \/ worker[w].at = "sending"
     \/ /\ worker[w].at = "between" /\ worker[w].sent < jobs[w].total
        /\ ~StreamHost(w).paused
        /\ StreamHost(w).halted \/ ~StreamHost(w).open
  /\ MoveTo(w, "raised") \/ MoveTo(w, "died")
  /\ \E open \in {StreamHost(w).open, FALSE} :
       hosts' = [hosts EXCEPT ![worker[w].host].open = open]
  /\ UNCHANGED <<proc, lock, host, conns, state, jobvars, thread, client, disk>>

\* _on_progress records into _job, whichever job that is by now, and refreshes
\* the snapshot when the throttle allows.
OnProgress(w) ==
  /\ Locked /\ worker[w].at = "acked"
  /\ MoveTo(w, "between")
  /\ jobs' = [jobs EXCEPT ![job].sent = worker[w].sent,
                          ![job].events = Append(@, "progress")]
  /\ \/ Persist(job, jobs') /\ fresh' = TRUE
     \/ fresh /\ UNCHANGED disk
  /\ UNCHANGED <<proc, lock, conn, state, job, counter, thread, client>>

\* The except branch of _run_job.
SettleError(w) ==
  /\ Locked /\ worker[w].at = "raised"
  /\ MoveTo(w, "done")
  /\ jobs' = [jobs EXCEPT ![w].state = "error", ![w].events = Append(@, "error")]
  /\ state' = "error"
  /\ ClearPersisted
  /\ UNCHANGED <<proc, lock, conn, job, counter, thread, client>>

\* Mutant: the worker completes its job even if it was cancelled.
SettleEndUnchecked(w) ==
  /\ Locked /\ worker[w].at = "ended"
  /\ MoveTo(w, "done")
  /\ jobs' = [jobs EXCEPT ![w].state = "completed",
                          ![w].events = Append(@, "complete")]
  /\ state' = IF state = "error" THEN state ELSE "connected"
  /\ ClearPersisted
  /\ UNCHANGED <<proc, lock, conn, job, counter, thread, client>>

\* The else branch of _run_job.
SettleEnd(w) ==
  /\ Locked /\ worker[w].at = "ended"
  /\ MoveTo(w, "done")
  /\ \/ /\ jobs[w].state \notin {"cancelled", "error"}
        /\ jobs' = [jobs EXCEPT ![w].state = "completed",
                                ![w].events = Append(@, "complete")]
     \/ /\ jobs[w].state \in {"cancelled", "error"}
        /\ UNCHANGED jobs
  /\ state' = IF state = "error" THEN state ELSE "connected"
  /\ ClearPersisted
  /\ UNCHANGED <<proc, lock, conn, job, counter, thread, client>>

\* _record_action runs in the thread that reads the board: a worker waiting for
\* its ok, which must take the lock, or a handshake or query, which holds it.
BoardAction ==
  /\ job # 0 /\ Len(jobs[job].events) < MaxActions
  /\ \/ Locked /\ \E w \in JobIds : worker[w].at = "sending"
     \/ \E c \in Clients : client[c].at \in {"connecting", "querying"}
  /\ jobs' = [jobs EXCEPT ![job].events = Append(@, "action")]
  /\ UNCHANGED <<proc, lock, conn, state, job, counter, threads, client, disk>>

-----------------------------------------------------------------------------

ClientStep(c) ==
  \/ ConnectBegin(c) \/ ConnectOk(c) \/ ConnectFail(c)
  \/ DisconnectRead(c) \/ DisconnectCancel(c) \/ DisconnectJoined(c)
  \/ JoinTimeout(c) \/ DisconnectClose(c)
  \/ QueryBegin(c) \/ QueryEnd(c)
  \/ \E n \in Programs : StartJob(c, n)
  \/ PauseJob(c) \/ ResumeJob(c) \/ CancelJob(c)
  \/ EstopRead(c) \/ EstopWrite(c) \/ EstopMark(c)

WorkerStep(w) ==
  \/ WorkerBegin(w) \/ WorkerSend(w) \/ WorkerAck(w) \/ WorkerEnd(w)
  \/ WorkerRaise(w) \/ OnProgress(w) \/ SettleError(w) \/ SettleEnd(w)

Next ==
  \/ Crash \/ Restart
  \/ \E c \in Clients : ClientStep(c)
  \/ \E w \in JobIds : WorkerStep(w)
  \/ BoardAction

Spec == Init /\ [][Next]_vars

-----------------------------------------------------------------------------
(* Fairness: threads that can run do run, the board answers or the idle      *)
(* timeout raises, and a thread that waits for the lock gets it in the end   *)
(* although others take it in between.  Users are never obliged to act.      *)

WorkerRuns(w) ==
  WorkerBegin(w) \/ WorkerSend(w) \/ WorkerAck(w) \/ WorkerEnd(w) \/ WorkerRaise(w)

Fairness ==
  /\ WF_vars(Restart)
  /\ \A w \in JobIds :
       /\ WF_vars(WorkerRuns(w))
       /\ SF_vars(OnProgress(w) \/ SettleError(w) \/ SettleEnd(w))
  /\ \A c \in Clients :
       /\ WF_vars(ConnectOk(c) \/ ConnectFail(c))
       /\ WF_vars(QueryEnd(c))
       /\ WF_vars(DisconnectJoined(c) \/ JoinTimeout(c))
       /\ SF_vars(DisconnectCancel(c) \/ DisconnectClose(c))
       /\ WF_vars(EstopWrite(c) \/ EstopMark(c))

FairSpec == Spec /\ Fairness

-----------------------------------------------------------------------------
(* Safety *)

HostType     == [open : BOOLEAN, paused : BOOLEAN, stop : BOOLEAN, halted : BOOLEAN]
JobType      == [state : JobStates \cup {"none"}, total : 0..MaxLines,
                 sent : 0..MaxLines, events : Seq(EventTypes)]
WorkerType   == [at : RunningAt \cup {"none", "done", "died"}, host : 0..MaxHosts,
                 sent : 0..MaxLines]
SnapshotType == [id : 0..MaxJobs, state : JobStates \cup {"none"},
                 total : 0..MaxLines, sent : 0..MaxLines]
ClientType   == [at : {"idle", "connecting", "querying", "halting", "estop",
                       "cancelling", "joining", "closing"}, ref : Nat]

\* Every variable stays in its range; in particular a job never counts more
\* lines than the longest program has.
TypeOK ==
  /\ up \in BOOLEAN /\ crashes \in 0..MaxCrashes
  /\ lock \in Clients \cup {Nobody}
  /\ host \in 0..MaxHosts /\ conns \in 0..MaxHosts
  /\ hosts \in [HostIds -> HostType]
  /\ state \in {"disconnected", "connected", "streaming", "paused", "error"}
  /\ job \in 0..MaxJobs /\ counter \in 0..MaxJobs /\ thread \in 0..MaxJobs
  /\ jobs \in [JobIds -> JobType]
  /\ worker \in [JobIds -> WorkerType]
  /\ client \in [Clients -> ClientType]
  /\ snap \in SnapshotType /\ fresh \in BOOLEAN

\* A job shown as streaming or paused is the current one and has a live worker
\* that will settle it: start_job is not refused on behalf of a job nobody drives,
\* unless its thread died of an exception that _run_job does not catch.
ActiveJobHasWorker ==
  \A j \in JobIds : Active(j) => j = job /\ (Alive(j) \/ Died(j))

\* A worker that outlives its job's reign was cancelled: its job is never
\* replaced while it still counts as streaming or paused.
StaleWorkersAreCancelled ==
  \A w \in JobIds : Alive(w) /\ w # job => jobs[w].state = "cancelled"

\* While a manual command is out, its thread owns the lock and no job is in
\* the streaming state, on any host, not even one started meanwhile.
CommandExcludesStreaming ==
  \A c \in Clients : client[c].at = "querying" =>
    lock = c /\ \A j \in JobIds : jobs[j].state # "streaming"

EventCount(j, type) ==
  Cardinality({n \in DOMAIN jobs[j].events : jobs[j].events[n] = type})

\* The event log tells the outcome exactly once, whatever interleaving of
\* cancels, halts and late workers led to it: one "complete" in a completed
\* job, one "error" in a failed or orphaned one, neither in any other.
OutcomeLoggedOnce ==
  \A j \in JobIds :
    /\ EventCount(j, "complete") = IF jobs[j].state = "completed" THEN 1 ELSE 0
    /\ EventCount(j, "error") =
         IF jobs[j].state \in {"error", "orphaned"} THEN 1 ELSE 0

\* _on_progress counts into the current job, whoever reports: a job can show more
\* lines than its own worker has had acknowledged, but only lines of a worker
\* before it whose job was cancelled under it.  Uncancelled, no job is miscounted
\* (a recovered job has no worker any more).
MiscountNeedsLateWorker ==
  \A j \in JobIds : jobs[j].state # "orphaned" /\ jobs[j].sent > worker[j].sent =>
    \E w \in 1..(j - 1) :
      worker[w].sent >= jobs[j].sent /\ jobs[w].state \in {"cancelled", "error"}

\* No false orphan: when snapshot I/O works, a snapshot that a restart would
\* turn into an orphan is the current job's, and that job is active, or a
\* disconnect that cancelled it is about to remove the file.
SnapshotNamesActiveJob ==
  up /\ ~DiskFaults /\ snap.state \in ActiveJobStates =>
    /\ snap.id = job
    /\ \/ Active(job)
       \/ \E c \in Clients : client[c].at \in {"joining", "closing"}

\* The throttle never withholds the write that would restore a lost snapshot:
\* when snapshot I/O works, writes are throttled only while the file on disk is
\* the current job's.  A snapshot removed from under a running job is therefore
\* back with its next acknowledged line.
ThrottledMeansSaved ==
  up /\ ~DiskFaults /\ fresh => snap.id = job

-----------------------------------------------------------------------------
(* Refinement *)

Status == [j \in JobIds |-> jobs[j].state]
Log    == [j \in JobIds |-> jobs[j].events]

Jobs == INSTANCE JobService WITH
          Ids <- JobIds, current <- job, status <- Status, log <- Log

\* Threads, locks, the board and the snapshot file together implement the job
\* service a client relies on; in particular no pause, resume or cancel revives
\* a finished job, a cancelled job is never reported completed, and a restart
\* never reissues the id of the job it reports as orphaned.
ImplementsJobService == Jobs!JobSpec

-----------------------------------------------------------------------------
(* Liveness, under FairSpec *)

\* A disconnect request returns, however long the worker is stuck on the board
\* or on a pause (unless the process dies under it).
DisconnectReturns ==
  \A c \in Clients :
    []<>(client[c].at \notin {"cancelling", "joining", "closing"})

\* An emergency stop ends the job that streams, without the lock's help, unless
\* a pause holds the worker back from the halted board, or the halt reaches
\* _run_job as an exception that it does not catch.
EstopEndsStreaming ==
  \A j \in JobIds :
    []<>(jobs[j].state = "streaming" /\ StreamHost(j).halted
           => StreamHost(j).paused \/ Died(j))

\* Every worker ends, and unless it dies it settles its job, if its host is not
\* paused: neither a cancel, a halt, a closed port nor a busy lock leaves one
\* hanging.
WorkerSettles ==
  \A w \in JobIds : []<>(Alive(w) => StreamHost(w).paused)

-----------------------------------------------------------------------------
(* What the documentation says and the code does not do; see the README *)

\* fiberpath_api/machine.py:15-16: two threads never drive the transport at
\* once.  Counted per host: workers inside a line, request threads inside a
\* query.
SingleWriter ==
  \A h \in HostIds :
    LET workers == {w \in JobIds : worker[w].at = "sending" /\ worker[w].host = h}
        queries == {c \in Clients : client[c] = [at |-> "querying", ref |-> h]}
    IN  /\ workers # {} => queries = {}
        /\ \A v, w \in workers : v = w
=============================================================================
