--------------------------- MODULE MachineSession ---------------------------
(***************************************************************************)
(* The machine session of the desktop GUI                                  *)
(* (fiberpath_gui/src/state/machine-session.svelte.ts) talking to the      *)
(* sidecar over HTTP.                                                      *)
(*                                                                         *)
(* The GUI is one thread, but every operation awaits its call: between the *)
(* click and the reply other clicks, timers and replies are handled, and   *)
(* replies come back in any order.  An action is one turn of the event     *)
(* loop or one step of the sidecar.  The sidecar's jobs are those of       *)
(* JobService, which MachineService is proved to implement; its process    *)
(* may die and is respawned when the next call needs it.                   *)
(***************************************************************************)
EXTENDS Naturals, Sequences, FiniteSets

CONSTANTS
  Users,        \* bound: calls of the user that can be out at once
  Polls,        \* bound: polls that can be out at once
  MaxJobs,      \* bound: jobs one sidecar process is asked for
  MaxEvents,    \* bound: events of a log up to which a worker reports progress
  MaxCrashes,   \* bound: crashes of the sidecar
  MaxReloads,   \* bound: reloads of the GUI's page
  MaxRetries,   \* MAX_POLL_RETRIES
  Faults        \* TRUE when a stop may raise, a port drop, a request or reply be lost

ASSUME SessionAssumption ==
  /\ Users \cap Polls = {}
  /\ MaxJobs \in Nat /\ MaxEvents \in Nat
  /\ MaxCrashes \in Nat /\ MaxReloads \in Nat /\ MaxRetries \in Nat
  /\ Faults \in BOOLEAN

Ids   == 1..MaxJobs
Calls == Users \cup Polls

VARIABLES
  \* the GUI
  status,       \* "disconnected", "connecting", "connected" or "paused"
  isStreaming,
  file,         \* filePath is set
  jobId,        \* #jobId, 0 for null
  since,        \* #since
  retries,      \* #pollRetries
  timer,        \* the timer in #pollTimer is armed
  strays,       \* armed poll timers that #pollTimer no longer names
  loading,      \* streamControlLoading
  call,         \* the calls that have not been dealt with
  shown,        \* history: how many events of #jobId have been shown
  reloads,
  \* the sidecar
  alive, crashes,
  port,         \* "closed" (_host is None), "open", or "dropped" by the board
  current, jobs, log,   \* the job service
  adrift,       \* the current job runs on a host that was closed under it
  lost          \* the job whose snapshot the dead process left, 0 for none

view    == <<status, isStreaming, file, jobId, since, retries, timer, strays,
             loading, shown, reloads>>
service == <<current, jobs, log>>
process == <<alive, crashes, lost>>
sidecar == <<process, port, adrift, service>>
vars    == <<view, call, sidecar>>

Service == INSTANCE JobService WITH status <- jobs

-----------------------------------------------------------------------------
(* Calls: issued by the GUI, handled by the sidecar, answered to the GUI *)

NoCall == [kind |-> "none", at |-> "free", job |-> 0, from |-> 0,
           ok |-> FALSE, state |-> "none", cursor |-> 0, unheard |-> FALSE]

Issue(c, kind, at) ==
  /\ c \in Users /\ call[c].at = "free"
  /\ call' = [call EXCEPT ![c] = [NoCall EXCEPT !.kind = kind, !.at = at, !.job = jobId]]

\* The answer r comes back, unless the page that asked is gone.
Answer(c, r)    == call' = [call EXCEPT ![c] = IF call[c].unheard THEN NoCall ELSE r]
Reply(c, ok)    == Answer(c, [call[c] EXCEPT !.at = "answered", !.ok = ok])
Answered(c, k)  == call[c].at = "answered" /\ call[c].kind = k
Resolved(c)     == call' = [call EXCEPT ![c] = NoCall]
Outstanding(k)  == {c \in Calls : call[c].kind = k}

-----------------------------------------------------------------------------
(* Pieces of the session *)

IsConnected     == status \in {"connected", "paused"}

\* Mutant: a failed job does not end the poll loop.
FailureGoesOn   == {"completed", "cancelled", "orphaned"}
\* Mutant: a pause ends the poll loop.
PauseEnds       == {"completed", "cancelled", "error", "orphaned", "paused"}

\* isTerminalJobState; "disconnected" is not a state of a job.
TerminalStates  == {"completed", "cancelled", "error", "orphaned"}

\* #schedulePoll: the timer that #pollTimer named goes on, if it was armed.
SchedulePoll ==
  /\ timer' = TRUE
  /\ strays' = IF timer THEN strays + 1 ELSE strays

\* #endJob: only the timer in #pollTimer is cleared.
EndJob(s) ==
  /\ timer' = FALSE
  /\ jobId' = 0 /\ since' = 0 /\ retries' = 0
  /\ isStreaming' = FALSE
  /\ status' = s

-----------------------------------------------------------------------------
(* Connection *)

Connect(c) ==
  /\ status = "disconnected"
  /\ status' = "connecting"
  /\ Issue(c, "connect", "sent")
  /\ UNCHANGED <<isStreaming, file, jobId, since, retries, timer, strays, loading,
                 shown, reloads, sidecar>>

Connected(c) ==
  /\ Answered(c, "connect") /\ Resolved(c)
  /\ \/ /\ call[c].ok
        /\ status' = "connected"
        /\ isStreaming' = FALSE /\ file' = FALSE
     \/ /\ ~call[c].ok
        /\ status' = "disconnected"
        /\ UNCHANGED <<isStreaming, file>>
  /\ UNCHANGED <<jobId, since, retries, timer, strays, loading, shown, reloads, sidecar>>

Disconnect(c) ==
  /\ IsConnected
  /\ Issue(c, "disconnect", "sent")
  /\ UNCHANGED <<view, sidecar>>

Disconnected(c) ==
  /\ Answered(c, "disconnect") /\ Resolved(c)
  /\ \/ /\ call[c].ok
        /\ EndJob("disconnected")
        /\ file' = FALSE
     \/ /\ ~call[c].ok
        /\ UNCHANGED <<timer, jobId, since, retries, isStreaming, status, file>>
  /\ UNCHANGED <<strays, loading, shown, reloads, sidecar>>

-----------------------------------------------------------------------------
(* File and start of a stream *)

PickFile ==
  /\ ~isStreaming
  /\ file' = ~file            \* selectFile, clearFile
  /\ UNCHANGED <<status, isStreaming, jobId, since, retries, timer, strays, loading,
                 shown, reloads, call, sidecar>>

StartStream(c) ==
  /\ file /\ IsConnected /\ ~isStreaming
  /\ current + Cardinality(Outstanding("start")) < MaxJobs
  /\ Issue(c, "start", "reading")
  /\ UNCHANGED <<view, sidecar>>

\* loadWindFile returns the program or throws.
FileRead(c) ==
  /\ call[c].at = "reading"
  /\ \/ call' = [call EXCEPT ![c].at = "sent"]
     \/ Resolved(c)
  /\ UNCHANGED <<view, sidecar>>

\* Mutant: a session that streams already leaves the poll to its loop.
StartedReusesLoop(c) ==
  /\ Answered(c, "start") /\ Resolved(c)
  /\ \/ /\ call[c].ok
        /\ jobId' = call[c].job /\ since' = 0 /\ shown' = 0
        /\ isStreaming' = TRUE /\ status' = "connected"
        /\ timer' = (timer \/ ~isStreaming) /\ UNCHANGED strays
     \/ /\ ~call[c].ok
        /\ UNCHANGED <<jobId, since, shown, isStreaming, status, timer, strays>>
  /\ UNCHANGED <<file, retries, loading, reloads, sidecar>>

Started(c) ==
  /\ Answered(c, "start") /\ Resolved(c)
  /\ \/ /\ call[c].ok
        /\ jobId' = call[c].job /\ since' = 0 /\ shown' = 0
        /\ isStreaming' = TRUE /\ status' = "connected"
        /\ SchedulePoll
     \/ /\ ~call[c].ok
        /\ UNCHANGED <<jobId, since, shown, isStreaming, status, timer, strays>>
  /\ UNCHANGED <<file, retries, loading, reloads, sidecar>>

-----------------------------------------------------------------------------
(* The poll loop *)

\* A timer fires: #poll asks for the events since the cursor, if there is a job.
PollTick(p) ==
  /\ \/ timer /\ timer' = FALSE /\ UNCHANGED strays
     \/ strays > 0 /\ strays' = strays - 1 /\ UNCHANGED timer
  /\ \/ /\ jobId # 0
        /\ p \in Polls /\ call[p].at = "free"
        /\ call' = [call EXCEPT ![p] = [NoCall EXCEPT !.kind = "poll", !.at = "sent",
                                                   !.job = jobId, !.from = since]]
     \/ jobId = 0 /\ UNCHANGED call
  /\ UNCHANGED <<status, isStreaming, file, jobId, since, retries, loading, shown,
                 reloads, sidecar>>

\* The job was ended, or another started, while the request was in flight.
PollStale(p) ==
  /\ Answered(p, "poll") /\ Resolved(p)
  /\ jobId # call[p].job
  /\ UNCHANGED <<view, sidecar>>

\* Mutant: one retry more than allowed.
PollFailedOneMore(p) ==
  /\ Answered(p, "poll") /\ Resolved(p)
  /\ jobId = call[p].job /\ ~call[p].ok
  /\ retries' = retries + 1
  /\ IF retries <= MaxRetries
     THEN SchedulePoll /\ UNCHANGED <<jobId, since, isStreaming, status>>
     ELSE timer' = FALSE /\ jobId' = 0 /\ since' = 0 /\ isStreaming' = FALSE
          /\ status' = "connected" /\ UNCHANGED strays
  /\ UNCHANGED <<file, loading, shown, reloads, sidecar>>

\* A failed poll is retried a few times, then the job is given up.
PollFailed(p) ==
  /\ Answered(p, "poll") /\ Resolved(p)
  /\ jobId = call[p].job /\ ~call[p].ok
  /\ \/ /\ retries < MaxRetries
        /\ retries' = retries + 1
        /\ SchedulePoll
        /\ UNCHANGED <<jobId, since, isStreaming, status>>
     \/ /\ retries >= MaxRetries
        /\ EndJob("connected")
        /\ UNCHANGED strays
  /\ UNCHANGED <<file, loading, shown, reloads, sidecar>>

\* A prior sidecar died in the middle of the job.
PollOrphaned(p) ==
  /\ Answered(p, "poll") /\ Resolved(p)
  /\ jobId = call[p].job /\ call[p].ok
  /\ call[p].state = "orphaned"
  /\ EndJob("disconnected")
  /\ UNCHANGED <<strays, file, loading, shown, reloads, sidecar>>

\* Mutant: the job is not looked at again after the request.
PollAppliedLate(p) ==
  /\ Answered(p, "poll") /\ Resolved(p)
  /\ jobId # 0 /\ call[p].ok
  /\ call[p].state # "orphaned"
  /\ shown' = shown + Cardinality(call[p].from + 1 .. call[p].cursor)
  /\ \/ /\ call[p].state \in TerminalStates
        /\ EndJob("connected")
        /\ UNCHANGED strays
     \/ /\ call[p].state \notin TerminalStates
        /\ since' = call[p].cursor /\ retries' = 0
        /\ status' = IF call[p].state = "paused" THEN "paused" ELSE "connected"
        /\ SchedulePoll
        /\ UNCHANGED <<jobId, isStreaming>>
  /\ UNCHANGED <<file, loading, reloads, sidecar>>

\* The new events are shown; then the job ends or the next tick is scheduled.
PollApplied(p) ==
  /\ Answered(p, "poll") /\ Resolved(p)
  /\ jobId = call[p].job /\ call[p].ok
  /\ call[p].state # "orphaned"
  /\ shown' = shown + Cardinality(call[p].from + 1 .. call[p].cursor)
  /\ \/ /\ call[p].state \in TerminalStates
        /\ EndJob("connected")
        /\ UNCHANGED strays
     \/ /\ call[p].state \notin TerminalStates
        /\ since' = call[p].cursor /\ retries' = 0
        /\ status' = IF call[p].state = "paused" THEN "paused" ELSE "connected"
        /\ SchedulePoll
        /\ UNCHANGED <<jobId, isStreaming>>
  /\ UNCHANGED <<file, loading, reloads, sidecar>>

-----------------------------------------------------------------------------
(* Stream controls: one at a time, by streamControlLoading *)

Control(c, kind) ==
  /\ ~loading /\ loading' = TRUE
  /\ Issue(c, kind, "sent")
  /\ UNCHANGED <<status, isStreaming, file, jobId, since, retries, timer, strays,
                 shown, reloads, sidecar>>

\* The buttons offer Pause while streaming, Resume and Cancel while paused.
Pause(c)  == jobId # 0 /\ isStreaming /\ status # "paused" /\ Control(c, "pause")
Resume(c) == jobId # 0 /\ isStreaming /\ status = "paused" /\ Control(c, "resume")
Cancel(c) == jobId # 0 /\ isStreaming /\ status = "paused" /\ Control(c, "cancel")

\* Stop while streaming, E-Stop whenever manual control is enabled.
Stop(c) == (isStreaming \/ IsConnected) /\ Control(c, "stop")

Paused(c) ==
  /\ Answered(c, "pause") /\ Resolved(c)
  /\ status' = IF call[c].ok THEN "paused" ELSE status
  /\ loading' = FALSE
  /\ UNCHANGED <<isStreaming, file, jobId, since, retries, timer, strays, shown,
                 reloads, sidecar>>

Resumed(c) ==
  /\ Answered(c, "resume") /\ Resolved(c)
  /\ status' = IF call[c].ok THEN "connected" ELSE status
  /\ loading' = FALSE
  /\ UNCHANGED <<isStreaming, file, jobId, since, retries, timer, strays, shown,
                 reloads, sidecar>>

\* Answered or refused, the job is over for the session.
Cancelled(c) ==
  /\ Answered(c, "cancel") /\ Resolved(c)
  /\ EndJob("connected")
  /\ loading' = FALSE
  /\ UNCHANGED <<file, strays, shown, reloads, sidecar>>

\* Mutant: a failed stop keeps the controls locked.
StopFailedLocks(c) ==
  /\ Answered(c, "stop") /\ ~call[c].ok /\ Resolved(c)
  /\ EndJob("disconnected")
  /\ UNCHANGED <<loading, file, strays, shown, reloads, sidecar>>

\* The stop went out: the connection is closed too, best effort.
StopSent(c) ==
  /\ Answered(c, "stop") /\ call[c].ok
  /\ call' = [call EXCEPT ![c] = [NoCall EXCEPT !.kind = "close", !.at = "sent"]]
  /\ UNCHANGED <<view, sidecar>>

StopFailed(c) ==
  /\ Answered(c, "stop") /\ ~call[c].ok /\ Resolved(c)
  /\ EndJob("disconnected")
  /\ loading' = FALSE
  /\ UNCHANGED <<file, strays, shown, reloads, sidecar>>

Stopped(c) ==
  /\ Answered(c, "close") /\ Resolved(c)
  /\ EndJob("disconnected")
  /\ loading' = FALSE
  /\ UNCHANGED <<file, strays, shown, reloads, sidecar>>

\* What the sidecar may still act on of a call whose page is gone (polls change
\* nothing there).
LeftBehind(r) ==
  IF alive /\ r.at \in {"sent", "closing"} /\ r.kind # "poll"
  THEN [r EXCEPT !.unheard = TRUE] ELSE NoCall

\* The page is reloaded: a new session, without the timers of the old one, and
\* nobody hears the answers to its calls.
Reload ==
  /\ reloads < MaxReloads /\ reloads' = reloads + 1
  /\ status' = "disconnected" /\ isStreaming' = FALSE /\ file' = FALSE
  /\ jobId' = 0 /\ since' = 0 /\ retries' = 0 /\ timer' = FALSE /\ strays' = 0
  /\ loading' = FALSE /\ shown' = 0
  /\ call' = [c \in Calls |-> LeftBehind(call[c])]
  /\ UNCHANGED sidecar

-----------------------------------------------------------------------------
(* The sidecar: its routes, as far as a session can tell *)

Handles(c, kind) == alive /\ call[c].at = "sent" /\ call[c].kind = kind
JobRunning == current # 0 /\ jobs[current] \in Service!Running
KnownJob(c) == current # 0 /\ current = call[c].job

ServeConnect(c) ==
  /\ Handles(c, "connect")
  /\ \/ port # "open" /\ port' = "open" /\ Reply(c, TRUE)
     \/ UNCHANGED port /\ Reply(c, FALSE)     \* already connected, or no answer
  /\ UNCHANGED <<view, process, adrift, service>>

\* The lock is free between the cancel and the close.
ServeClosing(c) ==
  /\ Handles(c, "disconnect") \/ Handles(c, "close")
  /\ call' = [call EXCEPT ![c].at = "closing"]
  /\ \/ JobRunning /\ port # "closed" /\ Service!Cancel
     \/ ~(JobRunning /\ port # "closed") /\ UNCHANGED service
  /\ UNCHANGED <<view, process, port, adrift>>

ServeClosed(c) ==
  /\ alive /\ call[c].at = "closing"
  /\ port' = "closed" /\ adrift' = (adrift \/ JobRunning) /\ Reply(c, TRUE)
  /\ UNCHANGED <<view, process, service>>

ServeStart(c) ==
  /\ Handles(c, "start")
  /\ \/ /\ port = "open" /\ ~JobRunning /\ current < MaxJobs
        /\ Service!Start(current + 1) /\ adrift' = FALSE
        /\ Answer(c, [call[c] EXCEPT !.at = "answered", !.ok = TRUE,
                                     !.job = current + 1])
     \/ /\ port # "open" \/ JobRunning
        /\ Reply(c, FALSE) /\ UNCHANGED <<service, adrift>>
  /\ UNCHANGED <<view, process, port>>

ServePoll(c) ==
  /\ Handles(c, "poll")
  /\ \/ /\ KnownJob(c)
        /\ Answer(c, [call[c] EXCEPT !.at = "answered", !.ok = TRUE,
                                     !.state = jobs[current],
                                     !.cursor = Len(log[current])])
     \/ ~KnownJob(c) /\ Reply(c, FALSE)
  /\ UNCHANGED <<view, sidecar>>

\* A control acts on the job, or finds nothing to change, or is refused.
ServeControl(c) ==
  /\ \/ /\ KnownJob(c) /\ port = "open" /\ Reply(c, TRUE)
        /\ \/ Handles(c, "pause") /\ Service!Pause
           \/ Handles(c, "pause") /\ jobs[current] # "streaming" /\ UNCHANGED service
           \/ Handles(c, "resume") /\ Service!Resume
           \/ Handles(c, "resume") /\ jobs[current] # "paused" /\ UNCHANGED service
           \/ Handles(c, "cancel") /\ Service!Cancel
           \/ Handles(c, "cancel") /\ ~JobRunning /\ UNCHANGED service
     \/ /\ \E kind \in {"pause", "resume", "cancel"} : Handles(c, kind)
        /\ ~(KnownJob(c) /\ port = "open")
        /\ Reply(c, FALSE) /\ UNCHANGED service
  /\ UNCHANGED <<view, process, port, adrift>>

ServeStop(c) ==
  /\ Handles(c, "stop")
  /\ \/ port # "closed" /\ Reply(c, TRUE)
     \/ (port = "closed" \/ Faults) /\ Reply(c, FALSE)
  /\ UNCHANGED <<view, sidecar>>

\* The workers: progress, completion and failure, with or without the port.
WorkerReports ==
  /\ alive
  /\ \/ /\ current # 0 /\ Len(log[current]) < MaxEvents
        /\ Service!Record("progress") /\ UNCHANGED port
     \/ /\ \E j \in Ids : Service!Complete(j)
        /\ UNCHANGED port
     \/ /\ \E j \in Ids : Service!Fail(j)
        /\ port' = port \/ (Faults /\ port = "open" /\ port' = "dropped")
  /\ UNCHANGED <<view, call, process, adrift>>

\* The process dies: calls that it has not answered fail.  A job that ran may
\* have left its snapshot.
SidecarDies ==
  /\ alive /\ alive' = FALSE
  /\ crashes < MaxCrashes /\ crashes' = crashes + 1
  /\ port' = "closed" /\ adrift' = FALSE
  /\ Service!Forget
  /\ lost' \in {0} \cup {j \in {current} : JobRunning}
  /\ call' = [c \in Calls |->
       CASE call[c].unheard -> NoCall
         [] call[c].at \in {"sent", "closing"} /\ ~call[c].unheard ->
              [call[c] EXCEPT !.at = "answered"]
         [] OTHER -> call[c]]
  /\ UNCHANGED view

\* A request that does not reach the process fails: the process is dead, or the
\* transport fails, or the page that sent it was reloaded.
Unreachable(c) ==
  /\ call[c].at = "sent"
  /\ ~alive \/ Faults \/ call[c].unheard
  /\ Reply(c, FALSE)
  /\ UNCHANGED <<view, sidecar>>

\* The transport loses the answer to a request that the sidecar has carried out.
ReplyLost(c) ==
  /\ Faults /\ call[c].at = "answered" /\ call[c].ok
  /\ call' = [call EXCEPT ![c].ok = FALSE]
  /\ UNCHANGED <<view, sidecar>>

\* The next call starts a new process, which reports the lost job as orphaned
\* when it finds the snapshot.  Starting it takes longer than the replies that
\* are already there.
Respawn ==
  /\ ~alive /\ \E c \in Calls : call[c].at = "sent"
  /\ \A c \in Calls : call[c].at # "answered"
  /\ alive' = TRUE /\ lost' = 0
  /\ \/ lost # 0 /\ Service!Recover(lost)
     \/ lost = 0 /\ UNCHANGED service
  /\ UNCHANGED <<view, call, crashes, port, adrift>>

-----------------------------------------------------------------------------

Init ==
  /\ status = "disconnected" /\ isStreaming = FALSE /\ file = FALSE
  /\ jobId = 0 /\ since = 0 /\ retries = 0 /\ timer = FALSE /\ strays = 0
  /\ loading = FALSE /\ call = [c \in Calls |-> NoCall]
  /\ shown = 0 /\ reloads = 0
  /\ alive = TRUE /\ crashes = 0 /\ lost = 0 /\ port = "closed"
  /\ adrift = FALSE /\ Service!JobInit

Click(c) ==
  \/ Connect(c) \/ Disconnect(c) \/ StartStream(c)
  \/ Pause(c) \/ Resume(c) \/ Cancel(c) \/ Stop(c)

Dealt(c) ==
  \/ Connected(c) \/ Disconnected(c) \/ FileRead(c) \/ Started(c)
  \/ Paused(c) \/ Resumed(c) \/ Cancelled(c)
  \/ StopSent(c) \/ StopFailed(c) \/ Stopped(c)
  \/ PollStale(c) \/ PollFailed(c) \/ PollOrphaned(c) \/ PollApplied(c)

Serve(c) ==
  \/ ServeConnect(c) \/ ServeClosing(c) \/ ServeClosed(c) \/ ServeStart(c)
  \/ ServePoll(c) \/ ServeControl(c) \/ ServeStop(c) \/ Unreachable(c)

Next ==
  \/ PickFile \/ Reload
  \/ \E c \in Users : Click(c)
  \/ \E c \in Calls : Dealt(c) \/ Serve(c) \/ ReplyLost(c)
  \/ \E p \in Polls : PollTick(p)
  \/ WorkerReports \/ SidecarDies \/ Respawn

Spec == Init /\ [][Next]_vars

\* Replies are dealt with, timers fire and the sidecar answers or is found dead.
\* Nobody is obliged to click, a job may run for ever, and a sidecar that could
\* be respawned may stay unreachable.
Fairness ==
  /\ \A c \in Calls : WF_vars(Dealt(c) \/ Serve(c))
  /\ WF_vars(\E p \in Polls : PollTick(p))

FairSpec == Spec /\ Fairness

-----------------------------------------------------------------------------
(* Safety *)

CallType ==
  [kind : {"none", "connect", "disconnect", "close", "start", "poll",
           "pause", "resume", "cancel", "stop"},
   at : {"free", "reading", "sent", "closing", "answered"},
   job : 0..MaxJobs, from : Nat, ok : BOOLEAN,
   state : {"none", "streaming", "paused"} \cup TerminalStates, cursor : Nat,
   unheard : BOOLEAN]

\* Every variable stays in its range: no more retries than the bound, no poll
\* cursor below zero, no call of an unknown kind.
TypeOK ==
  /\ status \in {"disconnected", "connecting", "connected", "paused"}
  /\ isStreaming \in BOOLEAN /\ file \in BOOLEAN /\ loading \in BOOLEAN
  /\ jobId \in 0..MaxJobs /\ since \in Nat /\ retries \in 0..MaxRetries
  /\ timer \in BOOLEAN /\ strays \in Nat
  /\ call \in [Calls -> CallType]
  /\ shown \in Nat /\ reloads \in 0..MaxReloads
  /\ alive \in BOOLEAN /\ crashes \in 0..MaxCrashes /\ lost \in 0..MaxJobs
  /\ port \in {"closed", "open", "dropped"} /\ adrift \in BOOLEAN
  /\ current \in 0..MaxJobs

PollOut(j) == \E p \in Polls : call[p].kind = "poll" /\ call[p].job = j

\* A stream on display is being polled: whatever is clicked, lost or answered
\* late, some timer or request will fetch the job's state again.
StreamIsPolled ==
  isStreaming => jobId # 0 /\ (timer \/ strays > 0 \/ PollOut(jobId))

\* lib/marlin-api.ts:80-82: each event of a job is shown exactly once - never
\* twice, never skipped - up to the cursor.  (A new process may give a job the
\* number of an old one, which a late poll still asks for.)
EventsSeenOnce == jobId # 0 /\ crashes = 0 => shown = since

Quiet == \A c \in Calls : call[c].at = "free"

\* A job that runs on the sidecar is never out of the session's hands: once no
\* call is out, it is the very job that the session follows.  (A job that slipped
\* in while its host was being closed fails by itself; a new page knows nothing
\* of the job of the old one; and with Faults a lost reply may cost the session
\* a job that runs.)
NoAbandonedJob ==
  Quiet /\ JobRunning /\ ~adrift /\ reloads = 0 /\ ~Faults => jobId = current

-----------------------------------------------------------------------------
(* Liveness, under FairSpec *)

\* A stream whose job is over, lost or replaced does not stay on display: the
\* poll loop finds out, even across a crash and with the retries it allows.
Overdue == isStreaming /\ ~(JobRunning /\ jobId = current)
StreamDisplayEnds == []<>~Overdue

\* The stream controls are released after every pause, resume, cancel and stop,
\* answered or not.
ControlsReleased == []<>~loading

-----------------------------------------------------------------------------
(* What the documentation says and the code does not do; see the README *)


=============================================================================
