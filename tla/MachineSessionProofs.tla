------------------------ MODULE MachineSessionProofs ------------------------
(***************************************************************************)
(* Safety of the machine session, for any number of user calls, polls,     *)
(* jobs, crashes, reloads and retries.                                     *)
(*                                                                         *)
(* What holds whatever happens: types, the poll loop behind a stream on    *)
(* display, and that the sidecar is a job service.  What holds for one     *)
(* poll loop: every event is shown once.  What holds for a user who waits  *)
(* for every call: there is one poll loop, and no running job is lost.     *)
(* The parts of each inductive invariant are predicates on the calls on    *)
(* their way: what a reply may say when it is dealt with.                  *)
(***************************************************************************)
EXTENDS MachineSession, FiniteSetTheorems, TLAPS

USE DEF Ids, Calls, service, process, sidecar

-----------------------------------------------------------------------------
(* Types *)

\* A job's state is one that a call can report; a log is a sequence.
JobStates   == {"none", "streaming", "paused"} \cup TerminalStates
ServiceType ==
  /\ jobs \in [Ids -> JobStates]
  /\ log \in [Ids -> Seq({"progress", "action", "complete", "error"})]

TypeInv == TypeOK /\ ServiceType

LEMMA TypeInit == Init => TypeInv
<1> SUFFICES ASSUME Init PROVE TypeInv
  OBVIOUS
<1>1. NoCall \in CallType
  BY SessionAssumption DEF NoCall, CallType
<1>2. call \in [Calls -> CallType]
  BY <1>1 DEF Init
<1>3. ServiceType
  BY DEF Init, ServiceType, JobStates, Service!JobInit, Service!Blank, Service!EmptyLog
<1>4. /\ 0 \in 0..MaxJobs /\ 0 \in 0..MaxRetries /\ 0 \in 0..MaxReloads
      /\ 0 \in 0..MaxCrashes /\ 0 \in Nat
  BY SessionAssumption
<1>5. current = 0
  BY DEF Init, Service!JobInit
<1> QED BY <1>2, <1>3, <1>4, <1>5 DEF Init, TypeInv, TypeOK

\* The calls that change.
LEMMA CallTyped ==
  ASSUME TypeOK, NEW c \in Calls, NEW r \in CallType, call' = [call EXCEPT ![c] = r]
  PROVE  call' \in [Calls -> CallType]
BY DEF TypeOK

LEMMA FreeTyped == NoCall \in CallType
BY SessionAssumption DEF NoCall, CallType

LEMMA ResolvedTyped ==
  ASSUME TypeOK, NEW c \in Calls, Resolved(c) PROVE call' \in [Calls -> CallType]
BY CallTyped, FreeTyped DEF Resolved

LEMMA MovedTyped ==
  ASSUME TypeOK, NEW c \in Calls, NEW at \in {"sent", "closing"},
         call' = [call EXCEPT ![c].at = at]
  PROVE  call' \in [Calls -> CallType]
BY DEF TypeOK, CallType

LEMMA AnswerTyped ==
  ASSUME TypeOK, NEW c \in Calls, NEW r \in CallType, Answer(c, r)
  PROVE  call' \in [Calls -> CallType]
BY CallTyped, FreeTyped DEF Answer

LEMMA ReplyTyped ==
  ASSUME TypeOK, NEW c \in Calls, NEW ok \in BOOLEAN, Reply(c, ok)
  PROVE  call' \in [Calls -> CallType]
<1>0. call[c] \in CallType
  BY DEF TypeOK
<1>1. [call[c] EXCEPT !.at = "answered", !.ok = ok] \in CallType
  BY <1>0 DEF CallType
<1> QED BY <1>1, AnswerTyped DEF Reply

LEMMA LostTyped ==
  ASSUME TypeInv, NEW c \in Calls, ReplyLost(c) PROVE TypeInv'
<1>0. call[c] \in CallType
  BY DEF TypeInv, TypeOK
<1>1. [call[c] EXCEPT !.ok = FALSE] \in CallType
  BY <1>0 DEF CallType
<1>2. call' \in [Calls -> CallType]
  BY <1>1, CallTyped DEF ReplyLost, TypeInv
<1> QED BY <1>2 DEF ReplyLost, view, TypeInv, TypeOK, ServiceType

\* The job service keeps its types and its range of numbers.
LEMMA ServiceTyped ==
  ASSUME TypeInv, UNCHANGED service \/ Service!JobNext
  PROVE  ServiceType' /\ current' \in 0..MaxJobs
<1>1. CASE UNCHANGED service
  BY <1>1 DEF TypeInv, TypeOK, ServiceType
<1>2. CASE Service!Pause \/ Service!Resume \/ Service!Cancel
  BY <1>2 DEF TypeInv, TypeOK, ServiceType, JobStates, TerminalStates, Service!SetStatus,
              Service!Pause, Service!Resume, Service!Cancel
<1>3. ASSUME NEW e \in {"progress", "action"}, Service!Record(e)
      PROVE  ServiceType' /\ current' \in 0..MaxJobs
  BY <1>3 DEF TypeInv, TypeOK, ServiceType, Service!Record, Service!Note
<1>4. ASSUME NEW j \in Ids, Service!Start(j) PROVE ServiceType' /\ current' \in 0..MaxJobs
  BY <1>4, SessionAssumption DEF TypeInv, TypeOK, ServiceType, JobStates, Service!Start, Service!SetStatus
<1>5. ASSUME NEW j \in Ids, Service!Complete(j) \/ Service!Fail(j)
      PROVE  ServiceType' /\ current' \in 0..MaxJobs
  <2>1. PICK s \in {"completed", "error"}, e \in {"complete", "error"} :
          jobs' = [jobs EXCEPT ![j] = s] /\ log' = [log EXCEPT ![j] = Append(@, e)]
    BY <1>5 DEF Service!Complete, Service!Fail, Service!SetStatus, Service!Note
  <2>2. current' = current
    BY <1>5 DEF Service!Complete, Service!Fail
  <2>3. jobs' \in [Ids -> JobStates]
    BY <2>1 DEF TypeInv, ServiceType, JobStates, TerminalStates
  <2>4. log' \in [Ids -> Seq({"progress", "action", "complete", "error"})]
    BY <2>1 DEF TypeInv, ServiceType
  <2> QED BY <2>2, <2>3, <2>4 DEF TypeInv, TypeOK, ServiceType
<1>6. ASSUME NEW j \in Ids, Service!Recover(j) PROVE ServiceType' /\ current' \in 0..MaxJobs
  BY <1>6, SessionAssumption DEF TypeInv, TypeOK, ServiceType, JobStates, TerminalStates, Service!Recover,
              Service!SetStatus, Service!Note
<1>7. CASE Service!Forget
  BY <1>7, SessionAssumption DEF ServiceType, JobStates, Service!Forget, Service!Blank, Service!EmptyLog
<1> QED BY <1>1, <1>2, <1>3, <1>4, <1>5, <1>6, <1>7 DEF Service!JobNext

\* What a step does that leaves the sidecar's job service alone.
LEMMA SidecarKept ==
  ASSUME TypeInv, UNCHANGED service PROVE ServiceType' /\ current' \in 0..MaxJobs
BY ServiceTyped

LEMMA IssueTyped ==
  ASSUME TypeOK, NEW c, NEW k \in {"connect", "disconnect", "start", "pause", "resume", "cancel", "stop"},
         NEW at \in {"reading", "sent"}, Issue(c, k, at)
  PROVE  call' \in [Calls -> CallType]
<1>1. [NoCall EXCEPT !.kind = k, !.at = at, !.job = jobId] \in CallType
  BY SessionAssumption DEF TypeOK, NoCall, CallType
<1> QED BY <1>1, CallTyped DEF Issue

LEMMA ClickTyped == ASSUME TypeInv, NEW c \in Users, Click(c) PROVE TypeInv'
<1>1. call' \in [Calls -> CallType]
  BY IssueTyped DEF TypeInv, Click, Connect, Disconnect, StartStream, Pause, Resume, Cancel, Stop, Control
<1>2. /\ UNCHANGED <<isStreaming, file, jobId, since, retries, timer, strays, shown, reloads>>
      /\ UNCHANGED <<process, port, adrift>> /\ UNCHANGED service
      /\ status' \in {status, "connecting"} /\ loading' \in {loading, TRUE}
  BY DEF Click, Connect, Disconnect, StartStream, Pause, Resume, Cancel, Stop, Control, view
<1>3. ServiceType' /\ current' \in 0..MaxJobs
  BY <1>2, SidecarKept
<1> QED BY <1>1, <1>2, <1>3 DEF TypeInv, TypeOK

\* The poll loop's retries and timers stay in their ranges.
LEMMA TimersTyped ==
  ASSUME TypeOK, SchedulePoll \/ UNCHANGED <<timer, strays>> PROVE timer' \in BOOLEAN /\ strays' \in Nat
<1>1. strays \in Nat /\ timer \in BOOLEAN
  BY DEF TypeOK
<1>2. CASE SchedulePoll
  <2>1. strays' \in {strays, strays + 1}
    BY <1>2 DEF SchedulePoll
  <2>2. timer' = TRUE
    BY <1>2 DEF SchedulePoll
  <2> QED BY <1>1, <2>1, <2>2
<1> QED BY <1>1, <1>2

LEMMA JobEndTyped ==
  ASSUME TypeOK, NEW s \in {"connected", "disconnected"}, EndJob(s)
  PROVE  /\ timer' \in BOOLEAN /\ jobId' \in 0..MaxJobs /\ since' \in Nat
         /\ retries' \in 0..MaxRetries /\ isStreaming' \in BOOLEAN
         /\ status' \in {"disconnected", "connecting", "connected", "paused"}
<1>1. 0 \in 0..MaxJobs /\ 0 \in 0..MaxRetries /\ 0 \in Nat
  BY SessionAssumption
<1> QED BY <1>1 DEF EndJob

\* How many events a reply brings.
LEMMA EventsCounted ==
  ASSUME NEW m \in Nat, NEW n \in Nat
  PROVE  /\ Cardinality(m + 1 .. n) \in Nat
         /\ m <= n => Cardinality(m + 1 .. n) = n - m
<1>1. m + 1 \in Int /\ n \in Int
  OBVIOUS
<1>2. Cardinality(m + 1 .. n) = IF m + 1 > n THEN 0 ELSE n - (m + 1) + 1
  BY <1>1, FS_Interval
<1> QED BY <1>2

LEMMA DealtTyped == ASSUME TypeInv, NEW c \in Calls, Dealt(c) PROVE TypeInv'
<1>0. TypeOK /\ call[c] \in CallType
  BY DEF TypeInv, TypeOK
<1>1. call' \in [Calls -> CallType]
  <2>1. CASE Resolved(c)
    BY <1>0, <2>1, ResolvedTyped
  <2>2. CASE call' = [call EXCEPT ![c].at = "sent"]
    BY <1>0, <2>2, MovedTyped
  <2>3. CASE StopSent(c)
    <3>1. [NoCall EXCEPT !.kind = "close", !.at = "sent"] \in CallType
      BY FreeTyped DEF CallType
    <3> QED BY <1>0, <2>3, <3>1, CallTyped DEF StopSent
  <2> QED BY <2>1, <2>2, <2>3 DEF Dealt, Connected, Disconnected, FileRead, Started, Paused, Resumed,
        Cancelled, StopFailed, Stopped, PollStale, PollFailed, PollOrphaned, PollApplied
<1>2. ServiceType' /\ current' \in 0..MaxJobs /\ UNCHANGED <<process, port, adrift>>
  <2>1. UNCHANGED sidecar
    BY DEF Dealt, Connected, Disconnected, FileRead, Started, Paused, Resumed, Cancelled, StopSent,
           StopFailed, Stopped, PollStale, PollFailed, PollOrphaned, PollApplied
  <2> QED BY <2>1, SidecarKept
<1>3. CASE Connected(c) \/ Paused(c) \/ Resumed(c)
  <2>1. UNCHANGED <<jobId, since, retries, timer, strays, shown, reloads>>
        /\ status' \in {status, "connected", "disconnected", "paused"}
    BY <1>3 DEF Connected, Paused, Resumed
  <2>2. isStreaming' \in BOOLEAN /\ file' \in BOOLEAN /\ loading' \in BOOLEAN
    BY <1>0, <1>3 DEF Connected, Paused, Resumed, TypeOK
  <2> QED BY <1>1, <1>2, <2>1, <2>2 DEF TypeInv, TypeOK
<1>4. CASE FileRead(c) \/ StopSent(c) \/ PollStale(c)
  BY <1>1, <1>2, <1>4 DEF FileRead, StopSent, PollStale, view, TypeInv, TypeOK
<1>5. CASE Started(c)
  <2>1. /\ UNCHANGED <<file, retries, loading, reloads>>
        /\ jobId' \in {jobId, call[c].job} /\ since' \in {since, 0} /\ shown' \in {shown, 0}
        /\ status' \in {status, "connected"}
        /\ SchedulePoll \/ UNCHANGED <<timer, strays>>
    BY <1>5 DEF Started
  <2>2. timer' \in BOOLEAN /\ strays' \in Nat /\ call[c].job \in 0..MaxJobs
    BY <1>0, <2>1, TimersTyped DEF CallType
  <2>3. isStreaming' \in BOOLEAN
    BY <1>0, <1>5 DEF Started, TypeOK
  <2> QED BY <1>1, <1>2, <2>1, <2>2, <2>3 DEF TypeInv, TypeOK
<1>6. CASE Disconnected(c) \/ Cancelled(c) \/ StopFailed(c) \/ Stopped(c) \/ PollOrphaned(c)
  <2>1. /\ (\E s \in {"connected", "disconnected"} : EndJob(s))
           \/ UNCHANGED <<timer, jobId, since, retries, isStreaming, status>>
        /\ UNCHANGED <<strays, shown, reloads>>
        /\ file' \in {file, FALSE} /\ loading' \in {loading, FALSE}
    BY <1>6 DEF Disconnected, Cancelled, StopFailed, Stopped, PollOrphaned
  <2>2. /\ timer' \in BOOLEAN /\ jobId' \in 0..MaxJobs /\ since' \in Nat
        /\ retries' \in 0..MaxRetries /\ isStreaming' \in BOOLEAN
        /\ status' \in {"disconnected", "connecting", "connected", "paused"}
    <3>1. CASE \E s \in {"connected", "disconnected"} : EndJob(s)
      BY <1>0, <3>1, JobEndTyped
    <3>2. CASE UNCHANGED <<timer, jobId, since, retries, isStreaming, status>>
      BY <1>0, <3>2 DEF TypeOK
    <3> QED BY <2>1, <3>1, <3>2
  <2> QED BY <1>1, <1>2, <2>1, <2>2 DEF TypeInv, TypeOK
<1>7. CASE PollFailed(c)
  <2>1. CASE EndJob("connected") /\ UNCHANGED strays
    BY <1>0, <1>1, <1>2, <1>7, <2>1, JobEndTyped DEF PollFailed, TypeInv, TypeOK
  <2>2. CASE retries < MaxRetries /\ retries' = retries + 1 /\ SchedulePoll
             /\ UNCHANGED <<jobId, since, isStreaming, status>>
    <3>1. retries' \in 0..MaxRetries
      BY <1>0, <2>2, SessionAssumption DEF TypeOK
    <3>2. timer' \in BOOLEAN /\ strays' \in Nat
      BY <1>0, <2>2, TimersTyped
    <3>3. UNCHANGED <<file, loading, shown, reloads>>
      BY <1>7 DEF PollFailed
    <3> QED BY <1>1, <1>2, <2>2, <3>1, <3>2, <3>3 DEF TypeInv, TypeOK
  <2> QED BY <1>7, <2>1, <2>2 DEF PollFailed
<1>8. CASE PollApplied(c)
  <2>1. UNCHANGED <<file, loading, reloads>> /\ shown' \in Nat
    <3>1. call[c].from \in Nat /\ call[c].cursor \in Nat /\ shown \in Nat
      BY <1>0 DEF CallType, TypeOK
    <3>2. Cardinality(call[c].from + 1 .. call[c].cursor) \in Nat
      BY <3>1, EventsCounted
    <3> QED BY <1>8, <3>1, <3>2 DEF PollApplied
  <2>2. CASE EndJob("connected") /\ UNCHANGED strays
    BY <1>0, <1>1, <1>2, <2>1, <2>2, JobEndTyped DEF TypeInv, TypeOK
  <2>3. CASE /\ since' = call[c].cursor /\ retries' = 0 /\ SchedulePoll
             /\ status' = IF call[c].state = "paused" THEN "paused" ELSE "connected"
             /\ UNCHANGED <<jobId, isStreaming>>
    <3>1. timer' \in BOOLEAN /\ strays' \in Nat /\ since' \in Nat /\ retries' \in 0..MaxRetries
      BY <1>0, <2>3, TimersTyped, SessionAssumption DEF CallType
    <3> QED BY <1>1, <1>2, <2>1, <2>3, <3>1 DEF TypeInv, TypeOK
  <2> QED BY <1>8, <2>2, <2>3 DEF PollApplied
<1> QED BY <1>3, <1>4, <1>5, <1>6, <1>7, <1>8 DEF Dealt

\* What the sidecar answers to a start and to a poll.
StartedAs(c) == [call[c] EXCEPT !.at = "answered", !.ok = TRUE, !.job = current + 1]
Report(c)    == [call[c] EXCEPT !.at = "answered", !.ok = TRUE, !.state = jobs[current],
                                !.cursor = Len(log[current])]

LEMMA ServeTyped == ASSUME TypeInv, NEW c \in Calls, Serve(c) PROVE TypeInv'
<1>0. TypeOK /\ call[c] \in CallType
  BY DEF TypeInv, TypeOK
<1>1. UNCHANGED view /\ UNCHANGED process
  BY DEF Serve, ServeConnect, ServeClosing, ServeClosed, ServeStart, ServePoll, ServeControl, ServeStop, Unreachable
<1>2. port' \in {"closed", "open", "dropped"} /\ adrift' \in BOOLEAN
  BY <1>0 DEF Serve, ServeConnect, ServeClosing, ServeClosed, ServeStart, ServePoll, ServeControl,
              ServeStop, Unreachable, TypeOK, JobRunning
<1>3. UNCHANGED service \/ Service!JobNext
  <2>1. ASSUME ServeStart(c) PROVE UNCHANGED service \/ Service!JobNext
    <3>1. current < MaxJobs => current + 1 \in Ids
      BY <1>0, SessionAssumption DEF TypeOK
    <3> QED BY <2>1, <3>1 DEF ServeStart, Service!JobNext
  <2> QED BY <2>1 DEF Serve, ServeConnect, ServeClosing, ServeClosed, ServePoll, ServeControl,
              ServeStop, Unreachable, Service!JobNext
<1>4. call' \in [Calls -> CallType]
  <2>1. CASE \E ok \in BOOLEAN : Reply(c, ok)
    BY <1>0, <2>1, ReplyTyped
  <2>2. CASE call' = [call EXCEPT ![c].at = "closing"]
    BY <1>0, <2>2, MovedTyped
  <2>3. CASE current < MaxJobs /\ Answer(c, StartedAs(c))
    <3>0. current + 1 \in 0..MaxJobs
      BY <1>0, <2>3, SessionAssumption DEF TypeOK
    <3>1. StartedAs(c) \in CallType
      BY <1>0, <3>0 DEF CallType, StartedAs
    <3> QED BY <1>0, <2>3, <3>1, AnswerTyped
  <2>4. CASE KnownJob(c) /\ Answer(c, Report(c))
    <3>1. current \in Ids
      BY <1>0, <2>4 DEF KnownJob, TypeOK
    <3>2. jobs[current] \in JobStates /\ Len(log[current]) \in Nat
      BY <3>1 DEF TypeInv, ServiceType
    <3>3. Report(c) \in CallType
      BY <1>0, <3>2 DEF TypeOK, CallType, JobStates, Report
    <3> QED BY <1>0, <2>4, <3>3, AnswerTyped
  <2> QED BY <2>1, <2>2, <2>3, <2>4 DEF Serve, ServeConnect, ServeClosing, ServeClosed, ServeStart,
              ServePoll, ServeControl, ServeStop, Unreachable, StartedAs, Report
<1>5. ServiceType' /\ current' \in 0..MaxJobs
  BY <1>3, ServiceTyped
<1> QED BY <1>1, <1>2, <1>4, <1>5 DEF view, TypeInv, TypeOK

LEMMA PollTickTyped == ASSUME TypeInv, NEW p \in Polls, PollTick(p) PROVE TypeInv'
<1>0. TypeOK
  BY DEF TypeInv
<1>1. UNCHANGED <<status, isStreaming, file, jobId, since, retries, loading, shown, reloads>>
      /\ UNCHANGED service /\ UNCHANGED <<process, port, adrift>>
  BY DEF PollTick
<1>2. timer' \in BOOLEAN /\ strays' \in Nat
  <2>1. timer' \in BOOLEAN
    BY <1>0 DEF PollTick, TypeOK
  <2>2. strays' = strays \/ (strays > 0 /\ strays' = strays - 1)
    BY DEF PollTick
  <2> QED BY <1>0, <2>1, <2>2 DEF TypeOK
<1>3. call' \in [Calls -> CallType]
  <2>1. [NoCall EXCEPT !.kind = "poll", !.at = "sent", !.job = jobId, !.from = since] \in CallType
    BY <1>0, SessionAssumption DEF NoCall, CallType, TypeOK
  <2>2. CASE UNCHANGED call
    BY <1>0, <2>2 DEF TypeOK
  <2> QED BY <1>0, <2>1, <2>2, CallTyped DEF PollTick
<1>4. ServiceType' /\ current' \in 0..MaxJobs
  BY <1>1, SidecarKept
<1> QED BY <1>1, <1>2, <1>3, <1>4 DEF TypeInv, TypeOK

LEMMA ReloadTyped == ASSUME TypeInv, Reload \/ PickFile PROVE TypeInv'
<1>1. UNCHANGED service /\ UNCHANGED <<process, port, adrift>>
  BY DEF Reload, PickFile
<1>2. ServiceType' /\ current' \in 0..MaxJobs
  BY <1>1, SidecarKept
<1>3. call' \in [Calls -> CallType]
  <2>1. \A c \in Calls : LeftBehind(call[c]) \in CallType
    BY FreeTyped DEF LeftBehind, CallType, TypeInv, TypeOK
  <2> QED BY <2>1 DEF Reload, PickFile, TypeInv, TypeOK
<1>4. /\ status' \in {"disconnected", "connecting", "connected", "paused"}
      /\ jobId' \in 0..MaxJobs /\ since' \in Nat /\ retries' \in 0..MaxRetries
      /\ strays' \in Nat /\ shown' \in Nat
  BY SessionAssumption DEF Reload, PickFile, TypeInv, TypeOK
<1>5. /\ isStreaming' \in BOOLEAN /\ file' \in BOOLEAN /\ loading' \in BOOLEAN
      /\ timer' \in BOOLEAN
  BY DEF Reload, PickFile, TypeInv, TypeOK
<1>6. reloads' \in 0..MaxReloads
  <2>1. reloads' = reloads \/ (reloads < MaxReloads /\ reloads' = reloads + 1)
    BY DEF Reload, PickFile
  <2> QED BY <2>1, SessionAssumption DEF TypeInv, TypeOK
<1> QED BY <1>1, <1>2, <1>3, <1>4, <1>5, <1>6 DEF TypeInv, TypeOK

LEMMA ProcessTyped ==
  ASSUME TypeInv, WorkerReports \/ SidecarDies \/ Respawn PROVE TypeInv'
<1>0. TypeOK
  BY DEF TypeInv
<1>1. UNCHANGED view
  BY DEF WorkerReports, SidecarDies, Respawn
<1>2. UNCHANGED service \/ Service!JobNext
  <2>1. CASE WorkerReports
    BY <2>1 DEF WorkerReports, Service!JobNext
  <2>2. CASE SidecarDies
    BY <2>2 DEF SidecarDies, Service!JobNext
  <2>3. CASE Respawn
    <3>1. lost # 0 => lost \in Ids
      BY <1>0, SessionAssumption DEF TypeOK
    <3> QED BY <2>3, <3>1 DEF Respawn, Service!JobNext
  <2> QED BY <2>1, <2>2, <2>3
<1>3. ServiceType' /\ current' \in 0..MaxJobs
  BY <1>2, ServiceTyped
<1>4. call' \in [Calls -> CallType]
  <2>1. CASE SidecarDies
    <3>1. \A c \in Calls : [call[c] EXCEPT !.at = "answered"] \in CallType
      BY <1>0 DEF TypeOK, CallType
    <3>2. ASSUME NEW c \in Calls PROVE call'[c] \in CallType
      <4>1. call'[c] \in {NoCall, [call[c] EXCEPT !.at = "answered"], call[c]}
        BY <2>1 DEF SidecarDies
      <4> QED BY <1>0, <3>1, <4>1, FreeTyped DEF TypeOK
    <3>3. call' = [c \in Calls |-> call'[c]]
      BY <2>1 DEF SidecarDies
    <3> QED BY <3>2, <3>3
  <2> QED BY <1>0, <2>1 DEF WorkerReports, Respawn, TypeOK
<1>5. alive' \in BOOLEAN /\ adrift' \in BOOLEAN
  BY <1>0 DEF WorkerReports, SidecarDies, Respawn, TypeOK
<1>6. lost' \in 0..MaxJobs /\ port' \in {"closed", "open", "dropped"}
  BY <1>0, SessionAssumption DEF WorkerReports, SidecarDies, Respawn, TypeOK
<1>7. crashes' \in 0..MaxCrashes
  <2>1. crashes' = crashes \/ (crashes < MaxCrashes /\ crashes' = crashes + 1)
    BY DEF WorkerReports, SidecarDies, Respawn
  <2> QED BY <1>0, <2>1, SessionAssumption DEF TypeOK
<1> QED BY <1>1, <1>3, <1>4, <1>5, <1>6, <1>7 DEF view, TypeInv, TypeOK

LEMMA StutterTyped == ASSUME TypeInv, UNCHANGED vars PROVE TypeInv'
<1>1. ServiceType' /\ current' \in 0..MaxJobs
  BY SidecarKept DEF vars
<1> QED BY <1>1 DEF vars, view, TypeInv, TypeOK

LEMMA NextTyped == TypeInv /\ [Next]_vars => TypeInv'
BY ClickTyped, DealtTyped, ServeTyped, LostTyped, PollTickTyped, ReloadTyped, ProcessTyped, StutterTyped DEF Next

LEMMA SpecTyped == Spec => []TypeInv
BY TypeInit, NextTyped, PTL DEF Spec

\* Retries stay within their bound, cursors and timers count from zero, and every
\* call and reply is of a known kind, whatever is lost, reloaded or answered late.
THEOREM SessionTypeCorrect == Spec => []TypeOK
<1>1. TypeInv => TypeOK
  BY DEF TypeInv
<1> QED BY <1>1, SpecTyped, PTL

-----------------------------------------------------------------------------
(* The sidecar that the session talks to is a job service *)

\* A step of the whole leaves the service alone or is one of its operations.
LEMMA ServiceSteps ==
  ASSUME TypeInv, [Next]_vars PROVE UNCHANGED service \/ Service!JobNext
<1>0. current \in 0..MaxJobs /\ lost \in 0..MaxJobs /\ MaxJobs \in Nat
  BY SessionAssumption DEF TypeInv, TypeOK
<1>1. ASSUME NEW c \in Users, Click(c) PROVE UNCHANGED service
  BY <1>1 DEF Click, Connect, Disconnect, StartStream, Pause, Resume, Cancel, Stop, Control
<1>2. ASSUME NEW c \in Calls, Dealt(c) PROVE UNCHANGED service
  BY <1>2 DEF Dealt, Connected, Disconnected, FileRead, Started, Paused, Resumed, Cancelled, StopSent,
         StopFailed, Stopped, PollStale, PollFailed, PollOrphaned, PollApplied
<1>3. ASSUME NEW c \in Calls, Serve(c) PROVE UNCHANGED service \/ Service!JobNext
  <2>1. CASE ServeStart(c)
    <3>1. current < MaxJobs => current + 1 \in Ids
      BY <1>0
    <3> QED BY <2>1, <3>1 DEF ServeStart, Service!JobNext
  <2> QED BY <1>3, <2>1 DEF Serve, ServeConnect, ServeClosing, ServeClosed, ServePoll, ServeControl,
              ServeStop, Unreachable, Service!JobNext
<1>4. ASSUME NEW p \in Polls, PollTick(p) PROVE UNCHANGED service
  BY <1>4 DEF PollTick
<1>5. CASE Reload \/ PickFile \/ UNCHANGED vars \/ \E c \in Calls : ReplyLost(c)
  BY <1>5 DEF Reload, PickFile, ReplyLost, vars
<1>6. CASE WorkerReports
  BY <1>6 DEF WorkerReports, Service!JobNext
<1>7. CASE SidecarDies
  BY <1>7 DEF SidecarDies, Service!JobNext
<1>8. CASE Respawn
  <2>1. lost # 0 => lost \in Ids
    BY <1>0
  <2> QED BY <1>8, <2>1 DEF Respawn, Service!JobNext
<1> QED BY <1>1, <1>2, <1>3, <1>4, <1>5, <1>6, <1>7, <1>8 DEF Next

\* Whatever the GUI, the user, the workers and the crashes do, the jobs move as the
\* job service promises (services/machine_service.py, which is proved to implement
\* it): a session relies on nothing more.
THEOREM SessionUsesJobService == Spec => Service!JobSpec
<1>1. Init => Service!JobInit
  BY DEF Init
<1>2. TypeInv /\ [Next]_vars => [Service!JobNext]_(Service!jobServiceVars)
  BY ServiceSteps DEF Service!jobServiceVars
<1> QED BY <1>1, <1>2, SpecTyped, PTL DEF Spec, Service!JobSpec

-----------------------------------------------------------------------------
(* Calls *)

IsPoll(c)        == call[c].kind = "poll"
StartAnswered(c) == Answered(c, "start") /\ call[c].ok = TRUE

\* What the place of a call says of it.
CallOK(c, r) ==
  /\ r.at = "free" => r = NoCall
  /\ r.kind = "poll" => c \in Polls
  /\ r.kind \notin {"none", "poll"} => c \in Users
  /\ r.at = "reading" => r.kind = "start"
  /\ r.at = "closing" => r.kind \in {"disconnect", "close"}
  /\ r.at # "answered" => r.ok = FALSE
  /\ r.at = "answered" /\ r.kind = "start" /\ r.ok = TRUE => r.job # 0
  /\ r.unheard = TRUE => r.kind # "poll" /\ r.at \in {"sent", "closing"}

CallInv == \A c \in Calls : CallOK(c, call[c])

LEMMA CallStep ==
  ASSUME TypeInv, CallInv, NEW c \in Calls, NEW r, CallOK(c, r), call' = [call EXCEPT ![c] = r]
  PROVE  CallInv'
<1>1. \A d \in Calls : call'[d] = IF d = c THEN r ELSE call[d]
  BY DEF TypeInv, TypeOK
<1>2. \A d \in Calls : CallOK(d, call'[d])
  BY <1>1 DEF CallInv
<1> QED BY <1>2 DEF CallInv, CallOK, NoCall

LEMMA FreeOK == \A c \in Calls : CallOK(c, NoCall)
BY DEF CallOK, NoCall

\* An answer reaches the page that asked, or nobody.
LEMMA Arrives ==
  ASSUME NEW c \in Calls, NEW r, Answer(c, r)
  PROVE  \E x \in {NoCall, r} :
           call' = [call EXCEPT ![c] = x] /\ (call[c].unheard = FALSE => x = r)
BY DEF Answer

LEMMA AnswerStep ==
  ASSUME TypeInv, CallInv, NEW c \in Calls, NEW r, Answer(c, r),
         call[c].unheard = FALSE => CallOK(c, r)
  PROVE  CallInv'
<1>1. call[c].unheard \in BOOLEAN
  BY DEF TypeInv, TypeOK, CallType
<1> QED BY <1>1, FreeOK, CallStep DEF Answer

\* Nobody leaves a poll behind.
LEMMA PollsHeard ==
  ASSUME TypeInv, CallInv, NEW c \in Calls, call[c].kind = "poll" PROVE call[c].unheard = FALSE
BY DEF TypeInv, TypeOK, CallType, CallInv, CallOK

\* What is answered is heard.
LEMMA AnsweredHeard ==
  ASSUME TypeInv, CallInv, NEW c \in Calls, call[c].at = "answered" PROVE call[c].unheard = FALSE
BY DEF TypeInv, TypeOK, CallType, CallInv, CallOK

\* A call is moved along or answered: only what is not a start keeps its job.
LEMMA ReplyStep ==
  ASSUME TypeInv, CallInv, NEW c \in Calls, NEW ok, Reply(c, ok),
         call[c].at \in {"sent", "closing"}, call[c].kind = "start" => ok # TRUE
  PROVE  CallInv'
<1> DEFINE r == [call[c] EXCEPT !.at = "answered", !.ok = ok]
<1>1. call[c] \in CallType /\ CallOK(c, call[c])
  BY DEF TypeInv, TypeOK, CallInv
<1>2. r.kind = call[c].kind /\ r.at = "answered" /\ r.job = call[c].job /\ r.ok = ok
      /\ r.unheard = call[c].unheard
  BY <1>1 DEF CallType
<1>3. call[c].unheard = FALSE => CallOK(c, r)
  BY <1>1, <1>2 DEF CallOK
<1>4. Answer(c, r)
  BY DEF Reply
<1> HIDE DEF r
<1> QED BY <1>1, <1>3, <1>4, AnswerStep

LEMMA NextCalls == ASSUME TypeInv, CallInv, [Next]_vars PROVE CallInv'
<1>0. call \in [Calls -> CallType]
  BY DEF TypeInv, TypeOK
<1>1. ASSUME UNCHANGED call PROVE CallInv'
  BY <1>1 DEF CallInv, CallOK, NoCall
<1>2. ASSUME NEW c \in Calls, Resolved(c) PROVE CallInv'
  BY <1>2, FreeOK, CallStep DEF Resolved
<1>3. ASSUME NEW c \in Users, Click(c) PROVE CallInv'
  <2>1. PICK k \in {"connect", "disconnect", "start", "pause", "resume", "cancel", "stop"},
             at \in {"reading", "sent"} : Issue(c, k, at) /\ (at = "reading" => k = "start")
    BY <1>3 DEF Click, Connect, Disconnect, StartStream, Pause, Resume, Cancel, Stop, Control
  <2>2. CallOK(c, [NoCall EXCEPT !.kind = k, !.at = at, !.job = jobId])
    BY <1>3, <2>1 DEF CallOK, NoCall
  <2> QED BY <1>3, <2>1, <2>2, CallStep DEF Issue
<1>4. ASSUME NEW c \in Calls, Dealt(c) PROVE CallInv'
  <2>1. CASE FileRead(c) /\ call' = [call EXCEPT ![c].at = "sent"]
    <3> DEFINE r == [call[c] EXCEPT !.at = "sent"]
    <3>1. r.kind = "start" /\ r.at = "sent" /\ CallOK(c, call[c])
      BY <1>0, <2>1 DEF FileRead, CallType, CallInv, CallOK
    <3>2. CallOK(c, r)
      BY <1>0, <2>1, <3>1 DEF CallOK, FileRead
    <3> QED BY <2>1, <3>2, CallStep
  <2>2. CASE StopSent(c)
    <3>1. CallOK(c, [NoCall EXCEPT !.kind = "close", !.at = "sent"])
      BY <2>2 DEF StopSent, Answered, CallInv, CallOK, NoCall
    <3> QED BY <2>2, <3>1, CallStep DEF StopSent
  <2> QED BY <1>2, <1>4, <2>1, <2>2 DEF Dealt, Connected, Disconnected, FileRead, Started, Paused, Resumed,
        Cancelled, StopFailed, Stopped, PollStale, PollFailed, PollOrphaned, PollApplied
<1>5. ASSUME NEW c \in Calls, Serve(c) PROVE CallInv'
  <2>1. CASE call[c].at \in {"sent", "closing"} /\ \E ok \in BOOLEAN : Reply(c, ok)
              /\ (call[c].kind = "start" => ~ok)
    BY <2>1, ReplyStep
  <2>2. CASE ServeClosing(c)
    <3> DEFINE r == [call[c] EXCEPT !.at = "closing"]
    <3>1. r.kind = call[c].kind /\ r.at = "closing" /\ CallOK(c, call[c])
          /\ r.kind \in {"disconnect", "close"} /\ r.ok = FALSE
      BY <1>0, <2>2 DEF ServeClosing, Handles, CallType, CallInv, CallOK
    <3>2. CallOK(c, r)
      BY <3>1 DEF CallOK
    <3> QED BY <2>2, <3>2, CallStep DEF ServeClosing
  <2>3. CASE ServeStart(c) /\ Answer(c, StartedAs(c))
    <3> DEFINE r == StartedAs(c)
    <3>1. r.kind = "start" /\ r.at = "answered" /\ r.job # 0 /\ CallOK(c, call[c])
          /\ call[c].kind = "start" /\ r.unheard = call[c].unheard
      BY <1>0, <2>3 DEF ServeStart, Handles, CallType, CallInv, TypeInv, TypeOK, StartedAs
    <3>2. call[c].unheard = FALSE => CallOK(c, r)
      BY <3>1 DEF CallOK
    <3> QED BY <2>3, <3>2, AnswerStep
  <2>4. CASE ServePoll(c) /\ Answer(c, Report(c))
    <3> DEFINE r == Report(c)
    <3>1. r.kind = "poll" /\ r.at = "answered" /\ CallOK(c, call[c]) /\ call[c].kind = "poll"
          /\ r.unheard = call[c].unheard
      BY <1>0, <2>4 DEF ServePoll, Handles, CallType, CallInv, Report
    <3>2. call[c].unheard = FALSE => CallOK(c, r)
      BY <3>1 DEF CallOK
    <3> QED BY <2>4, <3>2, AnswerStep
  <2>5. CASE ServeConnect(c) \/ ServeControl(c) \/ ServeStop(c)
    BY <2>1, <2>5 DEF ServeConnect, ServeControl, ServeStop, Handles
  <2>6. CASE ServeClosed(c)
    <3>1. call[c].kind # "start"
      BY <2>6 DEF ServeClosed, CallInv, CallOK
    <3> QED BY <2>1, <2>6, <3>1 DEF ServeClosed
  <2>7. CASE (ServeStart(c) \/ ServePoll(c) \/ Unreachable(c)) /\ Reply(c, FALSE)
    BY <2>1, <2>7 DEF ServeStart, ServePoll, Unreachable, Handles
  <2>8. (ServeStart(c) \/ ServePoll(c) \/ Unreachable(c)) => CallInv'
    BY <2>3, <2>4, <2>7 DEF ServeStart, ServePoll, Unreachable, StartedAs, Report
  <2> QED BY <1>5, <2>2, <2>5, <2>6, <2>8 DEF Serve
<1>6. ASSUME NEW p \in Polls, PollTick(p) PROVE CallInv'
  <2>1. CallOK(p, [NoCall EXCEPT !.kind = "poll", !.at = "sent", !.job = jobId, !.from = since])
    BY <1>6 DEF CallOK, NoCall
  <2> QED BY <1>1, <1>6, <2>1, CallStep DEF PollTick
<1>7. CASE Reload
  <2>1. ASSUME NEW c \in Calls PROVE CallOK(c, LeftBehind(call[c]))
    BY <1>0, FreeOK DEF LeftBehind, CallInv, CallOK, CallType
  <2>2. \A c \in Calls : CallOK(c, call'[c])
    BY <1>7, <2>1 DEF Reload
  <2> QED BY <2>2 DEF CallInv, CallOK, NoCall
<1>8. CASE SidecarDies
  <2>1. ASSUME NEW c \in Calls, call[c].at \in {"sent", "closing"}, call[c].unheard = FALSE
        PROVE  CallOK(c, [call[c] EXCEPT !.at = "answered"])
    BY <1>0, <2>1 DEF CallInv, CallOK, CallType
  <2>2. ASSUME NEW c \in Calls PROVE CallOK(c, call'[c])
    <3>1. \/ call'[c] = NoCall \/ call'[c] = call[c]
          \/ /\ call[c].at \in {"sent", "closing"} /\ ~call[c].unheard
             /\ call'[c] = [call[c] EXCEPT !.at = "answered"]
      BY <1>8 DEF SidecarDies
    <3>2. call[c].unheard \in BOOLEAN /\ CallOK(c, call[c])
      BY <1>0 DEF CallType, CallInv
    <3> QED BY <2>1, <3>1, <3>2, FreeOK
  <2> QED BY <2>2 DEF CallInv, CallOK, NoCall
<1>10. ASSUME NEW c \in Calls, ReplyLost(c) PROVE CallInv'
  <2>1. CallOK(c, [call[c] EXCEPT !.ok = FALSE])
    BY <1>0, <1>10 DEF ReplyLost, CallInv, CallOK, CallType
  <2> QED BY <1>10, <2>1, CallStep DEF ReplyLost
<1>9. CASE PickFile \/ WorkerReports \/ Respawn \/ UNCHANGED vars
  BY <1>1, <1>9 DEF PickFile, WorkerReports, Respawn, vars
<1> QED BY <1>3, <1>4, <1>5, <1>6, <1>7, <1>8, <1>9, <1>10 DEF Next

LEMMA SpecCalls == Spec => []CallInv
<1>1. Init => CallInv
  BY FreeOK DEF Init, CallInv
<1>2. TypeInv /\ CallInv /\ [Next]_vars => CallInv'
  BY NextCalls
<1> QED BY <1>1, <1>2, SpecTyped, PTL DEF Spec
-----------------------------------------------------------------------------
(* A stream on display is being polled *)

\* A poll that is out for a job survives what happens to another call.
LEMMA PollOutKept ==
  ASSUME TypeInv, NEW c \in Calls, NEW r, call' = [call EXCEPT ![c] = r], NEW j, PollOut(j),
         \/ ~IsPoll(c) \/ call[c].job # j
         \/ r.kind = call[c].kind /\ r.job = call[c].job
  PROVE  PollOut(j)'
<1>1. PICK p \in Polls : call[p].kind = "poll" /\ call[p].job = j
  BY DEF PollOut
<1>2. call'[p] = IF p = c THEN r ELSE call[p]
  BY DEF TypeInv, TypeOK
<1> QED BY <1>1, <1>2 DEF PollOut, IsPoll

\* So does one that is answered.
LEMMA PollOutAnswered ==
  ASSUME TypeInv, CallInv, NEW c \in Calls, NEW r, Answer(c, r),
         r.kind = call[c].kind, r.job = call[c].job, NEW j, PollOut(j)
  PROVE  PollOut(j)'
<1>1. PICK x \in {NoCall, r} :
        call' = [call EXCEPT ![c] = x] /\ (call[c].unheard = FALSE => x = r)
  BY Arrives
<1>2. ~IsPoll(c) \/ x = r
  BY <1>1, PollsHeard DEF IsPoll
<1> QED BY <1>1, <1>2, PollOutKept

LEMMA PollOutReplied ==
  ASSUME TypeInv, CallInv, NEW c \in Calls, NEW ok, Reply(c, ok), NEW j, PollOut(j)
  PROVE  PollOut(j)'
<1> DEFINE r == [call[c] EXCEPT !.at = "answered", !.ok = ok]
<1>1. call[c] \in CallType
  BY DEF TypeInv, TypeOK
<1>2. r.kind = call[c].kind /\ r.job = call[c].job
  BY <1>1 DEF CallType
<1>3. Answer(c, r)
  BY DEF Reply
<1> HIDE DEF r
<1> QED BY <1>2, <1>3, PollOutAnswered

LEMMA SamePolls == ASSUME UNCHANGED call, NEW j, PollOut(j) PROVE PollOut(j)'
BY DEF PollOut

LEMMA StillPolled ==
  ASSUME StreamIsPolled, UNCHANGED <<isStreaming, jobId, timer, strays>>,
         PollOut(jobId) => PollOut(jobId)'
  PROVE  StreamIsPolled'
BY DEF StreamIsPolled

LEMMA ArmedIsPolled ==
  ASSUME timer' = TRUE, isStreaming' => jobId' # 0 PROVE StreamIsPolled'
BY DEF StreamIsPolled

LEMMA NextPolled ==
  ASSUME TypeInv, CallInv, StreamIsPolled, [Next]_vars PROVE StreamIsPolled'
<1>0. call \in [Calls -> CallType] /\ strays \in Nat
  BY DEF TypeInv, TypeOK
<1>1. ASSUME NEW c \in Users, Click(c) PROVE StreamIsPolled'
  <2>1. PICK r : call' = [call EXCEPT ![c] = r] /\ call[c].at = "free"
    BY <1>1 DEF Click, Connect, Disconnect, StartStream, Pause, Resume, Cancel, Stop, Control, Issue
  <2>2. ~IsPoll(c)
    BY <2>1 DEF CallInv, CallOK, NoCall, IsPoll
  <2>3. UNCHANGED <<isStreaming, jobId, timer, strays>>
    BY <1>1 DEF Click, Connect, Disconnect, StartStream, Pause, Resume, Cancel, Stop, Control, view
  <2> QED BY <2>1, <2>2, <2>3, PollOutKept, StillPolled
<1>2. ASSUME NEW c \in Calls, Dealt(c) PROVE StreamIsPolled'
  <2>1. CASE \E s : EndJob(s)
    BY <2>1 DEF EndJob, StreamIsPolled
  <2>2. CASE Connected(c) /\ isStreaming' = FALSE
    BY <2>2 DEF StreamIsPolled
  <2>3. CASE ~IsPoll(c) /\ (\E r : call' = [call EXCEPT ![c] = r])
             /\ UNCHANGED <<isStreaming, jobId, timer, strays>>
    BY <2>3, PollOutKept, StillPolled
  <2>4. CASE Started(c) /\ ~StartAnswered(c)
    BY <2>3, <2>4 DEF Started, StartAnswered, Answered, Resolved, IsPoll, TypeInv, TypeOK, CallType
  <2>5. CASE Started(c) /\ StartAnswered(c)
    <3>1. call[c].job # 0
      BY <2>5 DEF StartAnswered, Answered, CallInv, CallOK
    <3>2. timer' = TRUE /\ jobId' = call[c].job
      BY <2>5 DEF Started, StartAnswered, SchedulePoll
    <3> QED BY <3>1, <3>2, ArmedIsPolled
  <2>6. CASE PollStale(c)
    <3>1. Resolved(c) /\ call[c].job # jobId /\ UNCHANGED <<isStreaming, jobId, timer, strays>>
      BY <2>6 DEF PollStale, view
    <3> QED BY <3>1, PollOutKept, StillPolled DEF Resolved
  <2>7. CASE SchedulePoll /\ UNCHANGED <<isStreaming, jobId>>
    BY <2>7, ArmedIsPolled DEF StreamIsPolled, SchedulePoll
  <2>8. CASE Connected(c) /\ UNCHANGED isStreaming
    BY <2>3, <2>8 DEF Connected, Answered, Resolved, IsPoll
  <2>9. CASE Disconnected(c) /\ ~(\E s : EndJob(s))
    BY <2>3, <2>9 DEF Disconnected, Answered, Resolved, IsPoll
  <2>10. CASE FileRead(c)
    <3>1. ~IsPoll(c) /\ UNCHANGED <<isStreaming, jobId, timer, strays>>
      BY <2>10 DEF FileRead, CallInv, CallOK, IsPoll, view
    <3>2. \E r : call' = [call EXCEPT ![c] = r]
      BY <2>10 DEF FileRead, Resolved
    <3> QED BY <2>3, <3>1, <3>2
  <2>11. CASE Paused(c) \/ Resumed(c) \/ StopSent(c)
    BY <2>3, <2>11 DEF Paused, Resumed, StopSent, Answered, Resolved, IsPoll, view
  <2>12. CASE Cancelled(c) \/ StopFailed(c) \/ Stopped(c) \/ PollOrphaned(c)
    BY <2>1, <2>12 DEF Cancelled, StopFailed, Stopped, PollOrphaned
  <2>13. CASE PollFailed(c) \/ PollApplied(c)
    BY <2>1, <2>7, <2>13 DEF PollFailed, PollApplied
  <2> QED BY <1>2, <2>2, <2>1, <2>4, <2>5, <2>6, <2>8, <2>9, <2>10, <2>11, <2>12, <2>13 DEF Dealt, Connected
<1>3. ASSUME NEW c \in Calls, Serve(c) PROVE StreamIsPolled'
  <2>1. UNCHANGED <<isStreaming, jobId, timer, strays>>
    BY <1>3 DEF Serve, ServeConnect, ServeClosing, ServeClosed, ServeStart, ServePoll, ServeControl,
                ServeStop, Unreachable, view
  <2>2. ASSUME NEW j, PollOut(j) PROVE PollOut(j)'
    <3>1. CASE \E ok : Reply(c, ok)
      BY <2>2, <3>1, PollOutReplied
    <3>2. CASE ServeClosing(c) \/ ServeStart(c)
      <4>1. ~IsPoll(c) /\ \E r : call' = [call EXCEPT ![c] = r]
        BY <3>2 DEF ServeClosing, ServeStart, Handles, IsPoll, Reply, Answer
      <4> QED BY <2>2, <4>1, PollOutKept
    <3>3. CASE ServePoll(c) /\ Answer(c, Report(c))
      <4>1. Report(c).kind = call[c].kind /\ Report(c).job = call[c].job
        BY <1>0 DEF CallType, Report
      <4> QED BY <2>2, <3>3, <4>1, PollOutAnswered
    <3> QED BY <1>3, <3>1, <3>2, <3>3 DEF Serve, ServeConnect, ServeClosed, ServePoll, ServeControl,
                ServeStop, Unreachable, Report
  <2> QED BY <2>1, <2>2 DEF StreamIsPolled, PollOut
<1>4. ASSUME NEW p \in Polls, PollTick(p) PROVE StreamIsPolled'
  <2>1. CASE jobId = 0
    BY <1>4, <2>1 DEF PollTick, StreamIsPolled
  <2>2. CASE jobId # 0
    <3>1. call' = [call EXCEPT ![p] = [NoCall EXCEPT !.kind = "poll", !.at = "sent",
                                                   !.job = jobId, !.from = since]]
          /\ jobId' = jobId
      BY <1>4, <2>2 DEF PollTick
    <3>2. call'[p].kind = "poll" /\ call'[p].job = jobId
      BY <1>0, <3>1 DEF NoCall
    <3> QED BY <2>2, <3>1, <3>2 DEF StreamIsPolled, PollOut
  <2> QED BY <2>1, <2>2
<1>5. CASE Reload
  BY <1>5 DEF Reload, StreamIsPolled
<1>6. CASE SidecarDies
  <2>1. \A p \in Polls : call[p].kind = "poll" => call'[p].kind = "poll" /\ call'[p].job = call[p].job
    BY <1>0, <1>6, PollsHeard DEF SidecarDies, CallType
  <2>2. UNCHANGED <<isStreaming, jobId, timer, strays>>
    BY <1>6 DEF SidecarDies, view
  <2> QED BY <2>1, <2>2, StillPolled DEF PollOut
<1>7. CASE PickFile \/ WorkerReports \/ Respawn \/ UNCHANGED vars
  BY <1>7, SamePolls, StillPolled DEF PickFile, WorkerReports, Respawn, vars, view
<1>8. ASSUME NEW c \in Calls, ReplyLost(c) PROVE StreamIsPolled'
  <2>1. [call[c] EXCEPT !.ok = FALSE].kind = call[c].kind /\ [call[c] EXCEPT !.ok = FALSE].job = call[c].job
    BY <1>0 DEF CallType
  <2>2. PollOut(jobId) => PollOut(jobId)'
    <3>1. UNCHANGED jobId /\ call' = [call EXCEPT ![c].ok = FALSE]
      BY <1>8 DEF ReplyLost, view
    <3>2. \A p \in Polls : call'[p].kind = call[p].kind /\ call'[p].job = call[p].job
      BY <1>0, <2>1, <3>1
    <3> QED BY <3>1, <3>2 DEF PollOut
  <2> QED BY <1>8, <2>2, StillPolled DEF ReplyLost, view
<1> QED BY <1>1, <1>2, <1>3, <1>4, <1>5, <1>6, <1>7, <1>8 DEF Next

\* Whatever is clicked, lost, retried or answered late, and however many streams,
\* polls and stray timers cross, a stream on display has a timer armed or a request
\* out for its job (startStream, #poll, #endJob).
THEOREM StreamsArePolled == Spec => []StreamIsPolled
<1>1. Init => StreamIsPolled
  BY DEF Init, StreamIsPolled
<1>2. TypeInv /\ CallInv /\ StreamIsPolled /\ [Next]_vars => StreamIsPolled'
  BY NextPolled
<1> QED BY <1>1, <1>2, SpecTyped, SpecCalls, PTL DEF Spec

-----------------------------------------------------------------------------
(* One poll loop shows every event once *)

\* As long as one process serves and one timer at a time is armed, a poll asks for
\* a job that was started, from a cursor within its log ...
PollKnown(c) ==
  IsPoll(c) =>
    /\ call[c].job \in 1..current
    /\ call[c].from <= Len(log[call[c].job])
    /\ call[c].at = "answered" /\ call[c].ok = TRUE =>
         call[c].from <= call[c].cursor /\ call[c].cursor <= Len(log[call[c].job])

\* ... the one for the job followed is alone, and no timer is armed beside it ...
LoopPoll(c) ==
  IsPoll(c) /\ call[c].job = jobId =>
    /\ timer = FALSE /\ call[c].from = since
    /\ \A d \in Calls : IsPoll(d) /\ call[d].job = jobId => d = c

\* ... and a job just started is not one that anything else asks for.
StartFresh(c) ==
  StartAnswered(c) =>
    /\ call[c].job \in 1..current /\ call[c].job # jobId
    /\ \A d \in Calls \ {c} : StartAnswered(d) \/ IsPoll(d) => call[d].job # call[c].job

LoopInv ==
  /\ alive = TRUE /\ jobId <= current
  /\ jobId # 0 => shown = since /\ since <= Len(log[jobId])
  /\ \A c \in Calls : PollKnown(c) /\ LoopPoll(c) /\ StartFresh(c)

\* A call that is neither a poll nor a start to be dealt with.
Plain(r) == r.kind # "poll" /\ ~(r.kind = "start" /\ r.at = "answered" /\ r.ok = TRUE)

\* The job service forgets nothing.
Grows ==
  /\ current <= current' /\ current' \in Nat
  /\ \A j \in 1..current : Len(log[j]) <= Len(log'[j]) /\ Len(log'[j]) \in Nat

\* Most steps leave the loop alone, or end it, and make no call that bears on it.
LEMMA LoopLeft ==
  ASSUME TypeInv, LoopInv, Grows, alive' = TRUE,
         \A d \in Calls : call'[d] = call[d] \/ Plain(call'[d]),
         jobId' = 0 \/ UNCHANGED <<jobId, since, shown, timer>>
  PROVE  LoopInv'
<1>0. /\ jobId \in Nat /\ since \in Nat /\ current \in Nat /\ current <= MaxJobs
      /\ call \in [Calls -> CallType]
      /\ \A j \in 1..current : Len(log[j]) \in Nat
  BY SessionAssumption DEF TypeInv, TypeOK, ServiceType
<1>1. jobId' <= current'
  BY <1>0 DEF LoopInv, Grows
<1>2. jobId' # 0 => shown' = since' /\ since' <= Len(log'[jobId'])
  <2> SUFFICES ASSUME jobId' # 0 PROVE shown' = since' /\ since' <= Len(log'[jobId'])
    OBVIOUS
  <2>1. jobId' = jobId /\ since' = since /\ shown' = shown /\ jobId \in 1..current
    BY <1>0 DEF LoopInv
  <2> QED BY <1>0, <2>1 DEF LoopInv, Grows
<1>3. ASSUME NEW c \in Calls PROVE PollKnown(c)'
  <2> SUFFICES ASSUME IsPoll(c)' PROVE PollKnown(c)'
    BY DEF PollKnown
  <2>1. call'[c] = call[c] /\ IsPoll(c) /\ PollKnown(c)
    BY DEF IsPoll, Plain, LoopInv
  <2>2. call[c].from \in Nat /\ call[c].cursor \in Nat /\ call[c].job \in Nat
    BY <1>0 DEF CallType
  <2>3. call[c].job \in 1..current /\ call[c].job \in 1..current'
    BY <1>0, <2>1, <2>2 DEF PollKnown, Grows
  <2>4. Len(log[call[c].job]) <= Len(log'[call[c].job]) /\ Len(log'[call[c].job]) \in Nat
    BY <2>3 DEF Grows
  <2>5. /\ call[c].from <= Len(log'[call[c].job])
        /\ call[c].at = "answered" /\ call[c].ok = TRUE =>
             call[c].from <= call[c].cursor /\ call[c].cursor <= Len(log'[call[c].job])
    <3> DEFINE m == Len(log[call[c].job])
               n == Len(log'[call[c].job])
    <3>1. m \in Nat /\ n \in Nat /\ m <= n
      BY <1>0, <2>3, <2>4
    <3>2. call[c].from <= m
      BY <2>1 DEF PollKnown
    <3>3. call[c].at = "answered" /\ call[c].ok = TRUE => call[c].from <= call[c].cursor /\ call[c].cursor <= m
      BY <2>1 DEF PollKnown
    <3> HIDE DEF m, n
    <3>4. call[c].from <= n
      BY <2>2, <3>1, <3>2
    <3>5. call[c].at = "answered" /\ call[c].ok = TRUE => call[c].from <= call[c].cursor /\ call[c].cursor <= n
      BY <2>2, <3>1, <3>3
    <3> QED BY <3>4, <3>5 DEF n
  <2> QED BY <2>1, <2>3, <2>5 DEF PollKnown
<1>4. ASSUME NEW c \in Calls PROVE LoopPoll(c)'
  <2> SUFFICES ASSUME IsPoll(c)', call'[c].job = jobId' PROVE LoopPoll(c)'
    BY DEF LoopPoll
  <2>1. call'[c] = call[c] /\ IsPoll(c) /\ PollKnown(c) /\ LoopPoll(c)
    BY DEF IsPoll, Plain, LoopInv
  <2>2. UNCHANGED <<jobId, since, shown, timer>>
    BY <1>0, <2>1 DEF PollKnown
  <2> QED BY <2>1, <2>2 DEF LoopPoll, IsPoll, Plain
<1>5. ASSUME NEW c \in Calls PROVE StartFresh(c)'
  <2> SUFFICES ASSUME StartAnswered(c)' PROVE StartFresh(c)'
    BY DEF StartFresh
  <2>1. call'[c] = call[c] /\ StartAnswered(c) /\ StartFresh(c)
    BY DEF StartAnswered, Answered, Plain, LoopInv
  <2>2. call[c].job \in 1..current' /\ call[c].job # jobId'
    BY <1>0, <2>1 DEF StartFresh, Grows
  <2> QED BY <2>1, <2>2 DEF StartFresh, StartAnswered, Answered, IsPoll, Plain
<1> QED BY <1>1, <1>2, <1>3, <1>4, <1>5 DEF LoopInv

\* A timer fires: the poll continues where the last one ended.
LEMMA LoopTick ==
  ASSUME TypeInv, LoopInv, strays = 0, NEW p \in Polls, PollTick(p) PROVE LoopInv'
<1>0. /\ jobId \in Nat /\ since \in Nat /\ current \in Nat /\ current <= MaxJobs
      /\ call \in [Calls -> CallType] /\ p \in Calls
  BY SessionAssumption DEF TypeInv, TypeOK
<1>1. /\ timer /\ timer' = FALSE /\ UNCHANGED <<jobId, since, shown>>
      /\ UNCHANGED service /\ alive' = alive
  BY DEF PollTick
<1>2. CASE UNCHANGED call /\ jobId = 0
  BY <1>0, <1>1, <1>2 DEF LoopInv, PollKnown, LoopPoll, StartFresh, IsPoll, StartAnswered, Answered
<1>3. CASE jobId # 0 /\ call' = [call EXCEPT ![p] = [NoCall EXCEPT !.kind = "poll", !.at = "sent",
                                                             !.job = jobId, !.from = since]]
  <2>1. \A d \in Calls : ~(IsPoll(d) /\ call[d].job = jobId)
    BY <1>1 DEF LoopInv, LoopPoll
  <2>2. /\ call'[p].kind = "poll" /\ call'[p].at = "sent" /\ call'[p].job = jobId
        /\ call'[p].from = since
        /\ \A d \in Calls \ {p} : call'[d] = call[d]
    BY <1>0, <1>3 DEF NoCall
  <2>3. ASSUME NEW c \in Calls PROVE PollKnown(c)'
    BY <1>0, <1>1, <1>3, <2>2 DEF PollKnown, LoopInv, IsPoll
  <2>4. ASSUME NEW c \in Calls PROVE LoopPoll(c)'
    BY <1>1, <2>1, <2>2 DEF LoopPoll, LoopInv, IsPoll
  <2>5. ASSUME NEW c \in Calls PROVE StartFresh(c)'
    BY <1>1, <2>2 DEF StartFresh, LoopInv, IsPoll, StartAnswered, Answered
  <2> QED BY <1>1, <2>3, <2>4, <2>5 DEF LoopInv
<1> QED BY <1>2, <1>3 DEF PollTick

\* The job is followed from its first event on.
LEMMA LoopStarts ==
  ASSUME TypeInv, LoopInv, NEW c \in Calls, Started(c), StartAnswered(c) PROVE LoopInv'
<1>0. /\ current \in Nat /\ call \in [Calls -> CallType]
  BY SessionAssumption DEF TypeInv, TypeOK
<1>1. /\ jobId' = call[c].job /\ since' = 0 /\ shown' = 0
      /\ UNCHANGED service /\ alive' = alive
  BY DEF Started, StartAnswered
<1>2. /\ Plain(call'[c]) /\ \A d \in Calls \ {c} : call'[d] = call[d]
  BY <1>0 DEF Started, Resolved, Plain, NoCall
<1>3. call[c].job \in 1..current /\ Len(log[call[c].job]) \in Nat
  BY <1>0 DEF LoopInv, StartFresh, TypeInv, TypeOK, ServiceType
<1>4. ASSUME NEW d \in Calls PROVE PollKnown(d)' /\ LoopPoll(d)' /\ StartFresh(d)'
  <2>1. CASE d = c
    BY <1>2, <2>1 DEF Plain, PollKnown, LoopPoll, StartFresh, IsPoll, StartAnswered, Answered
  <2>2. CASE d # c
    <3>1. PollKnown(d) /\ StartFresh(d) /\ StartFresh(c) /\ call'[d] = call[d]
      BY <1>2, <2>2 DEF LoopInv
    <3>2. PollKnown(d)'
      BY <1>1, <3>1 DEF PollKnown, IsPoll
    <3>3. LoopPoll(d)'
      BY <1>1, <2>2, <3>1 DEF LoopPoll, StartFresh, IsPoll
    <3>4. StartFresh(d)'
      BY <1>1, <1>2, <2>2, <3>1 DEF StartFresh, IsPoll, StartAnswered, Answered, Plain
    <3> QED BY <3>2, <3>3, <3>4
  <2> QED BY <2>1, <2>2
<1> QED BY <1>0, <1>1, <1>3, <1>4 DEF LoopInv

\* What the reply brings is what comes after the events shown.
LEMMA LoopGoesOn ==
  ASSUME TypeInv, LoopInv, NEW p \in Calls, IsPoll(p), call[p].job = jobId, Resolved(p),
         UNCHANGED service, alive' = alive, UNCHANGED jobId,
         \/ UNCHANGED <<since, shown>>
         \/ /\ call[p].at = "answered" /\ call[p].ok = TRUE /\ since' = call[p].cursor
            /\ shown' = shown + Cardinality(call[p].from + 1 .. call[p].cursor)
  PROVE  LoopInv'
<1>0. /\ call \in [Calls -> CallType] /\ shown \in Nat /\ since \in Nat
      /\ call[p].from \in Nat /\ call[p].cursor \in Nat
  BY DEF TypeInv, TypeOK, CallType
<1>1. PollKnown(p) /\ LoopPoll(p)
  BY DEF LoopInv
<1>2. jobId # 0 /\ shown = since /\ since <= Len(log[jobId]) /\ call[p].from = since
  BY <1>1 DEF LoopInv, PollKnown, LoopPoll
<1>3. shown' = since' /\ since' <= Len(log[jobId])
  <2>1. CASE UNCHANGED <<since, shown>>
    BY <1>2, <2>1
  <2>2. CASE /\ call[p].at = "answered" /\ call[p].ok = TRUE /\ since' = call[p].cursor
             /\ shown' = shown + Cardinality(call[p].from + 1 .. call[p].cursor)
    <3>1. call[p].from <= call[p].cursor /\ call[p].cursor <= Len(log[jobId])
      BY <1>1, <2>2 DEF PollKnown
    <3>2. Cardinality(call[p].from + 1 .. call[p].cursor) = call[p].cursor - call[p].from
      BY <1>0, <3>1, EventsCounted
    <3> QED BY <1>0, <1>2, <2>2, <3>1, <3>2
  <2> QED BY <2>1, <2>2
<1>4. /\ Plain(call'[p]) /\ \A d \in Calls \ {p} : call'[d] = call[d]
  BY <1>0 DEF Resolved, Plain, NoCall
<1>5. ASSUME NEW d \in Calls PROVE PollKnown(d)' /\ LoopPoll(d)' /\ StartFresh(d)'
  <2>1. CASE d = p
    BY <1>4, <2>1 DEF Plain, PollKnown, LoopPoll, StartFresh, IsPoll, StartAnswered, Answered
  <2>2. CASE d # p
    <3>1. PollKnown(d) /\ StartFresh(d) /\ call'[d] = call[d]
      BY <1>4, <2>2 DEF LoopInv
    <3>2. PollKnown(d)'
      BY <3>1 DEF PollKnown, IsPoll
    <3>3. LoopPoll(d)'
      BY <1>1, <2>2, <3>1 DEF LoopPoll, IsPoll
    <3>4. StartFresh(d)'
      BY <1>4, <3>1 DEF StartFresh, IsPoll, StartAnswered, Answered, Plain
    <3> QED BY <3>2, <3>3, <3>4
  <2> QED BY <2>1, <2>2
<1> QED BY <1>2, <1>3, <1>5 DEF LoopInv

\* The number of a new job is one that nothing asks for.
LEMMA LoopServesStart ==
  ASSUME TypeInv, LoopInv, NEW c \in Calls, ServeStart(c), Service!Start(current + 1),
         call' = [call EXCEPT ![c] = StartedAs(c)]
  PROVE  LoopInv'
<1>0. /\ current \in Nat /\ jobId \in Nat /\ since \in Nat /\ call \in [Calls -> CallType]
  BY SessionAssumption DEF TypeInv, TypeOK
<1>1. /\ UNCHANGED <<jobId, since, shown, timer, alive, log>> /\ current' = current + 1
  BY DEF ServeStart, view, Service!Start
<1>2. /\ call'[c].kind = "start" /\ call'[c].job = current + 1
      /\ \A d \in Calls \ {c} : call'[d] = call[d]
  BY <1>0 DEF ServeStart, Handles, CallType, StartedAs
<1>3. \A d \in Calls : /\ IsPoll(d) => call[d].job \in 1..current
                       /\ StartAnswered(d) => call[d].job \in 1..current
  BY DEF LoopInv, PollKnown, StartFresh
<1>4. ASSUME NEW d \in Calls PROVE PollKnown(d)' /\ LoopPoll(d)'
  BY <1>0, <1>1, <1>2 DEF LoopInv, PollKnown, LoopPoll, IsPoll
<1>5. ASSUME NEW d \in Calls PROVE StartFresh(d)'
  <2>1. CASE d = c
    BY <1>0, <1>1, <1>2, <1>3, <2>1 DEF LoopInv, StartFresh, StartAnswered, Answered, IsPoll
  <2>2. CASE d # c
    BY <1>0, <1>1, <1>2, <1>3, <2>2 DEF LoopInv, StartFresh, StartAnswered, Answered, IsPoll
  <2> QED BY <2>1, <2>2
<1> QED BY <1>0, <1>1, <1>4, <1>5 DEF LoopInv

\* A poll is answered with the whole log, or fails.
LEMMA LoopServesPoll ==
  ASSUME TypeInv, CallInv, LoopInv, NEW c \in Calls, ServePoll(c) \/ (IsPoll(c) /\ Unreachable(c))
  PROVE  LoopInv'
<1>0. /\ current \in Nat /\ jobId \in Nat /\ since \in Nat /\ call \in [Calls -> CallType]
      /\ call[c] \in CallType /\ (\A j \in 1..current : Len(log[j]) \in Nat)
      /\ IsPoll(c)
  <2>1. IsPoll(c)
    BY DEF ServePoll, Handles, IsPoll
  <2> QED BY <2>1, SessionAssumption DEF TypeInv, TypeOK, ServiceType
<1>1. UNCHANGED <<jobId, since, shown, timer, alive>> /\ UNCHANGED service
  BY DEF ServePoll, Unreachable, view
<1>2. /\ call'[c].kind = "poll" /\ call'[c].job = call[c].job /\ call'[c].from = call[c].from
      /\ \A d \in Calls \ {c} : call'[d] = call[d]
      /\ call'[c].ok = TRUE => /\ call[c].job = current /\ current # 0
                               /\ call'[c].cursor = Len(log[current])
  <2>1. call[c].unheard = FALSE
    BY <1>0, PollsHeard DEF IsPoll
  <2>2. CASE Reply(c, FALSE)
    <3>1. call' = [call EXCEPT ![c] = [call[c] EXCEPT !.at = "answered", !.ok = FALSE]]
      BY <2>1, <2>2 DEF Reply, Answer
    <3> QED BY <1>0, <3>1 DEF IsPoll, CallType
  <2>3. CASE KnownJob(c) /\ Answer(c, Report(c))
    <3>1. call' = [call EXCEPT ![c] = Report(c)]
      BY <2>1, <2>3 DEF Answer
    <3> QED BY <1>0, <2>3, <3>1 DEF IsPoll, CallType, Report, KnownJob
  <2> QED BY <2>2, <2>3 DEF ServePoll, Unreachable, Report
<1>3. PollKnown(c)'
  BY <1>0, <1>1, <1>2 DEF LoopInv, PollKnown, IsPoll
<1>4. ASSUME NEW d \in Calls, d # c PROVE PollKnown(d)'
  BY <1>1, <1>2, <1>4 DEF LoopInv, PollKnown, IsPoll
<1>5. ASSUME NEW d \in Calls PROVE LoopPoll(d)'
  BY <1>0, <1>1, <1>2 DEF LoopInv, LoopPoll, IsPoll
<1>6. ASSUME NEW d \in Calls PROVE StartFresh(d)'
  BY <1>0, <1>1, <1>2 DEF LoopInv, StartFresh, StartAnswered, Answered, IsPoll
<1> QED BY <1>1, <1>3, <1>4, <1>5, <1>6 DEF LoopInv

\* Only a crash forgets a job or an event.
LEMMA ServiceGrows ==
  ASSUME TypeInv,
         \/ UNCHANGED service
         \/ Service!Pause \/ Service!Resume \/ Service!Cancel
         \/ \E e \in {"progress", "action"} : Service!Record(e)
         \/ \E j \in Ids : Service!Complete(j) \/ Service!Fail(j)
  PROVE  Grows
<1>0. /\ current \in Nat /\ current <= MaxJobs
      /\ log \in [Ids -> Seq({"progress", "action", "complete", "error"})]
  BY SessionAssumption DEF TypeInv, TypeOK, ServiceType
<1>1. CASE UNCHANGED service \/ Service!Pause \/ Service!Resume \/ Service!Cancel
  <2>1. log' = log /\ current' = current
    BY <1>1 DEF Service!Pause, Service!Resume, Service!Cancel
  <2>2. \A j \in 1..current : Len(log[j]) \in Nat
    BY <1>0
  <2> QED BY <1>0, <2>1, <2>2 DEF Grows
<1>2. CASE \E j \in Ids, e \in {"progress", "action", "complete", "error"} :
             log' = [log EXCEPT ![j] = Append(@, e)] /\ current' = current
  <2>1. PICK j \in Ids, e \in {"progress", "action", "complete", "error"} :
          log' = [log EXCEPT ![j] = Append(@, e)] /\ current' = current
    BY <1>2
  <2>2. Len(log'[j]) = Len(log[j]) + 1 /\ Len(log[j]) \in Nat
        /\ \A i \in Ids \ {j} : log'[i] = log[i] /\ Len(log[i]) \in Nat
    BY <1>0, <2>1
  <2> QED BY <1>0, <2>1, <2>2 DEF Grows
<1>3. CASE \E e \in {"progress", "action"} : Service!Record(e)
  <2>1. current \in Ids
    BY <1>0, <1>3 DEF Service!Record
  <2> QED BY <1>2, <1>3, <2>1 DEF Service!Record, Service!Note
<1>4. CASE \E j \in Ids : Service!Complete(j) \/ Service!Fail(j)
  BY <1>2, <1>4 DEF Service!Complete, Service!Fail, Service!Note
<1> QED BY <1>1, <1>3, <1>4

\* An answer that is lost brings nothing.
LEMMA LoopLoses ==
  ASSUME TypeInv, LoopInv, NEW c \in Calls, ReplyLost(c) PROVE LoopInv'
<1>0. call \in [Calls -> CallType]
  BY DEF TypeInv, TypeOK
<1>1. UNCHANGED <<jobId, since, shown, timer, alive>> /\ UNCHANGED service
  BY DEF ReplyLost, view
<1>2. /\ call'[c].kind = call[c].kind /\ call'[c].job = call[c].job
      /\ call'[c].from = call[c].from /\ call'[c].ok = FALSE
      /\ \A d \in Calls \ {c} : call'[d] = call[d]
  BY <1>0 DEF ReplyLost, CallType
<1>3. \A d \in Calls : (IsPoll(d)' <=> IsPoll(d)) /\ (StartAnswered(d)' => StartAnswered(d))
                      /\ call'[d].job = call[d].job /\ call'[d].from = call[d].from
  BY <1>2 DEF IsPoll, StartAnswered, Answered
<1>4. ASSUME NEW d \in Calls PROVE PollKnown(d)'
  BY <1>1, <1>2, <1>3 DEF LoopInv, PollKnown
<1>5. ASSUME NEW d \in Calls PROVE LoopPoll(d)' /\ StartFresh(d)'
  BY <1>1, <1>3 DEF LoopInv, LoopPoll, StartFresh
<1> QED BY <1>1, <1>4, <1>5 DEF LoopInv

\* Every step keeps the loop.
LEMMA LoopNext ==
  ASSUME TypeInv, CallInv, LoopInv, crashes = 0 => strays = 0, [Next]_vars, crashes' = 0
  PROVE  LoopInv'
<1>0. call \in [Calls -> CallType] /\ alive = TRUE /\ crashes \in Nat
  BY SessionAssumption DEF TypeInv, TypeOK, LoopInv
<1>1. ASSUME NEW c \in Calls, NEW r, Plain(r), call' = [call EXCEPT ![c] = r]
      PROVE  \A d \in Calls : call'[d] = call[d] \/ Plain(call'[d])
  BY <1>0, <1>1
<1>2. Plain(NoCall)
  BY DEF Plain, NoCall
<1>3. ASSUME UNCHANGED sidecar PROVE Grows /\ alive' = TRUE
  BY <1>0, <1>3, ServiceGrows
<1>4. ASSUME NEW c \in Calls, Resolved(c), UNCHANGED sidecar,
             jobId' = 0 \/ UNCHANGED <<jobId, since, shown, timer>>
      PROVE  LoopInv'
  BY <1>1, <1>2, <1>3, <1>4, LoopLeft DEF Resolved
<1>5. ASSUME NEW c \in Users, Click(c) PROVE LoopInv'
  <2>1. PICK k \in {"connect", "disconnect", "start", "pause", "resume", "cancel", "stop"},
             at \in {"reading", "sent"} : Issue(c, k, at)
    BY <1>5 DEF Click, Connect, Disconnect, StartStream, Pause, Resume, Cancel, Stop, Control
  <2>2. Plain([NoCall EXCEPT !.kind = k, !.at = at, !.job = jobId])
    BY DEF Plain, NoCall
  <2>3. UNCHANGED sidecar /\ UNCHANGED <<jobId, since, shown, timer>>
    BY <1>5 DEF Click, Connect, Disconnect, StartStream, Pause, Resume, Cancel, Stop, Control, view
  <2> QED BY <1>1, <1>3, <2>1, <2>2, <2>3, LoopLeft DEF Issue
<1>6. ASSUME NEW c \in Calls, Dealt(c) PROVE LoopInv'
  <2>0. UNCHANGED sidecar
    BY <1>6 DEF Dealt, Connected, Disconnected, FileRead, Started, Paused, Resumed, Cancelled, StopSent,
           StopFailed, Stopped, PollStale, PollFailed, PollOrphaned, PollApplied
  <2>1. CASE Resolved(c) /\ \E s : EndJob(s)
    BY <1>4, <2>0, <2>1 DEF EndJob
  <2>2. CASE Connected(c) \/ Paused(c) \/ Resumed(c) \/ PollStale(c)
    BY <1>4, <2>0, <2>2 DEF Connected, Paused, Resumed, PollStale, view
  <2>3. CASE Disconnected(c)
    BY <1>4, <2>0, <2>1, <2>3 DEF Disconnected
  <2>4. CASE FileRead(c)
    <3>1. CASE Resolved(c)
      BY <1>4, <2>0, <2>4, <3>1 DEF FileRead, view
    <3>2. CASE call' = [call EXCEPT ![c].at = "sent"]
      <4>1. Plain([call[c] EXCEPT !.at = "sent"])
        BY <1>0, <2>4 DEF FileRead, CallInv, CallOK, Plain, CallType
      <4>2. UNCHANGED <<jobId, since, shown, timer>>
        BY <2>4 DEF FileRead, view
      <4> QED BY <1>1, <1>3, <2>0, <3>2, <4>1, <4>2, LoopLeft
    <3> QED BY <2>4, <3>1, <3>2 DEF FileRead
  <2>5. CASE Started(c)
    <3>1. CASE StartAnswered(c)
      BY <2>5, <3>1, LoopStarts
    <3>2. CASE ~StartAnswered(c)
      <4>1. call[c].ok \in BOOLEAN
        BY <1>0 DEF CallType
      <4>2. UNCHANGED <<jobId, since, shown, timer>> /\ Resolved(c)
        BY <2>5, <3>2, <4>1 DEF Started, StartAnswered
      <4> QED BY <1>4, <2>0, <4>2
    <3> QED BY <3>1, <3>2
  <2>6. CASE StopSent(c)
    <3>1. Plain([NoCall EXCEPT !.kind = "close", !.at = "sent"])
      BY DEF Plain, NoCall
    <3>2. UNCHANGED <<jobId, since, shown, timer>>
      BY <2>6 DEF StopSent, view
    <3> QED BY <1>1, <1>3, <2>0, <2>6, <3>1, <3>2, LoopLeft DEF StopSent
  <2>7. CASE Cancelled(c) \/ StopFailed(c) \/ Stopped(c) \/ PollOrphaned(c)
    BY <2>1, <2>7 DEF Cancelled, StopFailed, Stopped, PollOrphaned
  <2>8. CASE PollFailed(c)
    BY <2>0, <2>1, <2>8, LoopGoesOn DEF PollFailed, IsPoll, Answered
  <2>9. CASE PollApplied(c)
    <3>1. call[c].ok = TRUE
      BY <1>0, <2>9 DEF PollApplied, CallType
    <3> QED BY <2>0, <2>1, <2>9, <3>1, LoopGoesOn DEF PollApplied, IsPoll, Answered
  <2> QED BY <1>6, <2>2, <2>3, <2>4, <2>5, <2>6, <2>7, <2>8, <2>9 DEF Dealt
<1>7. ASSUME NEW c \in Calls, Serve(c) PROVE LoopInv'
  <2>1. alive' = TRUE /\ UNCHANGED <<jobId, since, shown, timer>>
    BY <1>0, <1>7 DEF Serve, ServeConnect, ServeClosing, ServeClosed, ServeStart, ServePoll, ServeControl,
                ServeStop, Unreachable, view
  <2>2. CASE ServePoll(c)
    BY <2>2, LoopServesPoll
  <2>3. CASE ServeStart(c) /\ Service!Start(current + 1)
    <3>1. current' = current + 1 /\ current \in Nat
      BY <2>3, SessionAssumption DEF Service!Start, TypeInv, TypeOK
    <3>2. current' # current
      BY <3>1
    <3>3. Answer(c, StartedAs(c))
      BY <2>3, <3>2 DEF ServeStart, StartedAs
    <3>4. CASE call[c].unheard = FALSE
      BY <2>3, <3>3, <3>4, LoopServesStart DEF Answer
    <3>5. CASE call[c].unheard = TRUE
      <4>1. call' = [call EXCEPT ![c] = NoCall]
        BY <3>3, <3>5 DEF Answer
      <4>2. Grows
        BY <2>3, <3>1 DEF Service!Start, Grows, TypeInv, TypeOK, ServiceType
      <4> QED BY <1>1, <1>2, <2>1, <4>1, <4>2, LoopLeft
    <3>6. call[c].unheard \in BOOLEAN
      BY <1>0 DEF CallType
    <3> QED BY <3>4, <3>5, <3>6
  <2>4. ASSUME NEW ok, Reply(c, ok), call[c].kind # "poll", call[c].kind = "start" => ok = FALSE
        PROVE  \A d \in Calls : call'[d] = call[d] \/ Plain(call'[d])
    <3>1. Plain([call[c] EXCEPT !.at = "answered", !.ok = ok])
      BY <1>0, <2>4 DEF Plain, CallType
    <3>2. PICK x \in {NoCall, [call[c] EXCEPT !.at = "answered", !.ok = ok]} :
            call' = [call EXCEPT ![c] = x]
      BY <2>4, Arrives DEF Reply
    <3> QED BY <1>1, <1>2, <3>1, <3>2
  <2>5. CASE ServeStart(c) /\ Reply(c, FALSE) /\ UNCHANGED service
    <3>1. call[c].kind = "start"
      BY <2>5 DEF ServeStart, Handles
    <3> QED BY <2>1, <2>4, <2>5, <3>1, ServiceGrows, LoopLeft
  <2>6. CASE ServeConnect(c) \/ ServeStop(c)
    <3>1. call[c].kind \in {"connect", "stop"} /\ UNCHANGED service
      BY <2>6 DEF ServeConnect, ServeStop, Handles
    <3>2. Reply(c, TRUE) \/ Reply(c, FALSE)
      BY <2>6 DEF ServeConnect, ServeStop
    <3> QED BY <2>1, <2>4, <3>1, <3>2, ServiceGrows, LoopLeft
  <2>7. CASE ServeClosing(c)
    <3>1. Plain([call[c] EXCEPT !.at = "closing"])
      BY <1>0, <2>7 DEF ServeClosing, Handles, Plain, CallType
    <3>2. Grows
      BY <2>7, ServiceGrows DEF ServeClosing
    <3> QED BY <1>1, <2>1, <2>7, <3>1, <3>2, LoopLeft DEF ServeClosing
  <2>8. CASE ServeClosed(c)
    <3>1. call[c].kind \in {"disconnect", "close"} /\ UNCHANGED service /\ Reply(c, TRUE)
      BY <2>8 DEF ServeClosed, CallInv, CallOK
    <3> QED BY <2>1, <2>4, <3>1, ServiceGrows, LoopLeft
  <2>9. CASE ServeControl(c)
    <3>1. call[c].kind \in {"pause", "resume", "cancel"}
      BY <2>9 DEF ServeControl, Handles
    <3>2. Grows
      BY <2>9, ServiceGrows DEF ServeControl
    <3>3. Reply(c, TRUE) \/ Reply(c, FALSE)
      BY <2>9 DEF ServeControl
    <3> QED BY <2>1, <2>4, <3>1, <3>2, <3>3, LoopLeft
  <2>10. CASE Unreachable(c)
    <3>1. CASE IsPoll(c)
      BY <2>10, <3>1, LoopServesPoll
    <3>2. CASE ~IsPoll(c)
      BY <2>1, <2>4, <2>10, <3>2, ServiceGrows, LoopLeft DEF Unreachable, IsPoll
    <3> QED BY <3>1, <3>2
  <2> QED BY <1>0, <1>7, <2>2, <2>3, <2>5, <2>6, <2>7, <2>8, <2>9, <2>10 DEF Serve, ServeStart
<1>8. ASSUME NEW p \in Polls, PollTick(p) PROVE LoopInv'
  BY <1>8, LoopTick DEF PollTick
<1>9. CASE Reload \/ PickFile \/ UNCHANGED vars
  <2>1. UNCHANGED sidecar /\ (jobId' = 0 \/ UNCHANGED <<jobId, since, shown, timer>>)
    BY <1>9 DEF Reload, PickFile, vars, view
  <2>2. \A d \in Calls : call'[d] = call[d] \/ Plain(call'[d])
    <3>1. \A d \in Calls : Plain(LeftBehind(call[d]))
      BY <1>0, <1>2 DEF LeftBehind, Plain, CallType
    <3> QED BY <1>9, <3>1 DEF Reload, PickFile, vars
  <2> QED BY <1>3, <2>1, <2>2, LoopLeft
<1>10. CASE WorkerReports
  <2>1. Grows
    BY <1>10, ServiceGrows DEF WorkerReports
  <2>2. UNCHANGED <<call, alive>> /\ UNCHANGED <<jobId, since, shown, timer>>
    BY <1>10 DEF WorkerReports, view
  <2> QED BY <1>0, <2>1, <2>2, LoopLeft
<1>11. CASE SidecarDies \/ Respawn
  BY <1>0, <1>11 DEF SidecarDies, Respawn
<1>12. ASSUME NEW c \in Calls, ReplyLost(c) PROVE LoopInv'
  BY <1>12, LoopLoses
<1> QED BY <1>5, <1>6, <1>7, <1>8, <1>9, <1>10, <1>11, <1>12 DEF Next

\* It is so until the process crashes: the next one starts its numbers anew.
OneLoop == crashes = 0 => LoopInv

LEMMA OneLoopInit == Init => OneLoop
BY DEF Init, OneLoop, LoopInv, PollKnown, LoopPoll, StartFresh, IsPoll, StartAnswered, Answered,
       NoCall, Service!JobInit

\* Crashes are counted and not forgotten.
LEMMA CrashesStay ==
  ASSUME TypeInv, [Next]_vars, crashes' = 0 PROVE crashes = 0
<1>1. CASE SidecarDies
  BY <1>1, SessionAssumption DEF SidecarDies, TypeInv, TypeOK
<1>2. ASSUME NEW c \in Users, Click(c) PROVE UNCHANGED crashes
  BY <1>2 DEF Click, Connect, Disconnect, StartStream, Pause, Resume, Cancel, Stop, Control
<1>3. ASSUME NEW c \in Calls, Dealt(c) PROVE UNCHANGED crashes
  BY <1>3 DEF Dealt, Connected, Disconnected, FileRead, Started, Paused, Resumed, Cancelled, StopSent,
         StopFailed, Stopped, PollStale, PollFailed, PollOrphaned, PollApplied
<1>4. ASSUME NEW c \in Calls, Serve(c) PROVE UNCHANGED crashes
  BY <1>4 DEF Serve, ServeConnect, ServeClosing, ServeClosed, ServeStart, ServePoll, ServeControl,
         ServeStop, Unreachable
<1>5. ASSUME NEW p \in Polls, PollTick(p) PROVE UNCHANGED crashes
  BY <1>5 DEF PollTick
<1>6. CASE Reload \/ PickFile \/ WorkerReports \/ Respawn \/ UNCHANGED vars \/ \E c \in Calls : ReplyLost(c)
  BY <1>6 DEF Reload, PickFile, WorkerReports, Respawn, ReplyLost, vars
<1> QED BY <1>1, <1>2, <1>3, <1>4, <1>5, <1>6 DEF Next

\* No timer is armed that #pollTimer does not name.
NoStrays == crashes = 0 => strays = 0

\* While no timer runs that #pollTimer does not name, each event of a job is shown
\* exactly once, however polls, controls and ends of jobs interleave (#poll's check
\* that the job is still the one it asked for, after its await).
THEOREM EventsAreSeenOnce == Spec /\ []NoStrays => []EventsSeenOnce
<1>1. TypeInv /\ CallInv /\ NoStrays /\ OneLoop /\ [Next]_vars => OneLoop'
  BY LoopNext, CrashesStay DEF OneLoop, NoStrays
<1>2. OneLoop => EventsSeenOnce
  BY DEF OneLoop, LoopInv, EventsSeenOnce
<1> QED BY <1>1, <1>2, OneLoopInit, SpecTyped, SpecCalls, PTL DEF Spec

-----------------------------------------------------------------------------
(* A user who waits for every call keeps one poll loop *)

\* The user waits for the call before: no two clicks of this page are out at once.
Waiting(c) == call[c].at # "free" /\ call[c].unheard = FALSE
OneAtATime == \A c, d \in Users : Waiting(c) /\ Waiting(d) => c = d

\* A start or a connect of this page.
Begins(r) == r.kind \in {"start", "connect"} /\ r.unheard = FALSE

\* A job is followed exactly while it is on display, and never while a start or a
\* connect is out.
Display ==
  /\ isStreaming = TRUE <=> jobId # 0
  /\ status \in {"disconnected", "connecting"} => jobId = 0
  /\ \A c \in Calls : Begins(call[c]) => jobId = 0

\* A step that changes neither, and issues neither a start nor a connect, keeps it;
LEMMA DisplayLeft ==
  ASSUME TypeInv, Display, UNCHANGED <<isStreaming, jobId>>,
         status' \in {status, "connected", "paused"},
         \A d \in Calls : Begins(call'[d]) => Begins(call[d])
  PROVE  Display'
BY DEF Display

\* so does the end of a job.
LEMMA DisplayEnds ==
  ASSUME jobId' = 0, isStreaming' = FALSE PROVE Display'
BY DEF Display

LEMMA DisplayNext ==
  ASSUME TypeInv, CallInv, OneAtATime, Display, [Next]_vars PROVE Display'
<1>0. call \in [Calls -> CallType]
  BY DEF TypeInv, TypeOK
<1>1. ASSUME NEW c \in Calls, NEW r, call' = [call EXCEPT ![c] = r], Begins(r) => Begins(call[c])
      PROVE  \A d \in Calls : Begins(call'[d]) => Begins(call[d])
  BY <1>0, <1>1
<1>2. ~Begins(NoCall)
  BY DEF NoCall, Begins
<1>3. ASSUME NEW c \in Calls, Resolved(c), UNCHANGED <<isStreaming, jobId>>,
             status' \in {status, "connected", "paused"}
      PROVE  Display'
  BY <1>1, <1>2, <1>3, DisplayLeft DEF Resolved
<1>4. ASSUME NEW c \in Users, Click(c) PROVE Display'
  <2>1. PICK k \in {"connect", "disconnect", "start", "pause", "resume", "cancel", "stop"},
             at \in {"reading", "sent"} :
          /\ Issue(c, k, at)
          /\ k \in {"connect", "start"} => jobId = 0
          /\ status' = status \/ jobId = 0
    BY <1>4 DEF Click, Connect, Disconnect, StartStream, Pause, Resume, Cancel, Stop, Control, Display, view
  <2>2. UNCHANGED <<jobId, isStreaming>>
    BY <1>4 DEF Click, Connect, Disconnect, StartStream, Pause, Resume, Cancel, Stop, Control, view
  <2>3. \A d \in Calls : call'[d] = IF d = c THEN [NoCall EXCEPT !.kind = k, !.at = at, !.job = jobId]
                                    ELSE call[d]
    BY <1>0, <2>1 DEF Issue
  <2>4. [NoCall EXCEPT !.kind = k, !.at = at, !.job = jobId].kind = k
    BY DEF NoCall
  <2> QED BY <2>1, <2>2, <2>3, <2>4 DEF Display, Begins
<1>5. ASSUME NEW c \in Calls, Dealt(c) PROVE Display'
  <2>1. CASE \E s : EndJob(s)
    BY <2>1, DisplayEnds DEF EndJob
  <2>2. CASE Connected(c)
    <3>1. jobId = 0 /\ jobId' = 0
      BY <2>2, AnsweredHeard DEF Connected, Answered, Display, Begins
    <3>2. isStreaming' = FALSE
      <4>1. isStreaming = FALSE
        BY <3>1 DEF Display, TypeInv, TypeOK
      <4> QED BY <2>2, <4>1 DEF Connected
    <3> QED BY <3>1, <3>2, DisplayEnds
  <2>3. CASE Started(c) /\ StartAnswered(c)
    <3>1. c \in Users /\ call[c].job # 0 /\ Waiting(c)
      BY <2>3, AnsweredHeard DEF StartAnswered, Answered, CallInv, CallOK, Waiting
    <3>2. ASSUME NEW d \in Calls, d # c PROVE ~Begins(call[d])
      BY <3>1, <3>2 DEF OneAtATime, Waiting, Begins, CallInv, CallOK, NoCall
    <3>3. jobId' = call[c].job /\ isStreaming' = TRUE /\ status' = "connected"
      BY <2>3 DEF Started, StartAnswered
    <3>4. \A d \in Calls : call'[d] = IF d = c THEN NoCall ELSE call[d]
      BY <1>0, <2>3 DEF Started, Resolved
    <3> QED BY <1>2, <3>1, <3>2, <3>3, <3>4 DEF Display
  <2>4. CASE Started(c) /\ ~StartAnswered(c)
    <3>1. UNCHANGED <<jobId, isStreaming, status>>
      BY <1>0, <2>4 DEF Started, StartAnswered, CallType
    <3> QED BY <1>3, <2>4, <3>1 DEF Started
  <2>5. CASE FileRead(c) \/ StopSent(c)
    <3>1. /\ Begins([call[c] EXCEPT !.at = "sent"]) => Begins(call[c])
          /\ ~Begins([NoCall EXCEPT !.kind = "close", !.at = "sent"])
      BY <1>0 DEF CallType, NoCall, Begins
    <3>2. \A d \in Calls : Begins(call'[d]) => Begins(call[d])
      BY <1>1, <1>2, <2>5, <3>1 DEF FileRead, StopSent, Resolved
    <3> QED BY <2>5, <3>2, DisplayLeft DEF FileRead, StopSent, view
  <2>6. CASE Paused(c) \/ Resumed(c) \/ PollStale(c)
    BY <1>3, <2>6 DEF Paused, Resumed, PollStale, view
  <2>7. CASE Disconnected(c)
    BY <1>3, <2>1, <2>7 DEF Disconnected
  <2>8. CASE Cancelled(c) \/ StopFailed(c) \/ Stopped(c) \/ PollOrphaned(c)
    BY <2>1, <2>8 DEF Cancelled, StopFailed, Stopped, PollOrphaned
  <2>9. CASE PollFailed(c)
    BY <1>3, <2>1, <2>9 DEF PollFailed
  <2>10. CASE PollApplied(c)
    BY <1>3, <2>1, <2>10 DEF PollApplied
  <2> QED BY <1>5, <2>2, <2>3, <2>4, <2>5, <2>6, <2>7, <2>8, <2>9, <2>10 DEF Dealt
<1>6. ASSUME NEW c \in Calls, Serve(c) PROVE Display'
  <2>1. UNCHANGED <<isStreaming, jobId, status>>
    BY <1>6 DEF Serve, ServeConnect, ServeClosing, ServeClosed, ServeStart, ServePoll, ServeControl,
                ServeStop, Unreachable, view
  <2>2. ASSUME NEW r, Answer(c, r), r.kind = call[c].kind, r.unheard = call[c].unheard
        PROVE  \A d \in Calls : Begins(call'[d]) => Begins(call[d])
    <3>1. PICK x \in {NoCall, r} : call' = [call EXCEPT ![c] = x]
      BY <2>2, Arrives
    <3> QED BY <1>1, <1>2, <2>2, <3>1 DEF Begins
  <2>3. CASE \E ok : Reply(c, ok)
    <3>1. PICK ok : Reply(c, ok)
      BY <2>3
    <3>2. /\ [call[c] EXCEPT !.at = "answered", !.ok = ok].kind = call[c].kind
          /\ [call[c] EXCEPT !.at = "answered", !.ok = ok].unheard = call[c].unheard
      BY <1>0 DEF CallType
    <3> QED BY <2>1, <2>2, <3>1, <3>2, DisplayLeft DEF Reply
  <2>4. CASE Answer(c, StartedAs(c)) \/ Answer(c, Report(c))
    <3>1. /\ StartedAs(c).kind = call[c].kind /\ StartedAs(c).unheard = call[c].unheard
          /\ Report(c).kind = call[c].kind /\ Report(c).unheard = call[c].unheard
      BY <1>0 DEF CallType, StartedAs, Report
    <3> QED BY <2>1, <2>2, <2>4, <3>1, DisplayLeft
  <2>5. CASE ServeClosing(c)
    <3>1. Begins([call[c] EXCEPT !.at = "closing"]) => Begins(call[c])
      BY <1>0 DEF CallType, Begins
    <3> QED BY <1>1, <2>1, <2>5, <3>1, DisplayLeft DEF ServeClosing
  <2> QED BY <1>6, <2>3, <2>4, <2>5 DEF Serve, ServeConnect, ServeClosed, ServeStart, ServePoll,
            ServeControl, ServeStop, Unreachable, StartedAs, Report
<1>7. ASSUME NEW p \in Polls, PollTick(p) PROVE Display'
  <2>1. \A d \in Calls : Begins(call'[d]) => Begins(call[d])
    BY <1>0, <1>7 DEF PollTick, NoCall, Begins
  <2> QED BY <1>7, <2>1, DisplayLeft DEF PollTick
<1>8. CASE Reload
  BY <1>8, DisplayEnds DEF Reload
<1>9. CASE PickFile \/ WorkerReports \/ Respawn \/ SidecarDies \/ UNCHANGED vars \/ \E c \in Calls : ReplyLost(c)
  <2>1. \A d \in Calls : Begins(call'[d]) => Begins(call[d])
    <3>1. CASE SidecarDies
      BY <1>0, <1>2, <3>1 DEF SidecarDies, CallType, Begins
    <3>2. CASE \E c \in Calls : ReplyLost(c)
      BY <1>0, <3>2 DEF ReplyLost, CallType, Begins
    <3> QED BY <1>9, <3>1, <3>2 DEF PickFile, WorkerReports, Respawn, vars
  <2> QED BY <1>9, <2>1, DisplayLeft DEF PickFile, WorkerReports, Respawn, SidecarDies, ReplyLost, vars, view
<1> QED BY <1>4, <1>5, <1>6, <1>7, <1>8, <1>9 DEF Next

\* No timer is armed without a job, nor a second one beside the loop's.
OneTimer == crashes = 0 => strays = 0 /\ (jobId = 0 => timer = FALSE)

LEMMA OneTimerNext ==
  ASSUME TypeInv, CallInv, OneLoop, Display, OneTimer, [Next]_vars PROVE OneTimer'
<1> SUFFICES ASSUME crashes' = 0 PROVE strays' = 0 /\ (jobId' = 0 => timer' = FALSE)
  BY DEF OneTimer
<1>0. crashes = 0 /\ LoopInv /\ strays = 0 /\ (jobId = 0 => timer = FALSE)
      /\ call \in [Calls -> CallType] /\ timer \in BOOLEAN
  BY CrashesStay DEF OneLoop, OneTimer, TypeInv, TypeOK
<1>1. ASSUME NEW c \in Calls, Dealt(c) PROVE strays' = 0 /\ (jobId' = 0 => timer' = FALSE)
  <2>1. CASE UNCHANGED <<strays, timer, jobId>>
    BY <1>0, <2>1
  <2>2. CASE UNCHANGED strays /\ \E s : EndJob(s)
    BY <1>0, <2>2 DEF EndJob
  <2>3. CASE SchedulePoll /\ timer = FALSE /\ jobId' # 0
    BY <1>0, <2>3 DEF SchedulePoll
  <2>4. CASE Started(c)
    <3>1. timer = FALSE
      BY <1>0, <2>4, AnsweredHeard DEF Started, Answered, Display, Begins
    <3> QED BY <2>1, <2>3, <2>4, <3>1 DEF Started, CallInv, CallOK, Answered
  <2>5. CASE IsPoll(c) /\ call[c].job = jobId /\ UNCHANGED jobId /\ SchedulePoll
    <3>1. timer = FALSE /\ jobId # 0
      BY <1>0, <2>5 DEF LoopInv, LoopPoll, PollKnown
    <3> QED BY <2>3, <2>5, <3>1
  <2>6. CASE PollFailed(c) \/ PollApplied(c)
    BY <2>2, <2>5, <2>6 DEF PollFailed, PollApplied, Answered, IsPoll
  <2>7. CASE Connected(c) \/ FileRead(c) \/ StopSent(c) \/ Paused(c) \/ Resumed(c) \/ PollStale(c)
    BY <2>1, <2>7 DEF Connected, FileRead, StopSent, Paused, Resumed, PollStale, view
  <2>8. CASE Disconnected(c) \/ Cancelled(c) \/ StopFailed(c) \/ Stopped(c) \/ PollOrphaned(c)
    BY <2>1, <2>2, <2>8 DEF Disconnected, Cancelled, StopFailed, Stopped, PollOrphaned
  <2> QED BY <1>1, <2>4, <2>6, <2>7, <2>8 DEF Dealt
<1>2. ASSUME NEW c \in Calls, Click(c) \/ Serve(c) PROVE UNCHANGED <<strays, timer, jobId>>
  BY <1>2 DEF Click, Connect, Disconnect, StartStream, Pause, Resume, Cancel, Stop, Control, Serve,
       ServeConnect, ServeClosing, ServeClosed, ServeStart, ServePoll, ServeControl,
       ServeStop, Unreachable, view
<1>3. ASSUME NEW p \in Polls, PollTick(p) PROVE strays' = 0 /\ (jobId' = 0 => timer' = FALSE)
  BY <1>0, <1>3 DEF PollTick
<1>4. CASE Reload
  BY <1>4 DEF Reload
<1>5. CASE PickFile \/ WorkerReports \/ Respawn \/ SidecarDies \/ UNCHANGED vars \/ \E c \in Calls : ReplyLost(c)
  BY <1>0, <1>5 DEF PickFile, WorkerReports, Respawn, SidecarDies, ReplyLost, vars, view
<1> QED BY <1>0, <1>1, <1>2, <1>3, <1>4, <1>5 DEF Next

LEMMA DisplayInit == Init => Display /\ OneTimer
BY DEF Init, Display, OneTimer, NoCall, Begins

\* The three are inductive together.
LEMMA OneUserOneLoop == Spec /\ []OneAtATime => [](OneLoop /\ OneTimer /\ Display)
<1>1. TypeInv /\ CallInv /\ OneAtATime /\ Display /\ OneTimer /\ OneLoop /\ [Next]_vars
        => OneLoop' /\ OneTimer' /\ Display'
  <2> SUFFICES ASSUME TypeInv, CallInv, OneAtATime, Display, OneTimer, OneLoop, [Next]_vars
               PROVE  OneLoop' /\ OneTimer' /\ Display'
    OBVIOUS
  <2>1. OneLoop'
    BY LoopNext, CrashesStay DEF OneLoop, OneTimer
  <2> QED BY <2>1, DisplayNext, OneTimerNext
<1> QED BY <1>1, OneLoopInit, DisplayInit, SpecTyped, SpecCalls, PTL DEF Spec

\* A user who waits for every call has one poll loop, so sees every event once;
\* retries, stale polls and ends of jobs arm no second timer (#schedulePoll).
THEOREM OneUserSeesEventsOnce == Spec /\ []OneAtATime => []EventsSeenOnce
<1>1. OneLoop => EventsSeenOnce
  BY DEF OneLoop, LoopInv, EventsSeenOnce
<1> QED BY <1>1, OneUserOneLoop, PTL

-----------------------------------------------------------------------------
(* A user who waits for every call never loses a running job *)

\* A job runs, and on a host that is still the one of the port.
LiveJob == JobRunning /\ adrift = FALSE

\* The job runs, and the reply that will make the session follow it is there.
StartPending == \E c \in Calls : StartAnswered(c) /\ call[c].job = current

\* What a call on its way says of the job that runs, of its number and of the port:
\* a reply that makes the session give up a job means that the job is over, or that
\* its port is closed.
Follows(r, cur, live, closed) ==
  /\ r.unheard = FALSE
  /\ r.kind = "poll" => r.job \in 1..cur
  /\ r.kind = "poll" /\ r.at = "answered" /\ r.job = cur =>
       r.ok = TRUE /\ (r.state \in TerminalStates => ~live)
  /\ r.kind = "start" /\ r.at = "answered" /\ r.ok = TRUE => r.job = cur
  /\ r.kind \in {"disconnect", "close"} /\ r.at = "answered" => closed
  /\ r.kind = "stop" /\ r.at = "answered" /\ r.ok = FALSE => closed
  /\ r.kind = "cancel" /\ live => r.job = cur /\ r.at # "answered"

\* The inductive invariant: a live job is followed, or will be when the reply to
\* its start is dealt with.
Follow ==
  /\ alive = TRUE /\ jobId <= current /\ port # "dropped"
  /\ port = "closed" => ~LiveJob
  /\ LiveJob => jobId = current \/ StartPending
  /\ \A c \in Calls : Follows(call[c], current, LiveJob, port = "closed")

\* What a step must show when it changes one call and starts no job.
LEMMA FollowStep ==
  ASSUME TypeInv, Follow, alive' = TRUE, current' = current, LiveJob' => LiveJob,
         port' # "dropped", port' = "closed" => ~LiveJob',
         NEW c \in Calls, NEW r, call' = [call EXCEPT ![c] = r], ~StartAnswered(c),
         Follows(r, current, LiveJob', port' = "closed"),
         jobId' = jobId \/ (jobId' = 0 /\ (LiveJob => StartPending)),
         \/ port = "closed" => port' = "closed"
         \/ \A d \in Calls \ {c} : call[d].at = "free" \/ call[d].kind \in {"none", "poll"}
  PROVE  Follow'
<1>0. call \in [Calls -> CallType] /\ current \in Nat /\ jobId \in Nat
  BY SessionAssumption DEF TypeInv, TypeOK
<1>1. /\ call'[c] = r /\ \A d \in Calls \ {c} : call'[d] = call[d]
  BY <1>0
<1>2. jobId' <= current'
  BY <1>0 DEF Follow
<1>3. StartPending => StartPending'
  BY <1>1 DEF StartPending, StartAnswered, Answered
<1>4. ASSUME NEW d \in Calls
      PROVE  Follows(call'[d], current', LiveJob', port' = "closed")
  <2>1. CASE d = c
    BY <1>1, <2>1
  <2>2. CASE d # c
    <3>1. call'[d] = call[d] /\ Follows(call[d], current, LiveJob, port = "closed")
      BY <1>1, <2>2 DEF Follow
    <3>2. (port = "closed" => port' = "closed") \/ call[d].at = "free" \/ call[d].kind \in {"none", "poll"}
      BY <2>2
    <3> QED BY <3>1, <3>2 DEF Follows
  <2> QED BY <2>1, <2>2
<1>5. LiveJob' => jobId' = current' \/ StartPending'
  BY <1>3 DEF Follow
<1>6. \A d \in Calls : Follows(call[d], current, LiveJob, port = "closed")'
  BY <1>4
<1> QED BY <1>2, <1>5, <1>6 DEF Follow

\* A step that changes no call.
LEMMA FollowQuiet ==
  ASSUME TypeInv, Follow, UNCHANGED <<alive, current, port, call, jobId>>, LiveJob' => LiveJob
  PROVE  Follow'
<1>1. StartPending => StartPending'
  BY DEF StartPending, StartAnswered, Answered
<1>2. \A d \in Calls : Follows(call[d], current, LiveJob, port = "closed")'
  BY DEF Follow, Follows
<1> QED BY <1>1, <1>2 DEF Follow

\* A job that is over does not run again.
LEMMA LiveStays ==
  ASSUME TypeInv, adrift = TRUE => adrift' = TRUE,
         \/ UNCHANGED service
         \/ Service!Pause \/ Service!Resume \/ Service!Cancel
         \/ \E e \in {"progress", "action"} : Service!Record(e)
         \/ \E j \in Ids : Service!Complete(j) \/ Service!Fail(j)
  PROVE  current' = current /\ (LiveJob' => LiveJob)
<1>0. jobs \in [Ids -> JobStates] /\ current \in 0..MaxJobs /\ adrift \in BOOLEAN
  BY DEF TypeInv, TypeOK, ServiceType
<1>1. CASE UNCHANGED service \/ (\E e \in {"progress", "action"} : Service!Record(e))
  BY <1>0, <1>1 DEF Service!Record, LiveJob, JobRunning
<1>2. CASE Service!Pause \/ Service!Resume \/ Service!Cancel
  BY <1>0, <1>2 DEF Service!Pause, Service!Resume, Service!Cancel, Service!SetStatus, LiveJob,
                    JobRunning, Service!Running
<1>3. CASE \E j \in Ids : Service!Complete(j) \/ Service!Fail(j)
  <2>1. PICK j \in Ids, s \in {"completed", "error"} :
          jobs' = [jobs EXCEPT ![j] = s] /\ current' = current
    BY <1>3 DEF Service!Complete, Service!Fail, Service!SetStatus
  <2>2. ASSUME current \in Ids, jobs'[current] \in Service!Running
        PROVE  jobs[current] \in Service!Running
    BY <1>0, <2>1, <2>2 DEF Service!Running
  <2>3. current # 0 => current \in Ids
    BY <1>0
  <2> QED BY <1>0, <2>1, <2>2, <2>3 DEF LiveJob, JobRunning
<1> QED BY <1>1, <1>2, <1>3

\* The user waits for every call, and neither process nor page is lost.
Calm == crashes = 0 /\ reloads = 0 /\ OneAtATime

\* A call is dealt with: what it makes the session give up is not a live job.
LEMMA FollowDealt ==
  ASSUME TypeInv, CallInv, Follow, OneAtATime, NEW c \in Calls, Dealt(c) PROVE Follow'
<1>0. call \in [Calls -> CallType] /\ call[c] \in CallType /\ current \in Nat /\ jobId \in Nat
  BY SessionAssumption DEF TypeInv, TypeOK
<1>1. UNCHANGED sidecar
  BY DEF Dealt, Connected, Disconnected, FileRead, Started, Paused, Resumed, Cancelled, StopSent,
         StopFailed, Stopped, PollStale, PollFailed, PollOrphaned, PollApplied
<1>2. current' = current /\ (LiveJob' <=> LiveJob) /\ port' = port /\ alive' = TRUE
  BY <1>1 DEF LiveJob, JobRunning, Follow
<1>3. Follows(NoCall, current, LiveJob', port' = "closed")
  BY DEF Follows, NoCall
<1>4. ASSUME Resolved(c), ~StartAnswered(c), jobId' = jobId \/ (jobId' = 0 /\ (LiveJob => StartPending))
      PROVE  Follow'
  BY <1>2, <1>3, <1>4, FollowStep DEF Resolved, Follow
<1>5. ASSUME NEW s, EndJob(s), Resolved(c), call[c].kind # "start", LiveJob => StartPending
      PROVE  Follow'
  BY <1>4, <1>5 DEF EndJob, StartAnswered, Answered
<1>6. Follows(call[c], current, LiveJob, port = "closed")
  BY DEF Follow
<1>7. CASE Connected(c) \/ Paused(c) \/ Resumed(c) \/ PollStale(c)
  BY <1>4, <1>7 DEF Connected, Paused, Resumed, PollStale, view, StartAnswered, Answered
<1>8. CASE Disconnected(c) \/ Stopped(c)
  <2>1. ~LiveJob /\ call[c].kind # "start"
    BY <1>6, <1>8 DEF Disconnected, Stopped, Answered, Follows, Follow
  <2> QED BY <1>4, <1>5, <1>8, <2>1 DEF Disconnected, Stopped, StartAnswered, Answered
<1>9. CASE FileRead(c)
  <2>1. ~StartAnswered(c) /\ UNCHANGED jobId
    BY <1>9 DEF FileRead, StartAnswered, Answered, view
  <2>2. CASE call' = [call EXCEPT ![c].at = "sent"]
    <3>1. Follows([call[c] EXCEPT !.at = "sent"], current, LiveJob', port' = "closed")
      BY <1>0, <1>9 DEF FileRead, CallInv, CallOK, Follows, CallType
    <3> QED BY <1>2, <2>1, <2>2, <3>1, FollowStep DEF Follow
  <2> QED BY <1>4, <1>9, <2>1, <2>2 DEF FileRead
<1>10. CASE Started(c)
  <2>1. CASE StartAnswered(c)
    <3>1. jobId' = current /\ current' = current
      BY <1>2, <1>6, <1>10, <2>1 DEF Started, StartAnswered, Answered, Follows
    <3>2. \A d \in Calls : Follows(call'[d], current, LiveJob', port' = "closed")
      BY <1>0, <1>2, <1>3, <1>10 DEF Started, Resolved, Follow
    <3>3. \A d \in Calls : Follows(call[d], current, LiveJob, port = "closed")'
      BY <1>2, <3>2
    <3> QED BY <1>0, <1>2, <3>1, <3>3 DEF Follow
  <2>2. CASE ~StartAnswered(c)
    BY <1>0, <1>4, <1>10, <2>2 DEF Started, StartAnswered, CallType
  <2> QED BY <2>1, <2>2
<1>11. CASE StopSent(c)
  <2>1. Follows([NoCall EXCEPT !.kind = "close", !.at = "sent"], current, LiveJob', port' = "closed")
    BY DEF Follows, NoCall
  <2>2. ~StartAnswered(c) /\ UNCHANGED jobId
    BY <1>11 DEF StopSent, StartAnswered, Answered, view
  <2> QED BY <1>2, <1>11, <2>1, <2>2, FollowStep DEF Follow, StopSent
<1>12. CASE StopFailed(c) \/ Cancelled(c)
  <2>1. ~LiveJob /\ call[c].kind # "start"
    BY <1>0, <1>6, <1>12 DEF StopFailed, Cancelled, Answered, Follows, Follow, CallType
  <2> QED BY <1>5, <1>12, <2>1 DEF StopFailed, Cancelled
<1>13. ASSUME IsPoll(c), call[c].at = "answered", jobId = call[c].job,
              call[c].ok = FALSE \/ call[c].state \in TerminalStates
       PROVE  call[c].kind # "start" /\ (LiveJob => StartPending)
  BY <1>6, <1>13 DEF Follows, Follow, IsPoll
<1>14. CASE PollFailed(c) \/ PollOrphaned(c) \/ PollApplied(c)
  <2>1. IsPoll(c) /\ call[c].at = "answered" /\ jobId = call[c].job /\ Resolved(c) /\ ~StartAnswered(c)
    BY <1>14 DEF PollFailed, PollOrphaned, PollApplied, Answered, IsPoll, StartAnswered
  <2>2. UNCHANGED jobId \/ ((\E s : EndJob(s)) /\ (call[c].ok = FALSE \/ call[c].state \in TerminalStates))
    BY <1>0, <1>14 DEF PollFailed, PollOrphaned, PollApplied, TerminalStates, CallType
  <2> QED BY <1>4, <1>5, <1>13, <2>1, <2>2
<1> QED BY <1>7, <1>8, <1>9, <1>10, <1>11, <1>12, <1>14 DEF Dealt

\* What the sidecar answers to the rest.
Says(c, ok) == [call[c] EXCEPT !.at = "answered", !.ok = ok]

\* The sidecar answers: what it refuses is no part of a live job.
LEMMA FollowServe ==
  ASSUME ~Faults, TypeInv, CallInv, Follow, OneAtATime, NEW c \in Calls, Serve(c)
  PROVE  Follow'
<1>0. /\ call \in [Calls -> CallType] /\ call[c] \in CallType /\ current \in 0..MaxJobs /\ jobId \in Nat
      /\ adrift \in BOOLEAN /\ alive = TRUE /\ MaxJobs \in Nat
  BY SessionAssumption DEF TypeInv, TypeOK, Follow
<1>1. UNCHANGED jobId /\ alive' = TRUE
  BY <1>0 DEF Serve, ServeConnect, ServeClosing, ServeClosed, ServeStart, ServePoll, ServeControl,
         ServeStop, Unreachable, view
<1>2. Follows(call[c], current, LiveJob, port = "closed")
  BY DEF Follow
<1>3. ASSUME call[c].kind \notin {"none", "poll"}
      PROVE  \A d \in Calls \ {c} : call[d].at = "free" \/ call[d].kind \in {"none", "poll"}
  <2>1. c \in Users /\ call[c].at # "free"
    BY <1>3 DEF CallInv, CallOK, NoCall
  <2>2. \A d \in Calls : call[d].unheard = FALSE
    BY DEF Follow, Follows
  <2> QED BY <2>1, <2>2 DEF OneAtATime, Waiting, CallInv, CallOK
<1>13. ASSUME NEW r, Answer(c, r) PROVE call' = [call EXCEPT ![c] = r]
  BY <1>2, <1>13 DEF Answer, Follows
<1>14. ASSUME NEW ok, Reply(c, ok)
       PROVE  call' = [call EXCEPT ![c] = Says(c, ok)]
  BY <1>13, <1>14 DEF Reply, Says
<1>4. call[c].at # "answered" => ~StartAnswered(c)
  BY DEF StartAnswered, Answered
<1>5. CASE ServeConnect(c)
  <2>1. ASSUME NEW ok, Reply(c, ok) PROVE Follows(Says(c, ok), current, LiveJob', port' = "closed")
    BY <1>0, <1>2, <1>5 DEF ServeConnect, Handles, Follows, CallType, Says
  <2>2. current' = current /\ (LiveJob' <=> LiveJob) /\ port' \in {port, "open"}
    BY <1>5 DEF ServeConnect, LiveJob, JobRunning
  <2>3. \A d \in Calls \ {c} : call[d].at = "free" \/ call[d].kind \in {"none", "poll"}
    BY <1>3, <1>5 DEF ServeConnect, Handles
  <2>4. ~StartAnswered(c)
    BY <1>4, <1>5 DEF ServeConnect, Handles
  <2>5. PICK ok : Reply(c, ok)
    BY <1>5 DEF ServeConnect
  <2>6. Follows(Says(c, ok), current, LiveJob', port' = "closed")
    BY <2>1, <2>5
  <2>7. port' # "dropped" /\ (port' = "closed" => ~LiveJob')
    BY <2>2 DEF Follow
  <2> QED BY <1>1, <2>2, <2>3, <2>4, <2>5, <2>6, <2>7, <1>14, FollowStep
<1>6. CASE ServeClosing(c)
  <2>1. Follows([call[c] EXCEPT !.at = "closing"], current, LiveJob', port' = "closed")
    BY <1>0, <1>2, <1>6 DEF ServeClosing, Handles, Follows, CallType
  <2>2. current' = current /\ (LiveJob' => LiveJob) /\ port' = port
    BY <1>6, LiveStays DEF ServeClosing
  <2>3. ~StartAnswered(c)
    BY <1>4, <1>6 DEF ServeClosing, Handles
  <2> QED BY <1>1, <1>6, <2>1, <2>2, <2>3, FollowStep DEF ServeClosing, Follow
<1>7. CASE ServeClosed(c)
  <2>1. port' = "closed" /\ current' = current /\ ~LiveJob'
    BY <1>0, <1>7 DEF ServeClosed, LiveJob, JobRunning
  <2>2. Follows(Says(c, TRUE), current, LiveJob', port' = "closed")
    BY <1>0, <1>2, <1>7, <2>1 DEF ServeClosed, CallInv, CallOK, Follows, CallType, Says
  <2>3. ~StartAnswered(c)
    BY <1>4, <1>7 DEF ServeClosed
  <2> QED BY <1>1, <1>7, <2>1, <2>2, <2>3, <1>14, FollowStep DEF ServeClosed
<1>8. CASE ServeStop(c)
  <2>1. PICK ok : Reply(c, ok) /\ (ok = FALSE => port = "closed")
    BY <1>8 DEF ServeStop
  <2>2. UNCHANGED <<current, port, jobs, adrift>>
    BY <1>8 DEF ServeStop
  <2>3. Follows(Says(c, ok), current, LiveJob', port' = "closed")
    BY <1>0, <1>2, <1>8, <2>1, <2>2 DEF ServeStop, Handles, Follows, CallType, Says
  <2>4. ~StartAnswered(c)
    BY <1>4, <1>8 DEF ServeStop, Handles
  <2>5. LiveJob' <=> LiveJob
    BY <2>2 DEF LiveJob, JobRunning
  <2> QED BY <1>1, <2>1, <2>2, <2>3, <2>4, <2>5, <1>14, FollowStep DEF Follow
<1>9. CASE ServeControl(c)
  <2>1. current' = current /\ (LiveJob' => LiveJob) /\ port' = port
    BY <1>9, LiveStays DEF ServeControl
  <2>2. PICK ok : Reply(c, ok)
    BY <1>9 DEF ServeControl
  <2>3. ~StartAnswered(c) /\ call[c].kind \in {"pause", "resume", "cancel"} /\ call[c].at = "sent"
    BY <1>4, <1>9 DEF ServeControl, Handles
  <2>4. call[c].kind = "cancel" => ~LiveJob'
    <3> SUFFICES ASSUME call[c].kind = "cancel", LiveJob' PROVE FALSE
      OBVIOUS
    <3>1. KnownJob(c) /\ port = "open"
      BY <1>2, <2>1 DEF Follow, Follows, KnownJob, LiveJob, JobRunning, TypeInv, TypeOK
    <3>2. Service!Cancel \/ (~JobRunning /\ UNCHANGED service)
      BY <1>9, <3>1 DEF ServeControl, Handles
    <3>3. ASSUME Service!Cancel PROVE FALSE
      BY <1>0, <3>3 DEF Service!Cancel, Service!SetStatus, LiveJob, JobRunning, Service!Running,
                        TypeInv, ServiceType
    <3> QED BY <3>2, <3>3 DEF LiveJob, JobRunning
  <2>5. Follows(Says(c, ok), current, LiveJob', port' = "closed")
    BY <1>0, <1>2, <2>3, <2>4 DEF Follows, CallType, Says
  <2> QED BY <1>1, <2>1, <2>2, <2>3, <2>5, <1>14, FollowStep DEF Follow
<1>10. CASE ServePoll(c)
  <2>1. UNCHANGED <<current, port, jobs, adrift>>
    BY <1>10 DEF ServePoll
  <2>2. LiveJob' <=> LiveJob
    BY <2>1 DEF LiveJob, JobRunning
  <2>3. ~StartAnswered(c) /\ call[c].kind = "poll"
    BY <1>4, <1>10 DEF ServePoll, Handles
  <2>4. CASE KnownJob(c)
    <3> DEFINE r == Report(c)
    <3>1. call' = [call EXCEPT ![c] = r]
      BY <1>10, <1>13, <2>4 DEF ServePoll, Report
    <3>2. /\ r.kind = "poll" /\ r.at = "answered" /\ r.ok = TRUE /\ r.job = call[c].job
          /\ r.state = jobs[current] /\ r.unheard = call[c].unheard
      BY <1>0, <2>3 DEF CallType, Report
    <3>3. jobs[current] \in TerminalStates => ~LiveJob'
      BY <2>2 DEF LiveJob, JobRunning, Service!Running, TerminalStates
    <3>4. Follows(r, current, LiveJob', port' = "closed")
      BY <1>2, <2>3, <3>2, <3>3 DEF Follows
    <3> HIDE DEF r
    <3> QED BY <1>1, <2>1, <2>2, <2>3, <3>1, <3>4, FollowStep DEF Follow
  <2>5. CASE ~KnownJob(c)
    <3>1. Reply(c, FALSE)
      BY <1>10, <2>5 DEF ServePoll
    <3>2. call[c].job # current
      BY <1>0, <1>2, <2>3, <2>5 DEF Follows, KnownJob
    <3>3. Follows(Says(c, FALSE), current, LiveJob', port' = "closed")
      BY <1>0, <1>2, <2>3, <3>2 DEF Follows, CallType, Says
    <3> QED BY <1>1, <2>1, <2>2, <2>3, <3>1, <3>3, <1>14, FollowStep DEF Follow
  <2> QED BY <2>4, <2>5
<1>11. CASE ServeStart(c) /\ Reply(c, FALSE) /\ UNCHANGED <<service, adrift>>
  <2>1. UNCHANGED <<current, port, jobs, adrift>> /\ call[c].kind = "start"
    BY <1>11 DEF ServeStart, Handles
  <2>2. LiveJob' <=> LiveJob
    BY <2>1 DEF LiveJob, JobRunning
  <2>3. ~StartAnswered(c)
    BY <1>4, <1>11 DEF ServeStart, Handles
  <2>4. Follows(Says(c, FALSE), current, LiveJob', port' = "closed")
    BY <1>0, <1>2, <2>1 DEF Follows, CallType, Says
  <2> QED BY <1>1, <1>11, <2>1, <2>2, <2>3, <2>4, <1>14, FollowStep DEF Follow
<1>12. CASE /\ ServeStart(c) /\ port = "open" /\ Service!Start(current + 1)
            /\ Answer(c, StartedAs(c))
  <2>1. call[c].kind = "start" /\ port' = "open" /\ current' = current + 1
    BY <1>12 DEF ServeStart, Handles, Service!Start
  <2>2. /\ call'[c].kind = "start" /\ call'[c].at = "answered" /\ call'[c].ok = TRUE
        /\ call'[c].job = current + 1 /\ call'[c].unheard = call[c].unheard
        /\ \A d \in Calls \ {c} : call'[d] = call[d] /\ (call[d].at = "free" \/ call[d].kind \in {"none", "poll"})
    <3>1. call' = [call EXCEPT ![c] = StartedAs(c)]
      BY <1>12, <1>13
    <3> QED BY <1>0, <1>3, <2>1, <3>1 DEF CallType, StartedAs
  <2>3. StartPending'
    BY <2>1, <2>2 DEF StartPending, StartAnswered, Answered
  <2>4. jobId' <= current'
    BY <1>0, <1>1, <2>1 DEF Follow
  <2>5. ASSUME NEW d \in Calls PROVE Follows(call'[d], current', LiveJob', port' = "closed")
    <3>1. CASE d = c
      BY <1>2, <2>1, <2>2, <3>1 DEF Follows
    <3>2. CASE d # c
      <4>1. Follows(call[d], current, LiveJob, port = "closed") /\ CallOK(d, call[d]) /\ call[d] \in CallType
        BY <1>0 DEF Follow, CallInv
      <4> QED BY <1>0, <2>1, <2>2, <3>2, <4>1 DEF Follows, CallOK, NoCall
    <3> QED BY <3>1, <3>2
  <2>6. \A d \in Calls : Follows(call[d], current, LiveJob, port = "closed")'
    BY <2>5
  <2> QED BY <1>1, <2>1, <2>3, <2>4, <2>6 DEF Follow
<1> QED BY <1>0, <1>2, <1>5, <1>6, <1>7, <1>8, <1>9, <1>10, <1>11, <1>12 DEF Serve, ServeStart, Unreachable, StartedAs, Follows

\* A click: a cancel asks for the job followed, which is the live one.
LEMMA FollowClick ==
  ASSUME TypeInv, CallInv, Follow, OneAtATime', NEW c \in Users, Click(c) PROVE Follow'
<1>0. call \in [Calls -> CallType] /\ current \in Nat /\ jobId \in Nat /\ c \in Calls
  BY SessionAssumption DEF TypeInv, TypeOK
<1>1. PICK k \in {"connect", "disconnect", "start", "pause", "resume", "cancel", "stop"},
           at \in {"reading", "sent"} : Issue(c, k, at) /\ (k = "cancel" => jobId # 0)
  BY DEF Click, Connect, Disconnect, StartStream, Pause, Resume, Cancel, Stop, Control
<1>2. UNCHANGED sidecar /\ UNCHANGED jobId
  BY DEF Click, Connect, Disconnect, StartStream, Pause, Resume, Cancel, Stop, Control, view
<1>3. current' = current /\ (LiveJob' <=> LiveJob) /\ port' = port /\ alive' = TRUE
  BY <1>2 DEF LiveJob, JobRunning, Follow
<1>4. ~StartAnswered(c)
  BY <1>1 DEF Issue, StartAnswered, Answered
<1>5. ~StartPending
  <2> SUFFICES ASSUME NEW d \in Calls, StartAnswered(d) PROVE FALSE
    BY DEF StartPending
  <2>1. d \in Users /\ d # c /\ call[d].unheard = FALSE
    BY <1>4 DEF StartAnswered, Answered, CallInv, CallOK, Follow, Follows
  <2>2. call'[c].at = at /\ call'[c].unheard = FALSE /\ call'[d] = call[d]
    BY <1>0, <1>1, <2>1 DEF Issue, NoCall
  <2> QED BY <2>1, <2>2 DEF OneAtATime, Waiting, StartAnswered, Answered
<1>6. Follows([NoCall EXCEPT !.kind = k, !.at = at, !.job = jobId], current, LiveJob', port' = "closed")
  BY <1>3, <1>5 DEF Follows, NoCall, Follow
<1> QED BY <1>0, <1>1, <1>2, <1>3, <1>4, <1>6, FollowStep DEF Issue, Follow

LEMMA FollowNext ==
  ASSUME ~Faults, TypeInv, CallInv, Follow, Calm, [Next]_vars, Calm' PROVE Follow'
<1>0. /\ call \in [Calls -> CallType] /\ current \in Nat /\ jobId \in Nat
      /\ alive = TRUE /\ crashes = 0 /\ crashes' = 0 /\ reloads = 0 /\ reloads' = 0
      /\ OneAtATime /\ OneAtATime'
  BY SessionAssumption DEF TypeInv, TypeOK, Follow, Calm
<1>1. ASSUME NEW p \in Polls, PollTick(p) PROVE Follow'
  <2>1. UNCHANGED sidecar /\ UNCHANGED jobId
    BY <1>1 DEF PollTick
  <2>2. current' = current /\ (LiveJob' <=> LiveJob) /\ port' = port /\ alive' = TRUE
    BY <1>0, <2>1 DEF LiveJob, JobRunning
  <2>3. CASE UNCHANGED call
    BY <2>1, <2>2, <2>3, FollowQuiet
  <2>4. CASE /\ jobId # 0 /\ call[p].at = "free"
             /\ call' = [call EXCEPT ![p] = [NoCall EXCEPT !.kind = "poll", !.at = "sent",
                                                         !.job = jobId, !.from = since]]
    <3>1. Follows([NoCall EXCEPT !.kind = "poll", !.at = "sent", !.job = jobId, !.from = since],
                  current, LiveJob', port' = "closed")
      BY <1>0, <2>4 DEF Follows, NoCall, Follow
    <3>2. ~StartAnswered(p)
      BY <2>4 DEF StartAnswered, Answered
    <3> QED BY <2>1, <2>2, <2>4, <3>1, <3>2, FollowStep DEF Follow
  <2> QED BY <1>1, <2>3, <2>4 DEF PollTick
<1>2. CASE WorkerReports
  <2>1. UNCHANGED <<alive, port, call, jobId, adrift>>
    BY <1>2 DEF WorkerReports, view
  <2>2. current' = current /\ (LiveJob' => LiveJob)
    BY <1>2, <2>1, LiveStays DEF WorkerReports
  <2> QED BY <2>1, <2>2, FollowQuiet
<1>3. CASE PickFile \/ UNCHANGED vars
  <2>1. UNCHANGED <<alive, current, port, call, jobId, jobs, adrift>>
    BY <1>3 DEF PickFile, vars, view
  <2> QED BY <2>1, FollowQuiet DEF LiveJob, JobRunning
<1>4. CASE Reload \/ SidecarDies \/ Respawn
  BY <1>0, <1>4 DEF Reload, SidecarDies, Respawn
<1>5. ASSUME NEW c \in Calls, ReplyLost(c) PROVE FALSE
  BY <1>5 DEF ReplyLost
<1> QED BY <1>0, <1>1, <1>2, <1>3, <1>4, <1>5, FollowClick, FollowDealt, FollowServe DEF Next

LEMMA FollowInit == Init => Follow
BY DEF Init, Follow, LiveJob, JobRunning, Follows, NoCall, Service!JobInit

\* When nothing crashes, is reloaded, is lost on the way or fails to stop, a user who
\* waits for every call never leaves a job running that the session does not follow:
\* neither a late poll, nor the end of an earlier job, a refusal, a cancel, a stop or
\* a disconnect makes the session give up a job that still runs.  (With faults it
\* may: #endJob follows a failed stop and a failed cancel.)
THEOREM NoJobIsAbandoned ==
  ASSUME ~Faults PROVE Spec /\ []Calm => []NoAbandonedJob
<1>1. TypeInv /\ CallInv /\ Follow /\ Calm /\ [Next]_vars /\ Calm' => Follow'
  <2> SUFFICES ASSUME TypeInv, CallInv, Follow, Calm, [Next]_vars, Calm' PROVE Follow'
    OBVIOUS
  <2> QED BY FollowNext
<1>2. Follow => NoAbandonedJob
  BY DEF Follow, NoAbandonedJob, Quiet, StartPending, StartAnswered, Answered, LiveJob, TypeInv, TypeOK
<1> QED BY <1>1, <1>2, FollowInit, SpecTyped, SpecCalls, PTL DEF Spec
=============================================================================
