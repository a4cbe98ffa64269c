# FiberPath in TLA+

FiberPath plans filament-winding programs and streams them to a Marlin
controller.  This directory holds TLA+ models of its stateful parts, the TLC
configurations that check them on small instances, and theorems about them that
TLAPS proves for every instance.

## 1. Inventory

Paths are relative to `src/`.  The system is three programs around one Python
library:

| Component | State it keeps | Operations | Talks to |
|---|---|---|---|
| **Machine service** `fiberpath_api/machine.py`, routes in `fiberpath_api/routes/machine.py` | `_host`, `_state`, `_job` and its event log, `_job_counter`, `_thread`, `_last_persist`, the snapshot file | connect, disconnect, send_command, start/pause/resume/cancel job, get_job, emergency_stop, worker thread, crash recovery | MarlinHost (serial board), snapshot file, HTTP clients |
| **GUI machine session** `fiberpath_gui/src/state/machine-session.svelte.ts`, `lib/marlin-api.ts` | connection status, job id, event cursor, poll timer, retries, loading flags | connect, disconnect, sendCommand, startStream, poll, pause, resume, cancel, emergencyStop | machine service over HTTP |
| **API client and sidecar supervisor** `lib/apiClient.ts`, `src-tauri/src/api_sidecar.rs` | memoised client, child process, its port | spawn, health wait, respawn, kill on exit | the sidecar process |
| **File association** `src-tauri/src/main.rs`, `App.svelte` | one pending path, a `ready` flag | deliver, take | window events |
| **Project session** `state/project-session.svelte.ts`, `services/file-operations.svelte.ts`, `lib/recentFiles.ts` | document, saved document, path, recent files | edit layers, open, save, save as, new, recent | file dialogs and disk, asynchronously |
| **Preview session** `state/preview-session.svelte.ts` | image, loading, error, request id | generate, reset | `/plot` |
| **Backend health** `state/backend-health.svelte.ts` | status | refresh | `/health` |
| **Notifications, retry, debounce** `state/notifications.svelte.ts`, `lib/retry.ts`, `lib/debounce.ts` | toasts and timers | push, dismiss, pause, resume | components |
| **CLI streaming** `fiberpath_cli/stream.py` | progress of one run | stream, interrupt | MarlinHost |
| **Planner** `fiberpath/planning/*` | WinderMachine position, feed rate, accumulated time | plan_wind, layer strategies | G-code |
| **G-code** `fiberpath/gcode/*` | dialect, reader state | write, read, serialize | files |
| **Simulation, metrics** `fiberpath/simulation`, `planning/metrics.py` | running position | simulate | G-code |
| **Config** `fiberpath/config/*` | none | validate documents and profiles | JSON |
| **Plotting, shell components, styling, generated API schema** | none of their own | render | - |

What is hard about it, and therefore where the properties go:

* *Concurrency.*  FastAPI runs each request in a thread; the streaming worker is
  another; `emergency_stop` skips the lock; `disconnect` takes it twice with a
  join in between; flags on the host are shared by all jobs.
* *Failure.*  The sidecar dies and is respawned; the snapshot tells the next
  process; snapshot I/O may fail; the board fails lines; the GUI retries polls.
* *Ordering.*  The GUI awaits every call: replies of polls, pauses, cancels and
  starts arrive in any order, after the state they were issued in is gone.
* *Timeouts.*  The join of 10 s, the idle timeout of the board, poll retries.

What makes each component correct is stated by the properties below; the hazards
at their lines are listed in `PROJECT.json`.

## 2. Plan

Done, in this order:

1. `MachineService` (the sidecar's threads) and its abstraction `JobService`:
   modelled, checked, and proved (this is the core: it drives the machine).
2. `MachineSession`: the GUI's side, composed with `JobService` as its server,
   so that what the GUI relies on is exactly what (1) proves: modelled, checked and proved.
3. `ApiSidecar` and `ApiClient` (the second extends the first), `OpenedFile`,
   `FileOperations`, `PreviewSession`, `BackendHealth`, `Notifications`: modelled,
   checked and proved about (of `BackendHealth` the types; its deep property is liveness).
4. `WindPlanner` (validators, path builders, machine positions): modelled,
   checked and proved: where the carriage goes, the datum, the coverage of the mandrel, the
   suggested locks.  `MotionIR`, `Gcode`,
   `Plotter` and `Toolpath` (segmentation, metrics, writer and reader, simulation,
   plot), over `PythonRound`: modelled, checked and proved.

Left:

5. A bound on how long a handshake may take is missing in the code; if it gets
   one, `ApiSidecar` gets the timeout as an action and `OneSidecar` its hardest case.
6. Requests that fail at the page although the sidecar executes them later (section 7).
7. Pattern numbers beyond 16 in `SuggestionsAlwaysPass` (section 6).

Each component's proofs live in modules of their own.  No module that is proved
about declares or reaches a RECURSIVE operator: recursion over a program, a leg or
a list is a recursive function (`NominalMetrics`, `SplitSegment`, `PlotLegs`, `TotalRise`).

| Module | Extends, composes | Run |
|---|---|---|
| `MachineService` | refines `JobService` | `Machine*` |
| `MachineSession` | its server is `JobService` | `Session*` |
| `WindPlanner` | `PythonRound` | `PlannerCoverage` (in `MCPlanning`) |
| `Toolpath` | `Gcode`, `Plotter`, both over `MotionIR` | `PlannerCoverage` (in `MCPlanning`) |
| `FileOperations`, `PreviewSession` | - | `Workspace` (in `MCWorkspace`) |
| `OpenedFile`, `ApiClient` over `ApiSidecar`, `BackendHealth`, `Notifications` | - | `Page` (in `MCPage`), `PageDocOpens` |

`MCWorkspace`, `MCPage` and `MCPlanning` check components that share no state in one
run.  A behaviour is of one part, chosen at the start, and the other parts keep their
initial state.  The reachable states are the union of those of the parts, each as
in a run of its own; nothing is multiplied, and nothing is left out, since the
parts do not interact.

## 3. The machine service

`MachineService.tla` is the service with its threads.  Three kinds of threads
interleave: request threads (`Clients`), one worker per job, and the board.

| State | Code |
|---|---|
| `up`, `crashes` | the sidecar process |
| `lock` | `_lock`, when a thread keeps it across a wait (connect, query); a request that does not wait is one action that needs `lock = Nobody` |
| `host`, `hosts`, `conns` | `_host` and the MarlinHost objects (open, pause, stop and halt flag) |
| `state`, `job`, `jobs`, `counter` | `_state`, `_job`, the Job objects, `_job_counter` |
| `thread`, `worker` | `_thread`; each worker's place in `_run_job` and lines acknowledged |
| `client` | where each request thread is and what it has read (`thread` local, host) |
| `snap`, `fresh` | the snapshot on disk; `_last_persist` # 0.0 |

Actions: one per handler, split where the handler waits.  `connect` is
`ConnectBegin` / `ConnectOk` / `ConnectFail`; `disconnect` is `DisconnectRead`
(`_thread` is read without the lock), `DisconnectCancel`, `DisconnectJoined` or
`JoinTimeout`, `DisconnectClose`; `send_command` is `QueryBegin` / `QueryEnd`;
`emergency_stop` is `EstopRead` / `EstopWrite` / `EstopMark` (no lock: `_host` is read, M112
goes to the host that was read, connected or not, and may raise, and then `_state` is set); the worker is
`WorkerBegin`, `WorkerSend`, `WorkerAck`, `OnProgress`, `WorkerEnd`,
`WorkerRaise`, `SettleEnd`, `SettleError`; `_record_action` is `BoardAction`;
the process dies in `Crash` and comes back in `Restart` (`_recover_orphaned`).
`WorkerRaise` leaves the worker "raised", in the `except` branch of `_run_job`, or "died":
that branch names three kinds of exception, and of any other the thread ends with the
job as it is.

`MarlinHost` is the external package `marlin-host`.  What is assumed of it:
`pause`/`resume`/`stop`/`emergency_stop` set flags on the host; `stream` looks at
them between two lines and yields after each acknowledgement; a halted or closed
host makes the next line raise; an error may or may not leave the port open.
*Where `stream` forgets a stop is not visible from this repository*: the constant
`StopReset` covers both possibilities ("at_start", "at_end").  The runs use both and the
theorems hold for both: nothing stated of the service depends on it.

`JobService.tla` is the promise to a client: one current job, legal status edges
only, an event log that only grows and tells the outcome.

### Runs

| Run | Bounds | Shows |
|---|---|---|
| `MachineThreads` | 2 request threads, 2 jobs, 1 connection, programs of 0 or 1 lines, 1 crash, stop forgotten at start | `TypeOK`; `ActiveJobHasWorker`: no job is left streaming by a lost thread, unless the thread died; `StaleWorkersAreCancelled`; `CommandExcludesStreaming`; `OutcomeLoggedOnce`; `MiscountNeedsLateWorker`: whose lines a job may be credited with; `SnapshotNamesActiveJob`: no false orphan; `ThrottledMeansSaved`: a removed snapshot returns with the next line |
| `MachineRecovery` | 1 thread, 2 jobs of 1 line, failing snapshot I/O, 1 crash, stop forgotten at end | `OutcomeLoggedOnce` and `ImplementsJobService` (refinement), with failing lines, dying workers and workers that outlive a disconnect, across the crash |
| `MachineLiveness` | 2 threads, 1 job of 1 line, board notifications, fairness | `DisconnectReturns`, `EstopEndsStreaming`, `WorkerSettles` |
| `MachineDocWriters` | smallest that shows it | a statement of the docs and comments that the code does not keep; see section 8 |

Why the bounds are enough: every hazard listed involves at most two jobs (one and
its replacement), two requests, one line out, one connection and one crash.  Symmetry (over
request threads) is used in safety runs only.  The liveness properties say that their case
never lasts (`[]<>`): of a wait with no end that is the same as that it ends.

Fairness (`FairSpec`): threads that can run do run; the board answers or the idle
timeout raises, so a line or query ends; a thread waiting for the lock gets it
although others take it in between (strong fairness: the lock is free
infinitely often because its holders end).  Users owe nothing: no request is ever
fair.

## 4. The GUI

### 4.1 The machine session

`MachineSession.tla` is the session object of the page and, behind HTTP, the
sidecar as a session can see it.  The GUI is one thread that awaits every call,
so an action is one turn of its event loop: a click (`Connect`, `StartStream`,
`Pause`, `Stop`, ...), a timer (`PollTick`), or the continuation of an operation
after its reply (`Connected`, `Started`, `PollApplied`, `PollFailed`, `Paused`,
`StopSent`, ...).  `call` holds each call from its issue until it has been dealt
with; the sidecar's `Serve*` actions answer calls in any order.

| State | Code |
|---|---|
| `status`, `isStreaming`, `file`, `loading` | `status`, `isStreaming`, `filePath` is set, `streamControlLoading` |
| `jobId`, `since`, `retries`, `timer` | `#jobId`, `#since`, `#pollRetries`, `#pollTimer` is armed |
| `strays` | armed timers that `#pollTimer` no longer names (only `#schedulePoll` writes it, and it does not look) |
| `call` | the awaits that are out: kind, job and cursor asked for, answer; `unheard` if the page that sent it is gone |
| `shown` | history: events of the job on display that were folded into the log |
| `alive`, `crashes`, `lost` | the sidecar process; the job whose snapshot a dead one left |
| `port`, `adrift` | `_host`; a job that slipped in while its host was being closed |
| `current`, `jobs`, `log` | the variables of `JobService` |

The sidecar's jobs change through the actions of `JobService` only (`Service!Start`,
`Service!Pause`, ...), the specification that `MachineService` is proved to
implement: what the GUI relies on is what the sidecar promises.

| Run | Bounds | Shows |
|---|---|---|
| `SessionRaces` | 2 user calls and 1 poll out, 2 jobs | `StreamIsPolled`: a stream on display is always being polled |
| `SessionCrash` | 1 user call, 1 poll, 2 jobs, logs with progress, 1 crash, 1 page reload, 1 retry | `TypeOK`, `NoAbandonedJob`; `EventsSeenOnce` across the change of jobs |
| `SessionLiveness` | 1 user call, 1 poll, 2 jobs, 1 crash, 1 page reload, 1 retry, `Faults`, fairness | `StreamDisplayEnds`, `ControlsReleased` |
| `SessionDocReconnect` | smallest that shows it | a statement the code does not keep; section 8 |

A page that is reloaded forgets its calls, but what it has sent is still executed: `Reload` keeps
pauses, cancels, starts and the rest as `unheard` calls, which the sidecar serves and whose answers
nobody gets.  `Faults` adds what can fail between a live page and a live sidecar: a request that does
not arrive (`Unreachable`), an answer that is lost after the request was carried out (`ReplyLost`),
an emergency stop that raises, a board whose failing line drops the port.

Bounds.  A race needs two calls that cross, or a call and a poll, over a job and
its replacement; a further poll waits until the one that is out has
been dealt with; retries are counted to 1 instead of 3, which distinguishes "first",
"last" and "given up".  `MaxEvents` is 0 where events do not matter.  Three
restrictions leave out known behaviour, which is listed as hazards: `EventsSeenOnce`
speaks of the time before a crash, because a new process that found no snapshot
gives its first job the number of an old one, which a late poll may still be asking
for; it is checked with one user call, because two clicks on Start while the file
is read leave two poll loops; and so is `NoAbandonedJob`, because the late reply of
a cancel ends whatever job is current.  `NoAbandonedJob` also supposes that nothing fails and no page
is reloaded: the code ends the display after *any* failed stop, and a new page asks for no
job, so that in either case a job may run that nobody follows.  Section 6 turns these restrictions into the
hypotheses of theorems.

Abstractions.  The client memo of `lib/apiClient.ts`, modelled in `ApiClient`, is a free choice here: a call to a
dead sidecar fails, or finds it respawned.  Starting a process takes longer than
replies that have already arrived take to be dealt with, so `Respawn` waits for those.

Fairness: replies that have arrived are dealt with, armed timers fire, calls are
answered or fail (of a call's steps some step is taken, whichever).  Nobody is obliged to
click, a job may run or stay paused for ever, and a dead sidecar may stay unreachable: the poll loop must end by its
retries.

### 4.2 The open project

`FileOperations.tla` is the open document with the async functions that work on it.
Up to `Ops` of them run at the same time; an action ends where the code awaits.

| State | Code |
|---|---|
| `document`, `filePath`, `revision`, `savedRevision` | the fields of `ProjectSession`; a document is its version |
| `recent` | the list in local storage |
| `op` | each running function: the await it is at (`ask`, `pick`, `read`, `loaded`, `write`, `written`, `wait` for the next attempt), its path and content; `late` is history: the document was edited after it had asked, or had found nothing to ask |
| `disk` | what each file holds; a write may fail having torn the file |
| `crossed` | history: an edit, or a second operation, came while a save or load was out |

`NewProject`, `OpenProject`, `OpenRecent`, `SaveProject` and `SaveProjectAs` begin one;
`Answer` and `Pick` are the dialogs, which are modal; `DiskReads`, `DiskWrites`, `Retry`,
`Loaded` and `Saved` are `retry` around the shell's commands and what follows the await;
any content may be refused by the parser or the validator, a torn one always is.
A file opened by the OS calls `openRecent` and waits for no dialog, so `OpenRecent` does
not either.  `crossed` marks known behaviour, which section 8 lists: `CleanMeansSaved`
speaks of what comes before.  `DiscardIsAgreed` speaks of every step: what the code replaces unasked
is exactly what was edited after the question.

`PreviewSession.tla` is the layer list and the preview: the document's layers with the
selection, the scrubber with the effect that follows the number of layers while
the viewport is mounted, `generate` with its two early returns, answers in any order,
and `reset`.

| Run | Bounds | Shows |
|---|---|---|
| `Workspace` | 2 files, 2 operations, 2 attempts, 2 edits, 2 recent files; or 3 layers, 3 request numbers | `CleanMeansSaved`: what is shown without unsaved changes is on disk; `DiscardIsAgreed`; `SpinnerMeansPending`; `WorkspaceTypeOK`, in which no path is listed twice, the selected layer exists and the scrubber never asks for layers that are not there |

Bounds.  Crossing takes two operations; two attempts tell "again" from "given up"; two edits
tell the version a save carries from a later one.  Three requests are one in flight,
one that makes it old, and one between.  Deadlock is checked: an operation can always
go on.

### 4.3 The page and the shell

`OpenedFile.tla` is the file association: `deliver_opened_file` reads `frontend_ready` and then
emits or stores the path, in two steps; `take_opened_file` sets the flag and then
empties the slot, in two; the page listens first and takes then, and may be reloaded.
`fate` is where each path is.

`ApiSidecar.tla` is `api_sidecar.rs`: callers of `base_url` under one mutex (`guard`), the
`slot` with the sidecar, and the processes, which may die at any time, fail to spawn, die
before their handshake, or live on after a handshake that could not be read: that drops the
child handle, which ends no process ("leaked").  `ApiClient.tla` extends it with the page's memoised
client: a `start()` is named after the call and attempt that made it, several calls
share one, and an error empties the memo whichever client it holds.  A call posts once, or twice
as `plotDefinition` does ("post", "plot"), and an answer may refuse it (an HTTP error, no data, a file that
cannot be written), which `retry` repeats like a fault but which leaves the memo alone.  `Die`,
`SpawnFails`, a broken handshake, a liveness check that errs, a request or health wait that fails though
the sidecar lives are faults, and counted: at most `MaxFaults`; refusals are counted per call.

`BackendHealth.tla` is the status of the CLI with overlapping refreshes.  `Notifications.tla`
is toasts with their timers: `Tick` is time, `timeouts` the pending `setTimeout` calls, those
included that no handle names any more.

| Run | Bounds | Shows |
|---|---|---|
| `Page` | 3 opened files, 2 page loads; 2 calls of 2 attempts, the warm-up thread, 2 faults; 2 probes, 2 changes of the CLI; 2 toasts of 2 ticks | `NeverOpenedTwice`; `OneSidecar`, `FailuresAccounted`, `CallsSettle`; `HealthIsSeen`; `DisplayTimeKept`, `ToastsGoAway`; `PageTypeOK` |
| `PageDocOpens` | 2 opened files, 2 page loads | a statement the code does not keep; section 8 |

Bounds.  Three paths are one in the slot, one that replaces it, one on its way as an
event.  As many faults as attempts let a call fail, and one fault less must not, unless a refusal
makes up for it; two calls share a client that one of them drops.  A toast of two ticks is
held with all, half or none of its time gone.  `DisplayTimeKept` is of toasts that the mouse and the
focus have not held both: then the code subtracts the same time twice (section 8).  Deadlock is not
checked: the page may have nothing left to do.

Fairness: threads of the shell run and a spawned sidecar prints its port or exits;
requests are answered or time out; the interval fires while it is set; the webview's event
loop turns.  Time passes (strong fairness of `Tick`, since the user can hold and release a
toast for ever without letting time stop).  Nobody need open, call, click or reload, and
nothing is assumed of the file association.

## 5. The planner, its programs and plots

### 5.1 The winding

`WindPlanner.tla` is `plan_wind`: a definition's layers are validated and planned
one after another, until the definition ends (`Finish`) or a layer is refused
(`Reject`, which is an exception: there is no program).  The model draws the next
layer freely, so a run covers definitions of every length.

| State | Code |
|---|---|
| `surface`, `terminal`, `layer`, `reason` | the mandrel's surface, `encountered_terminal`, the layer on its way or refused, which `LayerValidationError` was raised |
| `phase`, `pass`, `angle` | where the path builder is; its `mandrel_position` |
| `pos`, `offset` | `WinderMachine._last_position`; how far G92 has moved logical from physical positions |
| `laid`, `datum` | history: where fibre went, as physical angles; the mandrel's offset where the layer's laying was measured from |

Each action emits the moves of one part of a layer: `HelicalPrologue` (near lock
and G92), `PassStart`, `Lay` (to the next station), `LeadOut` (with the dwell and the
advance to the next circuit), `CloseLock`, `ZeroAxes`; `HoopPrologue`, `HoopFar`,
`HoopNear`, `HoopTerminal`; `Skip`.  The code builds a layer's path and then lowers it; nothing
happens in between, so the model lowers each waypoint as it is built.  The cone
and profile builders repeat the cylinder's with other stations and rotations, and
share its actions here (`Stations`, `Rotation`).

Angles are integers, `Turn` of them to 360 degrees.  The trigonometry of the
kinematics is an input: a *winding* gives the wound band, the circuit count and the
rotation up to each station.  A head position is upright, lifted or laying; the
ramp between lifted and laying is left out.

| Run | Bounds | Shows |
|---|---|---|
| `PlannerCoverage` (`part = "winding"`) | 24 units to the turn; a cylinder, a reducing and an expanding cone, a profile; 4, 6 or 12 circuits; patterns 1..4, skip indices 1..3, locks on and off the slots and above a turn, lead-ins inside and beyond the band | `FullCoverage`, `DatumKept`, `CarriageOnMandrel`, `LayersStartAtOrigin`, `LockRejectionsAreNeeded`, `SuggestionsPass`, `PlanningTypeOK` |

Bounds.  The coverage conditions are arithmetic modulo a turn: 24 has slots of 12, 8
and 6 units with half steps 6, 4 and 3, so that locks fail condition 1, fail
condition 2, or pass both for prime and composite patterns, and the rotation of a
pass goes through more than a turn.  A layer leaves nothing behind but the
mandrel's offset and the terminal flag, so all layer sequences are covered although
their length is not bounded.

### 5.2 The toolpath

`MotionIR.tla` is the `WinderMachine` that records moves (cut along the carriage,
completed with the axes they leave out, G92, `zero_axes`) and `nominal_metrics`, as the list of
legs that the code sums.  `Gcode.tla` is what `serialize` writes and what `read_program` reads,
skips or refuses.  `Plotter.tla` is `_collect_segments`, `_split_segment` and the scaling of `_screen_point`, which takes
heights modulo the circumference.  `Toolpath.tla`
drives them: `BeginLayer`, `NearLock`, `Waypoint`, `EndLayer` and `Write` are `plan_wind` from the machine's
side, with any waypoints; `Author` makes up a text line by line; `Read` ends both.

Numbers are integers on a grid: `Digit` of its units make the last printed digit, so that
printing rounds; `Millimetre` is a carriage segment, `Revolution` 360 degrees, `Seam` the
plotter's epsilon.  An interpolated point is rounded down to the grid.

| Run | Bounds | Shows |
|---|---|---|
| `PlannerCoverage` | the winding as above; or 4 waypoints, 3 calls, 2 layers, verbose or not; or texts of 3 lines out of 10; 2 units to the digit, 4 to the millimetre, 24 to the turn | `ReadBackIsPlan`: a written program reads back as itself, the simulator sees the planner's legs, the layers' metrics add up; `PlotFollowsTrack`: the segments of the plot are the legs the metrics count, cut at the seam without losing any of their way, and the image shows them so but for the piece that goes up to a cut, whose end it draws at the bottom; `PlanningTypeOK` |

Bounds.  The waypoints have odd coordinates (rounded by printing), leave axes out, run
over several carriage segments, turn the mandrel over one and two seams, up and
down; two layers make the second one's metrics a difference.  Three lines of text are
a header, a G92 or feed, and a motion.

## 6. Proofs

`MachineServiceProofs.tla` proves `TypeCorrect == Spec => []TypeOK` for all
constants allowed by `MachineAssumption`.  `TypeOK` is not inductive: a query's
end needs that its thread still names an existing host, an acknowledgement needs
that the program has one more line, a restart needs that a snapshot it recovers
names a job.  `TypeInv` adds `WaitersHoldLock`, `HostsNamed`, `LinesLeft` and
`SnapshotNamed`.  One lemma per action, over lemmas about the updates of the
tables.

`MachineServiceTheorems.tla` looks at the service through a *view* - the status
and log of each job, the current job, the counter and the set of workers that have not settled (died ones included).
It shows that every action is one of a few steps of that view (`NextView`), that
these keep `OwnerInv` (job numbers are issued in order; the job of a worker that has not settled runs
or was cancelled; a running job is the current one and its worker has not settled), and
concludes

* `ActiveJobsAreDriven`: `Spec => []ActiveJobHasWorker`
* `ReplacedWorkersAreCancelled`: `Spec => []StaleWorkersAreCancelled`
* `CommandsExcludeStreaming`: `Spec => []CommandExcludesStreaming`, with the
  further invariant `Quiet` (only the owner of a free lock makes a job stream)
* `ServiceImplementsJobs`: `Spec => ImplementsJobService`, the refinement.
* `OutcomeIsLoggedOnce`: `Spec => []OutcomeLoggedOnce`.  The view takes the steps of a job
  service, and those keep `OutcomeInv`: the outcome of a job that ended is told at one place of
  its log, and no outcome it did not have.  Progress and board notes may come later.

On top of these it proves, from the state itself,

* `NoFalseOrphan`: `Spec => []SnapshotNamesActiveJob`, and `ThrottleLosesNothing`:
  `Spec => []ThrottledMeansSaved`.  They hold by one induction (`SavedInv`): a write that
  the throttle skips leaves a file that is the current job's, and the throttle of a
  dead process is forgotten.
* `MiscountsComeFromLateWorkers`: `Spec => []MiscountNeedsLateWorker`.  It is inductive with `OwnerInv`:
  `_on_progress` of a worker whose job is not the current one is of a cancelled job issued
  earlier (`StaleWorkers`), the lines of a worker only grow, and no step but a crash takes
  a job out of "cancelled", "error" or "orphaned" (`EndingsStay`).

`MachineSessionProofs.tla` proves of the GUI's machine session, for any number of calls,
polls, jobs, crashes, reloads and retries allowed by `SessionAssumption`,

* `SessionTypeCorrect`: `Spec => []TypeOK`, and `SessionUsesJobService`: `Spec => Service!JobSpec`.
  With `ServiceImplementsJobs` they join the two halves: the session is proved about over
  the job service that the sidecar is proved to implement.
* `StreamsArePolled`: `Spec => []StreamIsPolled`, whatever crashes, reloads or overlaps.  With
  the types and `CallInv` (what the place of a call says of it) it is inductive: a poll that
  is out covers only the job it asked for, and when it ends with that job still on display it
  arms the timer or ends the display.
* `EventsAreSeenOnce`: `Spec /\ []NoStrays => []EventsSeenOnce`.  `NoStrays` says that no timer
  is armed that `#pollTimer` does not name, and it is needed: two clicks on Start while the
  file is read leave two poll loops, and both ask from the same cursor.  `LoopInv` says that
  up to the first crash what is shown is what the cursor counts, and that a poll for the job
  on display asks from there.
* `OneUserSeesEventsOnce`: `Spec /\ []OneAtATime => []EventsSeenOnce`.  A user who waits for every
  call (`OneAtATime`: of the user's calls one is out at most) has one poll loop: `Display` says
  that a job is followed exactly while it is on display, `OneTimer` that a timer is armed only
  for a job that is followed.  So the hypothesis of the theorem before is met.
* `NoJobIsAbandoned`: `Faults = FALSE` and `Spec /\ []Calm => []NoAbandonedJob`.  `Calm` is no
  crash, no reload, and `OneAtATime`.  Each part is needed: a crash or a reload loses the job;
  a stop that fails, or an answer that is lost, ends the display while the job goes on; the late reply of
  a cancel ends whatever job is current.  `Follow` says of every call on its way what its reply
  may tell: a poll of the current job reports an end only if it has ended, a start names
  the current job, a disconnect is answered once the port is closed.  Between these,
  polls, retries and ends of jobs interleave freely.

`WindPlannerProofs.tla` proves of the planner, for all surfaces, windings and layers
allowed by `PlannerAssumption`,

* `CarriageStaysOnMandrel`: `Spec => []CarriageOnMandrel`
* `EveryLayerStartsAtOrigin`: `Spec => []LayersStartAtOrigin`
* `PlannerTypeCorrect`: `Spec => []TypeOK`, by which fibre is laid on the mandrel only
* `DatumIsKept`: `Spec => []DatumKept`

The first two are not inductive: `ZeroAxes` keeps the datum only because carriage and head are
at zero there, which depends on where each pass ends and on what the validators
have established of the layer.  `Position` says this phase by phase; one lemma per
group of actions, over `StationsOnBand` (where the stations of a pass lie) and
`AcceptedLayer` (what an accepted layer satisfies).  The types need it, and `Closing`
(`PlannerInv`).  The datum is kept because `zero_axes` is given the angle the machine is
at (`Registered`).

`CoverageProofs.tla` extends it with the validators' claim about winding, for every turn:

* `AcceptedLayersCover`: `Spec => []FullCoverage`
* `RefusedLocksLeaveBareStrips`: `Spec => []LockRejectionsAreNeeded`
* `SuggestedLocksCover`: `Spec => []SuggestionsCover`, the second half of `SuggestionsPass`
* `SuggestionsAlwaysPass`: `(\A p \in Patterns : p =< 16) => (Spec => []SuggestionsPass)`.  That a
  rejection suggests a lock at all is found in the half steps above the layer's own, of
  which the validator looks at 16: their strides run through every residue of a pattern
  number that is not larger.  For larger ones the search looks far enough only as long as
  their factors are few, and that is not proved.

Its first part is arithmetic.  A circuit starts where as many advances as there are circuits before it
have led, and one step further for each whole pattern.  `StartsDistinct` shows by Euclid's lemma that starts differ if the
advance, in slots, is coprime to the pattern number *p*; as many distinct multiples of a step as fit in
a turn are evenly spaced (`StartsEvenlySpaced`); and with a common factor two circuits
coincide (`SpacingNeedsStride`).  Induction over a number is by the least number outside a set
(`SetInduction`).  Its second part is `Track`, the invariant of a layer on its way: every
circuit and pass so far has laid at its angle at every station, and nothing else is laid.
The way back retraces the way out because rotation grows with the station, which
`PlannerAssumption` says of windings as the kinematics do (`calculations.py:143` and `:525`:
the integral of a positive function).

`ToolpathProofs.tla` proves of the programs, for all waypoints, layers, calls, feed rates and texts
allowed by `ToolpathAssumption`, `UnitsAssumption` and `SeamAssumption`,

* `ReadBackGivesPlan`: `PathSpec => []ReadBackIsPlan`
* `PlotIsTheTrack`: `PathSpec => []PlotFollowsTrack`
* `PathTypeCorrect`: `PathSpec => []PathTypeOK`, and `PlanningTypeCorrect`: `PlanningSpec => []PlanningTypeOK`,
  for a behaviour of `MCPlanning` is one of the winding and one of the toolpath (`PlanningParts`).

The state invariant, `PathInv`, is small: the machine begins with a feed rate and only adds
moves (`MachineOK`); layers end in order, the last with the last move (`LayersOK`); the text of
a plan is what was written, and the program what was read of it (`TextOK`).  The rest is about what the
operators compute for programs of any length.  A recursive function is first shown to exist
step by step (`PrimitiveRecursion`, `RecursionForever`), and is then followed by induction on a place:

* Reading undoes writing line by line (`WrittenMoveRead`), because rounding a printed number
  changes nothing (`PrintedOf`); lines that are read as one move each, or as none, flatten to
  the moves (`FlattenSingles`, `WrittenRead`).
* The comment and the init move before a plan measure nothing (`PrefixUnmeasured`), and equal
  moves are measured equally (`MeteringAgrees`).  A feed rate of a printed digit is not rounded
  to zero, so every motion has one (`PlanIsMeasured`).
* The metrics of a prefix are those taken on the way (`UptoPrefix`), and their legs begin as those of
  any shorter prefix do (`LegsBegin`), so the layers' differences join to the program (`LayersAddUp`).
* Plot and metrics keep the same last position (`PlotFollowsMove`, `PlotOfProgram`).  `_split_segment`
  calls itself on a rest that is fewer bands away from the end (`RestIsNearer`), so it ends; `Pieces` says
  what it has cut off so far and `NextPiece` that one more cut keeps it (`SplitIsPieces`, `LegsUnbroken`).
  Of each piece it also says which of its ends may lie on the seam, by which `DrawnPiece` tells the
  pieces that the image shows as they are from those cut off upwards.

Of the GUI, each for any number of files, operations, requests, calls, attempts,
faults, paths, page loads and toasts:

* `WorkspaceProofs`: `CleanDocumentsAreSaved` (`FileSpec => []CleanMeansSaved`) and
  `NothingIsDiscardedUnasked` (`FileSpec => DiscardIsAgreed`).  The session's fields say
  nothing of what is on its way, so `FileInv` does: until something crosses, one operation at
  most is at the disk; what a save carries is the document as it is; what a load brings is
  what its file holds; and, whatever crosses, a load past its question was agreed to, or the document
  is clean, or it was edited since (`Licensed`).
  Steps have three shapes (an operation moves, a document is loaded, the disk is written),
  a lemma each.
* `WorkspaceProofs`, of the preview: `SpinnerNeverSticks` (`PreviewSpec => []SpinnerMeansPending`), from
  `RequestsInv`: a number not given out yet is not in flight, so a new request is never
  answered by an old one; `ScrubberFollowsLayers` (`PreviewSpec => []PreviewTypeOK`): no id names two
  layers, the selected one exists, the scrubber asks for layers that are there.
* `WorkspaceProofs`, of both: `WorkspaceTypeCorrect` (`WorkspaceSpec => []WorkspaceTypeOK`), from `FileInv` and
  `BoundsInv`.  Its hardest conjunct is the list of recent files: a path used again is taken out
  before it is put first (`OtherRecentFilesKept`), so none is listed twice, and the list is cut.
* `PageProofs`: `OpenedAtMostOnce` (`OpenSpec => []NeverOpenedTwice`), from `ChannelInv`: one
  channel at a time holds a path.
* `PageProofs`, of the API: `OneSidecarAtATime` (`SidecarSpec => []OneSidecar`), from who holds the mutex and what the ports
  in slot and answers stand for; `CallsFailForACause` (`ClientSpec => []FailuresAccounted`).
  For the latter a failed attempt must be charged to a refusal of the call's own, or to a fault that no earlier attempt
  of the call was charged with.  A start is *spoiled* once it, its answer or its process has failed.
  `ClientInv` counts, place by place, what a call has cost (`Paid`): an attempt made after the memo
  was emptied finds a start that only a new fault can spoil.
* `PageProofs`, of the toasts: `ToastsKeepTheirTime` (`ToastSpec => []DisplayTimeKept`), from `ToastInv`:
  what is left less what has passed since arming is the duration less the time seen.
* `PageProofs`, of the four together: `PageTypeCorrect` (`PageSpec => []PageTypeOK`), from the
  invariants of the parts: the count of faults needs the sidecar's, the attempts the client's.

The proofs rest on the named assumptions on constants (`MachineAssumption`, `SessionAssumption`,
`PlannerAssumption`, `UnitsAssumption`, `SeamAssumption`, `ToolpathAssumption`, `FilesAssumption`, `PreviewAssumption`, `OpenedAssumption`,
`SidecarAssumption`, `ClientAssumption`, `HealthAssumption`, `ToastsAssumption`), which the runs evaluate.

Model-checked only is

* everything under fairness (`DisconnectReturns`, `EstopEndsStreaming`, `WorkerSettles`,
  `StreamDisplayEnds`, `ControlsReleased`, `CallsSettle`, `HealthIsSeen`,
  `ToastsGoAway`): TLAPS proves no liveness.

Every invariant that a passing run checks is stated by a theorem.  Three of these have a
hypothesis, each named above: one poll
loop of `EventsAreSeenOnce`, a calm session of `NoJobIsAbandoned`, pattern numbers up to 16 of
`SuggestionsAlwaysPass`.

## 7. Not modelled

See `components` in `PROJECT.json` for each part left out and why.  Within the
machine service: ports, baud rates, firmware and capabilities are data no
property is about; `get_job` reads only; wall-clock time is the choice between
"the throttle allows" and "it does not".  Within the machine session: `sendCommand`
and `refreshPorts` touch loading flags of their own only; the log, its texts and
the progress display follow the events shown.  A request that fails at the page ends there: that
the sidecar executes it later, after the page has gone on, is not modelled (an answer lost
after the request was carried out is).

* *Shell.*  Whether `try_wait` sees a death is atomic with it.  The end of the application.
* *Open project.*  The messages beside fields and their debounce keep no state that another
  part reads.  `exportGcode` changes nothing of the session; `validationErrors` and
  `notifications.clear` have no caller but tests.  Zoom and pan.
* *Planner.*  Trigonometry; the ramp of the head; feed rates below a printed digit, which
  are printed as F0 and which a `FeedRates` of the model does not have; times and lengths as numbers (they
  are functions of the legs).
* *Plot.*  Pixels, colours and digests; the scale is 1.
* *CLI streaming, config, the components and styles, the generated schema*: no state of their own, or
  none but the external host's.

## 8. Where documentation and code differ

The following are violation runs; `PROJECT.json` quotes the lines.

* `MachineDocWriters`: pause (or cancel) a job while its worker waits for an
  `ok`; `send_command` is accepted and shares the transport with it.
* `SessionDocReconnect`: an emergency stop that fails leaves the sidecar's port
  open; the next connect is refused as already connected.
* `PageDocOpens`: `main.rs:33-35` and `App.svelte:46-49` say that no open is dropped and no stale path
  stays.  A delivery that reads the flag before the drain and stores after it leaves the path in a
  slot that is emptied only when the page is loaded again.

Others, which the models contain and no run singles out:

* `docs/guides/wind-format.md:236` promises the "nearest valid" lock values to a rejected layer; `validators.py:72`
  cuts the ascending list at three, which are the lowest of the search window.
* `tests/api/test_machine_route.py:152` expects of a completed job that it sent its
  total; the last acknowledgement of a cancelled job is credited to the job that
  replaced it (`machine.py:276`), which can complete with that count.
* `docs/guides/marlin-streaming.md:284` says that the GUI reattaches to a running
  job; a reloaded page does not (`Reload` in `MachineSession`).
* The same paragraph calls pause, resume and cancel lock-free on the request side; each takes `_lock`, and waits
  behind a handshake or query that keeps it (`KnownJob`).  Only the emergency stop does not.
* `docs/guides/wind-format.md:212` allows `patternNumber` 1 and
  `validators.py:178-180` speaks of it, but `skipIndex` is at least 1 and must be
  less than `patternNumber`, so it is always refused.
* `machine.py:385` says that the snapshot exists only while a job is active;
  pausing a finished job writes one that stays (a restart discards it).
* `docs/guides/marlin-streaming.md:262` says that a cancelled worker stops before
  the next line; the stop flag belongs to the host, and with `StopReset = "at_end"`
  the stream of the replacement, or the cancelled one, may forget the other's stop.
  Where the flag is cleared is up to the external package, so this is a possibility and no finding.
* `machine.py:257-263`: `_run_job` catches three kinds of exception.  Of any other the worker dies
  and the job stays streaming; the next `start_job` is refused until a cancel or disconnect.
* `fiberpath_gui/docs/architecture/streaming-state.md:452-462` has no edge from "disconnected"
  but Connect, and no pause without a job; the reply of a pause or start that
  comes after the end of the job or the disconnect sets the status all the same.
* `machine.py:418` says that the snapshot is deleted when its job ends; a
  cancelled job's late worker (`machine.py:271`) deletes that of the job that replaced it, and a crash
  before the next acknowledged line loses the job.
* The same lines, of the other ways an open can be lost: several paths before the drain share one slot,
  so the last one stays; an event emitted while a reloaded page has no listener yet is not heard.
* `project-session.svelte.ts:138`: a save marks the revision current when it *ends*, so what was
  edited meanwhile counts as saved.  A save and a load that overlap leave the loaded document
  with the path of the saved one.  A confirmed open replaces what was edited while
  the file is read.  A write that fails may leave a torn file under a document that was clean.
* `notifications.svelte.ts:38-58`: the mouse and the focus each pause and resume.  The second
  pause subtracts the same time again, and the first resume arms a timer while the
  other still holds; the second arms another, and the first is never cleared.  The toast
  goes early; it always goes (`ToastsGoAway`).
* `plotter.py:205-212`: a leg that crosses the seam upwards is cut at 360 degrees, and
  `_screen_point` takes that modulo 360: the piece is drawn back to 0 (`Drawn`; `Unbroken` says so of
  these pieces and of no others).
* `docs/guides/visualization.md:22-23` gives the plot's axes the other way round than
  `plotter.py` draws them.
* `gcode/reader.py:9` calls `read_program` the inverse of `serialize`.  A verbose program
  begins with a comment before the header and is not written again in that order; the
  number of digits is lost, as it must be.
* `planning/machine.py:109-118`: `zero_axes` at a multiple of 360 degrees still turns the mandrel
  once around.
* The late reply of a cancel (`machine-session.svelte.ts:388`) ends whatever job is current
  on display.
