----------------------------- MODULE ApiSidecar -----------------------------
(***************************************************************************)
(* The supervisor of the API sidecar (src-tauri/src/api_sidecar.rs): one   *)
(* mutex guards the slot that holds the running sidecar; base_url answers  *)
(* with its port, and spawns a new process when there is none or it has    *)
(* died.  The call is made by the thread that warms the sidecar up at      *)
(* start (main.rs:339) and by the page's api_base_url.                     *)
(*                                                                         *)
(* A process is the port it binds, which no other one gets again.          *)
(***************************************************************************)
EXTENDS Naturals

CONSTANTS
  Threads,     \* the calls of base_url
  NoThread,    \* the mutex is free
  MaxFaults    \* bound: processes that die, spawns and calls that fail

ASSUME SidecarAssumption == NoThread \notin Threads /\ MaxFaults \in Nat

\* A process is spawned only after a fault ended the last one.
Ports == 1..(MaxFaults + 1)
NoPort == 0

VARIABLES
  proc,     \* the processes: "unborn", "starting", "listening", "dead", or
            \* "leaked": alive, with nobody left who holds its handle
  slot,     \* ApiSidecarState: the port of the sidecar held, or NoPort
  guard,    \* who holds the mutex
  caller,   \* the calls of base_url: where they are, and their port
  faults    \* history: faults so far

sidecarVars == <<proc, slot, guard, caller, faults>>

Alive(p) == p # NoPort /\ proc[p] \in {"starting", "listening"}
Fault == faults < MaxFaults /\ faults' = faults + 1

SidecarInit ==
  /\ proc = [p \in Ports |-> "unborn"]
  /\ slot = NoPort /\ guard = NoThread
  /\ caller = [t \in Threads |-> [at |-> "idle", port |-> NoPort]]
  /\ faults = 0

At(t, at, p) == caller' = [caller EXCEPT ![t] = [at |-> at, port |-> p]]

\* api_base_url is invoked, or the warm-up thread starts.
AskUrl(t) == caller[t].at = "idle" /\ At(t, "called", NoPort)

\* The slot holds a live sidecar: its port is the answer.
AnswerHeld(t) ==
  /\ caller[t].at = "called" /\ guard = NoThread
  /\ Alive(slot)
  /\ At(t, "done", slot)
  /\ UNCHANGED <<proc, slot, guard, faults>>

\* Mutant: the slot is emptied and the process left alone.
DropUnkilled == UNCHANGED proc

\* A sidecar that has exited, or of which try_wait cannot tell, is dropped, which
\* kills and reaps it; without one a new one is spawned, under the mutex.
DropSidecar == proc' = [p \in Ports |-> IF p = slot THEN "dead" ELSE proc[p]]

Spawn(t) ==
  /\ caller[t].at = "called" /\ guard = NoThread
  /\ IF Alive(slot) THEN Fault ELSE UNCHANGED faults
  /\ slot' = NoPort /\ guard' = t
  /\ At(t, "spawning", NoPort)
  /\ DropSidecar

\* The process runs ...
SpawnOk(t) ==
  /\ caller[t] = [at |-> "spawning", port |-> NoPort]
  /\ \E p \in Ports :
       /\ proc[p] = "unborn" /\ \A q \in Ports : q < p => proc[q] # "unborn"
       /\ proc' = [proc EXCEPT ![p] = "starting"]
       /\ At(t, "spawning", p)
  /\ UNCHANGED <<slot, guard, faults>>

\* ... or could not be started.
SpawnFails(t) ==
  /\ caller[t] = [at |-> "spawning", port |-> NoPort]
  /\ Fault
  /\ At(t, "failed", NoPort) /\ guard' = NoThread
  /\ UNCHANGED <<proc, slot>>

\* The line that names the port is read, and the mutex released ...
Handshake(t) ==
  /\ caller[t].at = "spawning" /\ caller[t].port # NoPort
  /\ proc[caller[t].port] = "starting"
  /\ proc' = [proc EXCEPT ![caller[t].port] = "listening"]
  /\ slot' = caller[t].port /\ guard' = NoThread
  /\ At(t, "done", caller[t].port)
  /\ UNCHANGED faults

\* ... or the output ends first: with the process, or ahead of it.  The Child is
\* dropped then, which does not kill: only an ApiSidecar does that.
NoHandshake(t) ==
  LET p == caller[t].port
  IN /\ caller[t].at = "spawning" /\ p # NoPort
     /\ \/ proc[p] = "dead" /\ UNCHANGED <<proc, faults>>
        \/ proc[p] = "starting" /\ Fault /\ proc' = [proc EXCEPT ![p] = "leaked"]
     /\ At(t, "failed", NoPort) /\ guard' = NoThread
     /\ UNCHANGED slot

\* A sidecar dies.
Die ==
  /\ Fault
  /\ \E p \in Ports : Alive(p) /\ proc' = [proc EXCEPT ![p] = "dead"]
  /\ UNCHANGED <<slot, guard, caller>>

UrlStep(t) == AnswerHeld(t) \/ Spawn(t) \/ SpawnOk(t) \/ SpawnFails(t)
                \/ Handshake(t) \/ NoHandshake(t)

SidecarNext ==
  \/ Die
  \/ \E t \in Threads : UrlStep(t) \/ (AskUrl(t) /\ UNCHANGED <<proc, slot, guard, faults>>)

SidecarSpec == SidecarInit /\ [][SidecarNext]_sidecarVars

-----------------------------------------------------------------------------
(* Properties *)

SidecarTypeOK ==
  /\ proc \in [Ports -> {"unborn", "starting", "listening", "dead", "leaked"}]
  /\ slot \in Ports \cup {NoPort} /\ guard \in Threads \cup {NoThread}
  /\ caller \in [Threads -> [at : {"idle", "called", "spawning", "done", "failed"},
                             port : Ports \cup {NoPort}]]
  /\ faults \in 0..MaxFaults

\* api_sidecar.rs:120 "the sidecar never lingers as an orphan holding its port": at
\* most one process is alive, whoever asks for it at the same time, and it is the
\* one in the slot or the one being waited for.  (The comment is of Drop for
\* ApiSidecar; a process that outlives its broken handshake never becomes one.)
OneSidecar ==
  \A p \in Ports : Alive(p) =>
    /\ \A q \in Ports : Alive(q) => q = p
    /\ slot = p \/ (guard # NoThread /\ caller[guard] = [at |-> "spawning", port |-> p])
=============================================================================
