----------------------------- MODULE PageProofs -----------------------------
(***************************************************************************)
(* The parts of the page, for any files, calls, probes and toasts.         *)
(*                                                                         *)
(* The supervisor (ApiSidecar): who spawns holds the mutex and the slot is *)
(* empty meanwhile, so a process alive is the one held or the one being    *)
(* waited for.  The client (ApiClient): a start is spoiled when it failed, *)
(* when the shell failed it or when its process is dead, and only a fault  *)
(* spoils one.  Each attempt of a call begins with as many faults and      *)
(* refusals behind it as attempts that failed, on a start that is not      *)
(* spoiled yet or has cost one more: whatever fails empties the memo, and  *)
(* what fills it again asks for a port after that.  A refusal leaves the   *)
(* memo, but a memo that is spoiled meanwhile has cost a fault already.    *)
(*                                                                         *)
(* OpenedFile: how often a path was opened follows from where it is, and   *)
(* what the slot and the reply of a take hold is where the path is said    *)
(* to be: so neither can be opened after it was handled.                   *)
(*                                                                         *)
(* Notifications: DisplayTimeKept is inductive together with what the      *)
(* entry of a toast says: the time left when it was armed, less its age,   *)
(* is its duration less the time it was seen; a toast that was never held  *)
(* twice is held by one thing at most; and an id not given out yet has no  *)
(* timeout.                                                                *)
(*                                                                         *)
(* The types of all parts: the status of the backend never waits for a     *)
(* probe that is not out, an API call never passes its attempts (by the    *)
(* invariant of the client), and no time of a toast exceeds its duration.  *)
(***************************************************************************)
EXTENDS MCPage, TLAPS

-----------------------------------------------------------------------------
(* The invariants of the supervisor and of the client *)

CallerRec == [at : {"idle", "called", "spawning", "done", "failed"},
              port : Ports \cup {NoPort}]

SidecarTypes ==
  /\ proc \in [Ports -> {"unborn", "starting", "listening", "dead", "leaked"}]
  /\ slot \in Ports \cup {NoPort} /\ guard \in Threads \cup {NoThread}
  /\ caller \in [Threads -> CallerRec]

\* The one that spawns holds the mutex, and the slot is empty until it is done.
GuardInv ==
  /\ \A t \in Threads : caller[t].at = "spawning" <=> guard = t
  /\ guard # NoThread => slot = NoPort

\* What the ports in the slot and in the answers stand for.
PortInv ==
  /\ slot # NoPort => proc[slot] \in {"listening", "dead"}
  /\ \A t \in Threads :
       /\ caller[t].at = "done" =>
            caller[t].port # NoPort /\ proc[caller[t].port] \in {"listening", "dead"}
       /\ caller[t].at = "spawning" /\ caller[t].port # NoPort =>
            proc[caller[t].port] \in {"starting", "dead"}
       /\ caller[t].at \in {"idle", "called", "failed"} => caller[t].port = NoPort

\* The inductive invariant of the supervisor.
SidecarInv == SidecarTypes /\ GuardInv /\ PortInv /\ OneSidecar

-----------------------------------------------------------------------------

Spoiled(s) ==
  \/ start[s] = "failed" \/ caller[s].at = "failed"
  \/ Port(s) # NoPort /\ proc[Port(s)] = "dead"

MemoSpoiled == clientPromise # NoStart /\ Spoiled(clientPromise)

CallRec == [at : {"idle", "client", "post", "plot", "wait", "done", "failed"},
            attempt : 0..MaxAttempts, on : Starts \cup {NoStart}, refused : Nat]

ClientTypes ==
  /\ clientPromise \in Starts \cup {NoStart}
  /\ start \in [Starts -> {"none", "url", "health", "ready", "failed"}]
  /\ call \in [Calls -> CallRec]
  /\ faults \in Nat

StartInv ==
  /\ \A s \in Starts : start[s] \in {"health", "ready"} => caller[s].at = "done"
  /\ clientPromise # NoStart => start[clientPromise] # "failed"
  /\ \A c \in Calls : Posting(c) => start[call[c].on] = "ready"

\* What each place of a call has cost in faults and refusals.
Paid(c) == faults + call[c].refused

Between(c) ==
  call[c].at \in {"idle", "wait"} =>
    /\ Paid(c) >= call[c].attempt
    /\ MemoSpoiled => Paid(c) >= call[c].attempt + 1
    /\ call[c].at = "idle" => call[c].attempt = 0
    /\ call[c].at = "wait" => call[c].attempt < MaxAttempts

During(c) ==
  call[c].at \in {"client", "post", "plot"} =>
    /\ call[c].on \in Starts /\ call[c].attempt >= 1
    /\ Paid(c) >= call[c].attempt - 1
    /\ Spoiled(call[c].on) \/ MemoSpoiled => Paid(c) >= call[c].attempt
    /\ call[c].at = "client" /\ start[call[c].on] = "failed" /\ MemoSpoiled
         => Paid(c) >= call[c].attempt + 1

CostInv ==
  \A c \in Calls : /\ Between(c) /\ During(c)
                   /\ call[c].at = "failed" => Paid(c) >= MaxAttempts

\* The inductive invariant of the client.
ClientInv == SidecarInv /\ ClientTypes /\ StartInv /\ CostInv

-----------------------------------------------------------------------------
(* The supervisor *)

LEMMA PortFacts == NoPort \notin Ports /\ NoThread \notin Threads
BY SidecarAssumption DEF Ports, NoPort

LEMMA SidecarInitInv == SidecarInit => SidecarInv
<1> SUFFICES ASSUME SidecarInit PROVE SidecarInv
  OBVIOUS
<1>1. SidecarTypes
  BY DEF SidecarInit, SidecarTypes, CallerRec
<1>2. GuardInv /\ PortInv
  BY PortFacts DEF SidecarInit, GuardInv, PortInv
<1>3. OneSidecar
  BY DEF SidecarInit, OneSidecar, Alive
<1> QED BY <1>1, <1>2, <1>3 DEF SidecarInv

\* A call of base_url changes its own place only.
LEMMA AtMeans ==
  ASSUME SidecarTypes, NEW t \in Threads, NEW p \in Ports \cup {NoPort},
         NEW at \in {"idle", "called", "spawning", "done", "failed"}, At(t, at, p)
  PROVE  /\ caller' \in [Threads -> CallerRec]
         /\ caller'[t].at = at /\ caller'[t].port = p
         /\ \A u \in Threads \ {t} : caller'[u] = caller[u]
<1> DEFINE r == [at |-> at, port |-> p]
<1>1. r \in CallerRec /\ r.at = at /\ r.port = p
  BY DEF CallerRec
<1>2. caller' = [caller EXCEPT ![t] = r]
  BY DEF At
<1> HIDE DEF r
<1> QED BY <1>1, <1>2 DEF SidecarTypes

LEMMA AskUrlKeeps ==
  ASSUME SidecarInv, NEW t \in Threads, AskUrl(t), UNCHANGED <<proc, slot, guard>>
  PROVE  SidecarInv'
<1>1. SidecarTypes /\ NoPort \in Ports \cup {NoPort} /\ caller[t].at = "idle"
      /\ At(t, "called", NoPort)
  BY DEF SidecarInv, AskUrl
<1>2. /\ caller' \in [Threads -> CallerRec]
      /\ caller'[t].at = "called" /\ caller'[t].port = NoPort
      /\ \A u \in Threads \ {t} : caller'[u] = caller[u]
  BY <1>1, AtMeans
<1>3. SidecarTypes' /\ GuardInv'
  BY <1>1, <1>2 DEF SidecarInv, SidecarTypes, GuardInv
<1>4. PortInv'
  BY <1>1, <1>2 DEF SidecarInv, PortInv
<1>5. guard # NoThread => guard \in Threads /\ caller'[guard] = caller[guard]
  BY <1>1, <1>2 DEF SidecarInv, GuardInv, SidecarTypes
<1>6. OneSidecar'
  BY <1>5 DEF SidecarInv, OneSidecar, Alive
<1> QED BY <1>3, <1>4, <1>6 DEF SidecarInv

LEMMA AnswerHeldKeeps ==
  ASSUME SidecarInv, NEW t \in Threads, AnswerHeld(t)
  PROVE  SidecarInv'
<1>1. /\ SidecarTypes /\ slot \in Ports \cup {NoPort} /\ caller[t].at = "called"
      /\ guard = NoThread /\ At(t, "done", slot) /\ UNCHANGED <<proc, slot, guard>>
      /\ slot # NoPort
  BY DEF SidecarInv, AnswerHeld, SidecarTypes, Alive
<1>2. /\ caller' \in [Threads -> CallerRec]
      /\ caller'[t].at = "done" /\ caller'[t].port = slot
      /\ \A u \in Threads \ {t} : caller'[u] = caller[u]
  BY <1>1, AtMeans
<1>3. SidecarTypes' /\ GuardInv'
  BY <1>1, <1>2 DEF SidecarInv, SidecarTypes, GuardInv
<1>4. PortInv'
  BY <1>1, <1>2 DEF SidecarInv, PortInv
<1>5. OneSidecar'
  BY <1>1 DEF SidecarInv, OneSidecar, Alive
<1> QED BY <1>3, <1>4, <1>5 DEF SidecarInv

\* Nobody spawns, so the one process that can be alive is the one in the slot,
\* and that one is killed before a new one is.
LEMMA SpawnKeeps ==
  ASSUME SidecarInv, NEW t \in Threads, Spawn(t)
  PROVE  SidecarInv'
<1>1. /\ SidecarTypes /\ NoPort \in Ports \cup {NoPort} /\ caller[t].at = "called"
      /\ guard = NoThread /\ slot' = NoPort /\ guard' = t /\ At(t, "spawning", NoPort)
      /\ proc' = [p \in Ports |-> IF p = slot THEN "dead" ELSE proc[p]]
  BY DEF SidecarInv, Spawn, DropSidecar
<1>2. /\ caller' \in [Threads -> CallerRec]
      /\ caller'[t].at = "spawning" /\ caller'[t].port = NoPort
      /\ \A u \in Threads \ {t} : caller'[u] = caller[u]
  BY <1>1, AtMeans
<1>3. \A u \in Threads : caller[u].at # "spawning"
  BY <1>1, PortFacts DEF SidecarInv, GuardInv
<1>4. SidecarTypes'
  BY <1>1, <1>2 DEF SidecarInv, SidecarTypes
<1>5. GuardInv'
  BY <1>1, <1>2, <1>3 DEF GuardInv
<1>6. \A p \in Ports : proc'[p] = "dead" \/ proc'[p] = proc[p]
  BY <1>1
<1>7. PortInv'
  <2>1. \A u \in Threads : caller[u].port \in Ports \cup {NoPort}
    BY <1>1 DEF SidecarTypes, CallerRec
  <2> QED BY <1>1, <1>2, <1>6, <2>1 DEF SidecarInv, PortInv
<1>8. \A p \in Ports : proc'[p] \notin {"starting", "listening"}
  <2>1. \A p \in Ports : Alive(p) => p = slot
    BY <1>1 DEF SidecarInv, OneSidecar
  <2>2. \A p \in Ports : proc[p] \in {"starting", "listening"} => p = slot
    BY <2>1, PortFacts DEF Alive
  <2> QED BY <1>1, <2>2
<1>9. OneSidecar'
  BY <1>8 DEF OneSidecar, Alive
<1> QED BY <1>4, <1>5, <1>7, <1>9 DEF SidecarInv

\* Between the spawn and the handshake: nothing is alive but what is waited for.
LEMMA WhileSpawning ==
  ASSUME SidecarInv, NEW t \in Threads, caller[t].at = "spawning"
  PROVE  /\ guard = t /\ slot = NoPort /\ t # NoThread
         /\ \A p \in Ports : Alive(p) => caller[t].port = p
<1>1. guard = t /\ slot = NoPort /\ t # NoThread
  BY PortFacts DEF SidecarInv, GuardInv
<1>2. ASSUME NEW p \in Ports, Alive(p) PROVE caller[t].port = p
  <2>1. p # slot
    BY <1>1, PortFacts
  <2>2. caller[t] = [at |-> "spawning", port |-> p]
    BY <1>1, <1>2, <2>1 DEF SidecarInv, OneSidecar
  <2> QED BY <2>2
<1> QED BY <1>1, <1>2

LEMMA SpawnOkKeeps ==
  ASSUME SidecarInv, NEW t \in Threads, SpawnOk(t)
  PROVE  SidecarInv'
<1>1. /\ caller[t].at = "spawning" /\ caller[t].port = NoPort
      /\ UNCHANGED <<slot, guard>> /\ SidecarTypes
  BY DEF SpawnOk, SidecarInv
<1>2. PICK p \in Ports : /\ proc[p] = "unborn" /\ proc' = [proc EXCEPT ![p] = "starting"]
                        /\ At(t, "spawning", p)
  BY DEF SpawnOk
<1>3. /\ caller' \in [Threads -> CallerRec]
      /\ caller'[t].at = "spawning" /\ caller'[t].port = p
      /\ \A u \in Threads \ {t} : caller'[u] = caller[u]
  BY <1>1, <1>2, AtMeans
<1>4. /\ proc' \in [Ports -> {"unborn", "starting", "listening", "dead", "leaked"}]
      /\ proc'[p] = "starting" /\ \A q \in Ports \ {p} : proc'[q] = proc[q]
  BY <1>1, <1>2 DEF SidecarTypes
<1>5. SidecarTypes' /\ GuardInv'
  BY <1>1, <1>3, <1>4 DEF SidecarInv, SidecarTypes, GuardInv
<1>6. PortInv'
  <2>1. \A u \in Threads : caller[u].port \in Ports \cup {NoPort}
    BY <1>1 DEF SidecarTypes, CallerRec
  <2>2. \A u \in Threads \ {t} : caller[u].at # "spawning"
    BY <1>1 DEF SidecarInv, GuardInv
  <2>3. \A u \in Threads \ {t} : caller[u].at = "done" => caller[u].port # p
    BY <1>2 DEF SidecarInv, PortInv
  <2> QED BY <1>1, <1>2, <1>3, <1>4, <2>1, <2>2, <2>3, WhileSpawning DEF SidecarInv, PortInv
<1>7. \A q \in Ports : proc'[q] \in {"starting", "listening"} => q = p
  BY <1>1, <1>4, WhileSpawning, PortFacts DEF Alive
<1>8. guard' = t /\ t # NoThread /\ caller'[t] = [at |-> "spawning", port |-> p]
  BY <1>1, <1>3, WhileSpawning DEF CallerRec
<1>9. OneSidecar'
  BY <1>7, <1>8 DEF OneSidecar, Alive
<1> QED BY <1>5, <1>6, <1>9 DEF SidecarInv

\* The spawn failed, or the process ended before it named its port.
LEMMA SpawnEndsKeeps ==
  ASSUME SidecarInv, NEW t \in Threads, SpawnFails(t) \/ NoHandshake(t)
  PROVE  SidecarInv'
<1>1. /\ caller[t].at = "spawning" /\ slot' = slot /\ guard' = NoThread
      /\ At(t, "failed", NoPort) /\ SidecarTypes /\ NoPort \in Ports \cup {NoPort}
  BY DEF SpawnFails, NoHandshake, SidecarInv
<1>8. /\ proc' \in [Ports -> {"unborn", "starting", "listening", "dead", "leaked"}]
      /\ \A q \in Ports : q # caller[t].port => proc'[q] = proc[q]
      /\ \A q \in Ports : q = caller[t].port => proc'[q] \in {"dead", "leaked"}
      /\ \A q \in Ports : proc[q] \in {"listening", "dead"} => proc'[q] = proc[q]
  <2>1. caller[t].port \in Ports \cup {NoPort}
    BY <1>1 DEF SidecarTypes, CallerRec
  <2>2. CASE UNCHANGED proc /\ (caller[t].port = NoPort \/ proc[caller[t].port] = "dead")
    BY <1>1, <2>2, PortFacts DEF SidecarTypes
  <2>3. CASE /\ caller[t].port # NoPort /\ proc[caller[t].port] = "starting"
             /\ proc' = [proc EXCEPT ![caller[t].port] = "leaked"]
    BY <1>1, <2>1, <2>3 DEF SidecarTypes
  <2> QED BY <2>2, <2>3 DEF SpawnFails, NoHandshake
<1>2. /\ caller' \in [Threads -> CallerRec]
      /\ caller'[t].at = "failed" /\ caller'[t].port = NoPort
      /\ \A u \in Threads \ {t} : caller'[u] = caller[u]
  BY <1>1, AtMeans
<1>3. \A u \in Threads \ {t} : caller[u].at # "spawning"
  BY <1>1 DEF SidecarInv, GuardInv
<1>4. SidecarTypes' /\ GuardInv'
  BY <1>1, <1>2, <1>3, <1>8, PortFacts DEF SidecarInv, SidecarTypes, GuardInv
<1>5. PortInv'
  <2>1. \A u \in Threads : caller[u].port \in Ports \cup {NoPort}
    BY <1>1 DEF SidecarTypes, CallerRec
  <2>2. slot = NoPort
    BY <1>1, WhileSpawning
  <2> QED BY <1>1, <1>2, <1>3, <1>8, <2>1, <2>2 DEF SidecarInv, PortInv
<1>6. \A q \in Ports : ~Alive(q)'
  BY <1>1, <1>8, WhileSpawning, PortFacts DEF Alive
<1>7. OneSidecar'
  BY <1>1, <1>6 DEF OneSidecar, Alive
<1> QED BY <1>4, <1>5, <1>7 DEF SidecarInv

LEMMA HandshakeKeeps ==
  ASSUME SidecarInv, NEW t \in Threads, Handshake(t)
  PROVE  SidecarInv'
<1> DEFINE p == caller[t].port
<1>1. /\ caller[t].at = "spawning" /\ p \in Ports /\ SidecarTypes
      /\ proc' = [proc EXCEPT ![p] = "listening"] /\ slot' = p /\ guard' = NoThread
      /\ At(t, "done", p)
  BY DEF Handshake, SidecarInv, SidecarTypes, CallerRec
<1>2. \A q \in Ports : Alive(q) => q = p
  BY <1>1, WhileSpawning
<1> SUFFICES ASSUME NEW port \in Ports, port = p PROVE SidecarInv'
  BY <1>1
<1> HIDE DEF p
<1>3. /\ caller' \in [Threads -> CallerRec]
      /\ caller'[t].at = "done" /\ caller'[t].port = port
      /\ \A u \in Threads \ {t} : caller'[u] = caller[u]
  BY <1>1, AtMeans
<1>4. /\ proc' \in [Ports -> {"unborn", "starting", "listening", "dead", "leaked"}]
      /\ proc'[port] = "listening" /\ \A q \in Ports \ {port} : proc'[q] = proc[q]
  BY <1>1 DEF SidecarTypes
<1>5. \A u \in Threads \ {t} : caller[u].at # "spawning"
  BY <1>1 DEF SidecarInv, GuardInv
<1>6. SidecarTypes'
  BY <1>1, <1>3, <1>4 DEF SidecarTypes
<1>7. GuardInv'
  BY <1>1, <1>3, <1>5, PortFacts DEF GuardInv
<1>8. PortInv'
  <2>1. \A u \in Threads : caller[u].port \in Ports \cup {NoPort}
    BY <1>1 DEF SidecarTypes, CallerRec
  <2> QED BY <1>1, <1>3, <1>4, <1>5, <2>1, PortFacts DEF SidecarInv, PortInv
<1>9. OneSidecar'
  BY <1>1, <1>2, <1>4 DEF OneSidecar, Alive
<1> QED BY <1>6, <1>7, <1>8, <1>9 DEF SidecarInv

LEMMA DieKeeps == SidecarInv /\ Die => SidecarInv'
<1> SUFFICES ASSUME SidecarInv, Die PROVE SidecarInv'
  OBVIOUS
<1>1. PICK p \in Ports : Alive(p) /\ proc' = [proc EXCEPT ![p] = "dead"]
  BY DEF Die
<1>2. UNCHANGED <<slot, guard, caller>> /\ SidecarTypes
  BY DEF Die, SidecarInv
<1>3. /\ proc' \in [Ports -> {"unborn", "starting", "listening", "dead", "leaked"}]
      /\ \A q \in Ports : proc'[q] = "dead" \/ proc'[q] = proc[q]
  BY <1>1, <1>2 DEF SidecarTypes
<1>4. SidecarTypes' /\ GuardInv'
  BY <1>2, <1>3 DEF SidecarInv, SidecarTypes, GuardInv
<1>5. PortInv'
  <2>1. \A u \in Threads : caller[u].port \in Ports \cup {NoPort}
    BY <1>2 DEF SidecarTypes, CallerRec
  <2> QED BY <1>2, <1>3, <2>1 DEF SidecarInv, SidecarTypes, PortInv
<1>6. OneSidecar'
  BY <1>2, <1>3 DEF SidecarInv, OneSidecar, Alive
<1> QED BY <1>4, <1>5, <1>6 DEF SidecarInv

LEMMA UrlStepKeeps ==
  ASSUME SidecarInv, NEW t \in Threads, UrlStep(t)
  PROVE  SidecarInv'
BY AnswerHeldKeeps, SpawnKeeps, SpawnOkKeeps, SpawnEndsKeeps, HandshakeKeeps DEF UrlStep

LEMMA SidecarStutters == SidecarInv /\ UNCHANGED <<proc, slot, guard, caller>> => SidecarInv'
<1> SUFFICES ASSUME SidecarInv, UNCHANGED <<proc, slot, guard, caller>> PROVE SidecarInv'
  OBVIOUS
<1>1. SidecarTypes' /\ GuardInv' /\ PortInv'
  BY DEF SidecarInv, SidecarTypes, GuardInv, PortInv
<1>2. OneSidecar'
  BY DEF SidecarInv, OneSidecar, Alive
<1> QED BY <1>1, <1>2 DEF SidecarInv

\* At most one sidecar is alive, whoever calls base_url at the same time and
\* whichever spawns and processes fail (api_sidecar.rs:50-122).
THEOREM OneSidecarAtATime == SidecarSpec => []OneSidecar
<1>1. SidecarInv /\ [SidecarNext]_sidecarVars => SidecarInv'
  BY DieKeeps, UrlStepKeeps, AskUrlKeeps, SidecarStutters DEF SidecarNext, sidecarVars
<1>2. SidecarInv => OneSidecar
  BY DEF SidecarInv
<1> QED BY <1>1, <1>2, SidecarInitInv, PTL DEF SidecarSpec

-----------------------------------------------------------------------------
(* The client *)

LEMMA StartFacts ==
  /\ Starts \subseteq Threads /\ NoStart \notin Starts /\ Warm \in Threads
  /\ Warm \notin Starts /\ MaxAttempts \in Nat \ {0}
  /\ \A c \in Calls, n \in 1..MaxAttempts : <<c, n>> \in Starts
BY ClientAssumption DEF Starts

LEMMA ClientInitInv == ClientInit => ClientInv
<1> SUFFICES ASSUME ClientInit PROVE ClientInv
  OBVIOUS
<1>1. SidecarInv
  BY SidecarInitInv DEF ClientInit
<1>2. ClientTypes
  BY StartFacts DEF ClientInit, SidecarInit, ClientTypes, CallRec
<1>3. StartInv
  BY DEF ClientInit, StartInv, Posting
<1>4. CostInv
  <2>1. \A c \in Calls : /\ call[c].at = "idle" /\ call[c].attempt = 0
                         /\ call[c].refused = 0
    BY DEF ClientInit
  <2>2. ~MemoSpoiled /\ faults = 0
    BY DEF ClientInit, SidecarInit, MemoSpoiled
  <2> QED BY <2>1, <2>2 DEF CostInv, Between, During, Paid
<1> QED BY <1>1, <1>2, <1>3, <1>4 DEF ClientInv

\* Either a fault, or no start is spoiled that was not.
Costs == faults' = faults + 1 \/ (faults' = faults /\ \A s \in Starts : Spoiled(s)' => Spoiled(s))

\* What happens elsewhere leaves the cost of a call in order, whatever it spoils, if
\* a start that it fails leaves the memo empty and one that it begins is not spoiled.
LEMMA CallStays ==
  ASSUME ClientInv, Costs, NEW c \in Calls, call'[c] = call[c],
         MemoSpoiled' => clientPromise' = clientPromise,
         \A s \in Starts : start[s] # "failed" /\ start'[s] = "failed" => clientPromise' = NoStart
  PROVE  /\ Between(c)' /\ During(c)'
         /\ call[c].at = "failed" => Paid(c)' >= MaxAttempts
<1>1. /\ clientPromise \in Starts \cup {NoStart} /\ faults \in Nat
      /\ call[c].attempt \in Nat /\ call[c].refused \in Nat
  <2>1. call[c] \in CallRec
    BY DEF ClientInv, ClientTypes
  <2> QED BY <2>1 DEF ClientInv, ClientTypes, CallRec
<1>2. /\ faults' \in Nat /\ faults <= faults'
      /\ faults' = faults => \A s \in Starts : Spoiled(s)' => Spoiled(s)
      /\ faults' # faults => faults' = faults + 1
  BY <1>1 DEF Costs
<1>3. ASSUME faults' = faults, MemoSpoiled' PROVE MemoSpoiled
  <2>1. clientPromise' = clientPromise /\ clientPromise \in Starts
    BY <1>1, <1>3 DEF MemoSpoiled
  <2> SUFFICES ASSUME NEW m \in Starts, m = clientPromise, m = clientPromise' PROVE MemoSpoiled
    BY <2>1
  <2>2. Spoiled(m)'
    BY <1>3 DEF MemoSpoiled, Spoiled, Port
  <2>3. Spoiled(m)
    BY <1>2, <1>3, <2>2
  <2>4. Spoiled(clientPromise)
    BY <2>3
  <2> QED BY <2>1, <2>4, StartFacts DEF MemoSpoiled
<1>4. Between(c)'
  <2>1. Between(c)
    BY DEF ClientInv, CostInv
  <2> QED BY <1>1, <1>2, <1>3, <2>1 DEF Between, Paid
<1>5. During(c)'
  <2> SUFFICES ASSUME call[c].at \in {"client", "post", "plot"} PROVE During(c)'
    BY DEF During
  <2>1. /\ call[c].on \in Starts /\ call[c].attempt >= 1
        /\ Paid(c) >= call[c].attempt - 1
        /\ Spoiled(call[c].on) \/ MemoSpoiled => Paid(c) >= call[c].attempt
        /\ call[c].at = "client" /\ start[call[c].on] = "failed" /\ MemoSpoiled
             => Paid(c) >= call[c].attempt + 1
    BY DEF ClientInv, CostInv, During
  <2> SUFFICES ASSUME NEW s \in Starts, s = call[c].on PROVE During(c)'
    BY <2>1
  <2>2. Paid(c)' >= call[c].attempt - 1
    BY <1>1, <1>2, <2>1 DEF Paid
  <2>3. ASSUME Spoiled(s)' \/ MemoSpoiled' PROVE Paid(c)' >= call[c].attempt
    BY <1>1, <1>2, <1>3, <2>1, <2>3 DEF Paid
  <2>4. ASSUME call[c].at = "client", start'[s] = "failed", MemoSpoiled'
        PROVE  Paid(c)' >= call[c].attempt + 1
    <3>1. start[s] = "failed"
      BY <2>4, StartFacts DEF MemoSpoiled
    <3>2. Spoiled(s)
      BY <3>1 DEF Spoiled
    <3> QED BY <1>1, <1>2, <1>3, <2>1, <2>4, <3>1, <3>2 DEF Paid
  <2> QED BY <2>1, <2>2, <2>3, <2>4 DEF During
<1>6. call[c].at = "failed" => Paid(c)' >= MaxAttempts
  BY <1>1, <1>2, StartFacts DEF ClientInv, CostInv, Paid
<1> QED BY <1>4, <1>5, <1>6

\* So it does when no call moves and the memo stays or is emptied.
LEMMA CallsStay ==
  ASSUME ClientInv, Costs, UNCHANGED call, clientPromise' \in {clientPromise, NoStart},
         \A s \in Starts : start[s] # "failed" /\ start'[s] = "failed" => clientPromise' = NoStart
  PROVE  CostInv'
<1>1. MemoSpoiled' => clientPromise' = clientPromise
  BY DEF MemoSpoiled
<1> QED BY <1>1, CallStays DEF CostInv

-----------------------------------------------------------------------------
(* What the shell does *)

\* Only a fault spoils a start: an answer names a process that is alive, and the
\* sidecar that a spawn drops was dead if no fault is counted.
LEMMA UrlStepCosts ==
  ASSUME ClientInv, NEW t \in Threads, UrlStep(t), UNCHANGED start
  PROVE  Costs
<1> SUFFICES ASSUME faults' # faults + 1, NEW s \in Starts, Spoiled(s)'
             PROVE  faults' = faults /\ Spoiled(s)
  BY DEF Costs, UrlStep, AnswerHeld, Spawn, SpawnOk, SpawnFails, Handshake, NoHandshake, Fault
<1>1. SidecarTypes /\ PortInv /\ s \in Threads /\ faults \in Nat /\ NoPort \notin Ports
  BY StartFacts, PortFacts DEF ClientInv, SidecarInv, ClientTypes
<1>2. caller[s].port \in Ports \cup {NoPort} /\ caller[t].port \in Ports \cup {NoPort}
      /\ slot \in Ports \cup {NoPort}
  BY <1>1 DEF SidecarTypes, CallerRec
<1>3. start[s] = "failed" => Spoiled(s)
  BY DEF Spoiled
<1>4. CASE AnswerHeld(t)
  <2>1. At(t, "done", slot) /\ UNCHANGED <<proc, faults>> /\ proc[slot] # "dead"
    BY <1>4 DEF AnswerHeld, Alive
  <2>2. /\ caller'[t].at = "done" /\ caller'[t].port = slot
        /\ \A u \in Threads \ {t} : caller'[u] = caller[u]
    BY <1>1, <1>2, <2>1, AtMeans
  <2> QED BY <1>1, <2>1, <2>2 DEF Spoiled, Port
<1>5. CASE Spawn(t)
  <2>1. /\ At(t, "spawning", NoPort) /\ faults' = faults /\ ~Alive(slot)
        /\ proc' = [p \in Ports |-> IF p = slot THEN "dead" ELSE proc[p]]
    BY <1>5 DEF Spawn, Fault, DropSidecar
  <2>2. /\ caller'[t].at = "spawning" /\ caller'[t].port = NoPort
        /\ \A u \in Threads \ {t} : caller'[u] = caller[u]
    BY <1>1, <2>1, AtMeans
  <2>3. \A p \in Ports : proc'[p] = "dead" => proc[p] = "dead"
    BY <1>1, <2>1 DEF PortInv, Alive
  <2> QED BY <1>1, <1>2, <2>1, <2>2, <2>3 DEF Spoiled, Port
<1>6. CASE SpawnOk(t)
  <2>1. PICK p \in Ports : proc' = [proc EXCEPT ![p] = "starting"] /\ At(t, "spawning", p)
    BY <1>6 DEF SpawnOk
  <2>2. /\ caller'[t].at = "spawning" /\ caller'[t].port = p
        /\ \A u \in Threads \ {t} : caller'[u] = caller[u]
    BY <1>1, <2>1, AtMeans
  <2>3. /\ faults' = faults /\ proc'[p] = "starting"
        /\ \A q \in Ports : proc'[q] = "dead" => proc[q] = "dead"
    BY <1>1, <1>6, <2>1 DEF SpawnOk, SidecarTypes
  <2> QED BY <1>1, <1>2, <2>2, <2>3 DEF Spoiled, Port
<1>7. CASE SpawnFails(t)
  BY <1>7 DEF SpawnFails, Fault
<1>8. CASE Handshake(t)
  <2>1. /\ At(t, "done", caller[t].port) /\ faults' = faults /\ caller[t].port \in Ports
        /\ proc' = [proc EXCEPT ![caller[t].port] = "listening"]
    BY <1>2, <1>8 DEF Handshake
  <2>2. /\ caller'[t].at = "done" /\ caller'[t].port = caller[t].port
        /\ \A u \in Threads \ {t} : caller'[u] = caller[u]
    BY <1>1, <1>2, <2>1, AtMeans
  <2>3. /\ proc'[caller[t].port] = "listening"
        /\ \A q \in Ports : proc'[q] = "dead" => proc[q] = "dead"
    BY <1>1, <2>1 DEF SidecarTypes
  <2> QED BY <1>1, <1>2, <2>1, <2>2, <2>3 DEF Spoiled, Port
<1>9. CASE NoHandshake(t)
  <2>1. /\ At(t, "failed", NoPort) /\ UNCHANGED <<proc, faults>>
        /\ caller[t].port # NoPort /\ proc[caller[t].port] = "dead"
    BY <1>9 DEF NoHandshake, Fault
  <2>2. \A u \in Threads \ {t} : caller'[u] = caller[u]
    BY <1>1, <2>1, AtMeans
  <2> QED BY <1>1, <2>1, <2>2 DEF Spoiled, Port
<1> QED BY <1>4, <1>5, <1>6, <1>7, <1>8, <1>9 DEF UrlStep

LEMMA UrlStepLeaves ==
  ASSUME ClientInv, NEW t \in Threads, UrlStep(t), NEW u \in Threads, caller[u].at = "done"
  PROVE  caller'[u] = caller[u]
<1>1. u # t
  BY DEF UrlStep, AnswerHeld, Spawn, SpawnOk, SpawnFails, Handshake, NoHandshake
<1>2. \E r : caller' = [caller EXCEPT ![t] = r]
  BY DEF UrlStep, AnswerHeld, Spawn, SpawnOk, SpawnFails, Handshake, NoHandshake, At
<1> QED BY <1>1, <1>2 DEF ClientInv, SidecarInv, SidecarTypes

LEMMA FaultsAreCounted ==
  ASSUME ClientInv, Costs PROVE faults' \in Nat
BY DEF ClientInv, ClientTypes, Costs

LEMMA ShellStepKeeps ==
  ASSUME ClientInv, NEW t \in Threads, ShellStep(t)
  PROVE  ClientInv'
<1>1. UrlStep(t) /\ UNCHANGED <<clientPromise, start, call>>
  BY DEF ShellStep
<1>2. Costs
  BY <1>1, UrlStepCosts
<1>3. SidecarInv'
  BY <1>1, UrlStepKeeps DEF ClientInv
<1>4. ClientTypes'
  BY <1>1, <1>2, FaultsAreCounted DEF ClientInv, ClientTypes
<1>5. StartInv'
  BY <1>1, UrlStepLeaves, StartFacts DEF ClientInv, StartInv, Posting
<1>6. CostInv'
  BY <1>1, <1>2, CallsStay
<1> QED BY <1>3, <1>4, <1>5, <1>6 DEF ClientInv

LEMMA DieIsAFault ==
  ASSUME ClientInv, Die, UNCHANGED <<clientPromise, start, call>>
  PROVE  ClientInv'
<1>1. Costs /\ UNCHANGED caller
  BY DEF Die, Fault, Costs
<1>2. SidecarInv'
  BY DieKeeps DEF ClientInv
<1>3. ClientTypes' /\ StartInv'
  BY <1>1, FaultsAreCounted DEF ClientInv, ClientTypes, StartInv, Posting
<1>4. CostInv'
  BY <1>1, CallsStay
<1> QED BY <1>2, <1>3, <1>4 DEF ClientInv

-----------------------------------------------------------------------------
(* What the calls of the client do *)

\* A start that fails was spoiled, or costs a fault, and empties the memo.
LEMMA StartStepKeeps ==
  ASSUME ClientInv, NEW s \in Starts, StartStep(s)
  PROVE  ClientInv'
<1>1. /\ UNCHANGED <<proc, slot, guard, caller, call>> /\ faults \in Nat
      /\ clientPromise' \in {clientPromise, NoStart}
      /\ start \in [Starts -> {"none", "url", "health", "ready", "failed"}]
      /\ s \in Threads
  BY StartFacts DEF StartStep, UrlAnswered, Healthy, NotHealthy, StartFails, sidecarVars,
     ClientInv, ClientTypes
<1>2. \/ /\ start' = [start EXCEPT ![s] = "failed"] /\ clientPromise' = NoStart
         /\ faults' = faults + 1 \/ (faults' = faults /\ Spoiled(s))
      \/ /\ start[s] = "url" /\ caller[s].at = "done"
         /\ start' = [start EXCEPT ![s] = "health"]
         /\ UNCHANGED <<clientPromise, faults>>
      \/ /\ start[s] = "health"
         /\ start' = [start EXCEPT ![s] = "ready"]
         /\ UNCHANGED <<clientPromise, faults>>
  <2>1. CASE UrlAnswered(s)
    BY <2>1 DEF UrlAnswered, StartFails, sidecarVars, Spoiled
  <2>2. CASE Healthy(s)
    BY <2>2 DEF Healthy, sidecarVars
  <2>3. CASE NotHealthy(s)
    <3>1. caller[s].at = "done"
      BY <2>3 DEF NotHealthy, ClientInv, StartInv
    <3>2. Port(s) # NoPort /\ proc[Port(s)] \in {"listening", "dead"}
      BY <1>1, <3>1 DEF Port, ClientInv, SidecarInv, PortInv
    <3> QED BY <2>3, <3>2 DEF NotHealthy, StartFails, Fault, Spoiled
  <2> QED BY <2>1, <2>2, <2>3 DEF StartStep
<1>3. /\ start' \in [Starts -> {"none", "url", "health", "ready", "failed"}]
      /\ \A u \in Starts \ {s} : start'[u] = start[u]
      /\ start'[s] \in {"failed", "health", "ready"}
      /\ start'[s] = "failed" => clientPromise' = NoStart
      /\ start'[s] # "failed" => caller[s].at = "done" /\ start[s] \in {"url", "health"}
      /\ start'[s] # "failed" => clientPromise' = clientPromise /\ start'[s] # "none"
  BY <1>1, <1>2 DEF ClientInv, StartInv
<1>4. Costs
  <2>1. ASSUME NEW u \in Starts, u # s PROVE Spoiled(u)' => Spoiled(u)
    BY <1>1, <1>3, <2>1 DEF Spoiled, Port
  <2>2. ASSUME faults' # faults + 1, Spoiled(s)' PROVE Spoiled(s)
    <3>1. CASE start'[s] = "failed"
      BY <1>1, <1>2, <2>2, <3>1
    <3>2. CASE start'[s] # "failed"
      BY <1>1, <2>2, <3>2 DEF Spoiled, Port
    <3> QED BY <3>1, <3>2
  <2>3. faults' = faults + 1 \/ faults' = faults
    BY <1>2
  <2> QED BY <2>1, <2>2, <2>3 DEF Costs
<1>5. SidecarInv'
  BY <1>1, SidecarStutters DEF ClientInv
<1>6. ClientTypes'
  BY <1>1, <1>3, <1>4, FaultsAreCounted DEF ClientInv, ClientTypes
<1>7. StartInv'
  <2>1. \A u \in Starts : start'[u] \in {"health", "ready"} => caller'[u].at = "done"
    BY <1>1, <1>3 DEF ClientInv, StartInv
  <2>2. clientPromise' # NoStart => start'[clientPromise'] # "failed"
    BY <1>1, <1>3 DEF ClientInv, StartInv, ClientTypes
  <2>3. ASSUME NEW c \in Calls, Posting(c)' PROVE start'[call'[c].on] = "ready"
    <3>1. start[call[c].on] = "ready" /\ call[c].on \in Starts
      BY <1>1, <2>3 DEF ClientInv, StartInv, CostInv, During, Posting
    <3>2. call[c].on # s
      BY <1>2, <3>1 DEF StartStep, UrlAnswered, Healthy, NotHealthy
    <3> QED BY <1>1, <1>3, <3>1, <3>2
  <2> QED BY <2>1, <2>2, <2>3 DEF StartInv
<1>8. CostInv'
  BY <1>1, <1>3, <1>4, CallsStay
<1> QED BY <1>5, <1>6, <1>7, <1>8 DEF ClientInv

\* A call that changes its place; what its record says then is left to show.
LEMMA OneCallMoves ==
  ASSUME ClientInv, Costs, NEW c \in Calls, NEW r \in CallRec,
         call' = [call EXCEPT ![c] = r],
         MemoSpoiled' => clientPromise' = clientPromise,
         \A s \in Starts : start[s] # "failed" => start'[s] # "failed",
         Between(c)', During(c)', r.at = "failed" => faults' + r.refused >= MaxAttempts
  PROVE  CostInv'
<1>1. call \in [Calls -> CallRec]
  BY DEF ClientInv, ClientTypes, CallRec
<1>2. call'[c] = r /\ \A d \in Calls \ {c} : call'[d] = call[d]
  BY <1>1
<1>3. ASSUME NEW d \in Calls
      PROVE  /\ Between(d)' /\ During(d)'
             /\ call'[d].at = "failed" => Paid(d)' >= MaxAttempts
  <2>1. CASE d = c
    BY <1>2, <2>1 DEF Paid
  <2>2. CASE d # c
    BY <1>2, <2>2, CallStays
  <2> QED BY <2>1, <2>2
<1> QED BY <1>3 DEF CostInv

\* getApiClient: a start in the memo has not failed, and a new one is not spoiled.
LEMMA GetApiClientKeeps ==
  ASSUME ClientInv, NEW c \in Calls, NEW n \in 1..MaxAttempts, GetApiClient(c, n),
         UNCHANGED <<proc, slot, guard, faults>>,
         call[c].at \in {"idle", "wait"},
         Paid(c) >= n - 1, MemoSpoiled => Paid(c) >= n
  PROVE  ClientInv'
<1>1. /\ ClientTypes /\ SidecarTypes /\ StartInv /\ faults \in Nat /\ n \in Nat /\ n >= 1
      /\ call \in [Calls -> CallRec]
  BY StartFacts DEF ClientInv, SidecarInv, ClientTypes
<1>0. call[c] \in CallRec
  BY <1>1
<1>2. CASE /\ clientPromise # NoStart
           /\ Attempt(c, n, clientPromise)
           /\ UNCHANGED <<clientPromise, start, caller>>
  <2> DEFINE r == [call[c] EXCEPT !.at = "client", !.attempt = n, !.on = clientPromise]
  <2>1. /\ r \in CallRec /\ r.at = "client" /\ r.attempt = n /\ r.on = clientPromise
        /\ clientPromise \in Starts /\ r.refused = call[c].refused
    <3>1. clientPromise \in Starts /\ n \in 0..MaxAttempts
      BY <1>1, <1>2, StartFacts DEF ClientTypes
    <3> QED BY <1>0, <3>1 DEF CallRec
  <2>2. call' = [call EXCEPT ![c] = r]
    BY <1>2 DEF Attempt
  <2> HIDE DEF r
  <2>3. call'[c] = r /\ \A d \in Calls \ {c} : call'[d] = call[d]
    BY <1>1, <2>2
  <2>4. Costs
    BY <1>2 DEF Costs, Spoiled, Port
  <2>5. Between(c)'
    BY <2>1, <2>3 DEF Between
  <2>6. During(c)'
    <3>1. start[clientPromise] # "failed"
      BY <1>1, <1>2 DEF StartInv
    <3>2. Spoiled(clientPromise)' => Paid(c) >= n
      BY <1>2 DEF MemoSpoiled, Spoiled, Port
    <3>3. call'[c].on = clientPromise /\ clientPromise' = clientPromise /\ faults' = faults
          /\ start' = start /\ call'[c].attempt = n /\ Paid(c)' = Paid(c)
      BY <1>2, <2>1, <2>3 DEF Paid
    <3>4. Spoiled(call[c].on)' => Paid(c)' >= n
      BY <3>2, <3>3 DEF Spoiled, Port
    <3>5. MemoSpoiled' => Paid(c)' >= n
      BY <1>2, <3>3 DEF MemoSpoiled, Spoiled, Port
    <3>6. Paid(c)' >= n - 1
      BY <3>3
    <3> QED BY <1>1, <2>1, <3>1, <3>3, <3>4, <3>5, <3>6 DEF During
  <2>7. CostInv'
    BY <1>2, <2>1, <2>2, <2>4, <2>5, <2>6, OneCallMoves
  <2>8. ClientTypes'
    BY <1>1, <1>2, <2>1, <2>2 DEF ClientTypes
  <2>9. StartInv'
    BY <1>1, <1>2, <2>1, <2>3 DEF StartInv, Posting
  <2>10. SidecarInv'
    BY <1>2, SidecarStutters DEF ClientInv
  <2> QED BY <2>7, <2>8, <2>9, <2>10 DEF ClientInv
<1>3. CASE /\ clientPromise = NoStart /\ clientPromise' = <<c, n>>
           /\ start' = [start EXCEPT ![<<c, n>>] = "url"]
           /\ AskUrl(<<c, n>>)
           /\ Attempt(c, n, <<c, n>>)
  <2>1. <<c, n>> \in Starts
    BY StartFacts
  <2> SUFFICES ASSUME NEW s \in Starts, s = <<c, n>> PROVE ClientInv'
    BY <2>1
  <2> DEFINE r == [call[c] EXCEPT !.at = "client", !.attempt = n, !.on = s]
  <2>2. /\ r \in CallRec /\ r.at = "client" /\ r.attempt = n /\ r.on = s
        /\ r.refused = call[c].refused
    <3>1. n \in 0..MaxAttempts
      BY <1>1, StartFacts
    <3> QED BY <1>0, <3>1 DEF CallRec
  <2>3. call' = [call EXCEPT ![c] = r]
    BY <1>3 DEF Attempt
  <2> HIDE DEF r
  <2>4. call'[c] = r /\ \A d \in Calls \ {c} : call'[d] = call[d]
    BY <1>1, <2>3
  <2>5. s \in Threads /\ AskUrl(s) /\ caller[s].at = "idle" /\ At(s, "called", NoPort)
    BY <1>3, StartFacts DEF AskUrl
  <2>6. /\ caller'[s].at = "called" /\ caller'[s].port = NoPort
        /\ \A u \in Threads \ {s} : caller'[u] = caller[u]
    BY <1>1, <2>5, AtMeans
  <2>7. /\ start' \in [Starts -> {"none", "url", "health", "ready", "failed"}]
        /\ start'[s] = "url" /\ \A u \in Starts \ {s} : start'[u] = start[u]
    BY <1>1, <1>3 DEF ClientTypes
  <2>8. ~Spoiled(s)' /\ clientPromise' = s /\ s # NoStart
    BY <1>3, <2>6, <2>7, StartFacts DEF Spoiled, Port
  <2>9. ~MemoSpoiled'
    BY <2>6, <2>7, <2>8 DEF MemoSpoiled, Spoiled, Port
  <2>10. Costs
    <3>1. ASSUME NEW u \in Starts, Spoiled(u)' PROVE Spoiled(u)
      <4>1. u # s
        BY <2>8, <3>1
      <4> QED BY <2>6, <2>7, <3>1, <4>1, StartFacts DEF Spoiled, Port
    <3> QED BY <3>1 DEF Costs
  <2>11. Between(c)'
    BY <2>2, <2>4 DEF Between
  <2>12. During(c)'
    <3>1. ~Spoiled(call[c].on)' /\ start'[call'[c].on] # "failed"
      BY <2>2, <2>4, <2>6, <2>7 DEF Spoiled, Port
    <3>2. Paid(c)' = Paid(c) /\ call'[c].attempt = n /\ call'[c].on = s
      BY <2>2, <2>4 DEF Paid
    <3>3. Paid(c)' >= n - 1
      BY <3>2
    <3> QED BY <1>1, <2>9, <3>1, <3>2, <3>3 DEF During
  <2>13. CostInv'
    BY <2>2, <2>3, <2>7, <2>9, <2>10, <2>11, <2>12, OneCallMoves
  <2>14. ClientTypes'
    BY <1>1, <2>2, <2>3, <2>7, <2>8 DEF ClientTypes
  <2>15. StartInv'
    <3>1. \A u \in Starts : start'[u] \in {"health", "ready"} => caller'[u].at = "done"
      BY <1>1, <2>6, <2>7, StartFacts DEF StartInv
    <3>2. ASSUME NEW d \in Calls, Posting(d)' PROVE start'[call'[d].on] = "ready"
      <4>1. d # c /\ start[call[d].on] = "ready" /\ call[d].on \in Starts
        BY <1>1, <2>2, <2>4, <3>2 DEF StartInv, ClientInv, CostInv, During, Posting
      <4>2. call[d].on # s
        BY <1>1, <2>5, <4>1 DEF StartInv
      <4> QED BY <2>4, <2>7, <4>1, <4>2
    <3> QED BY <2>7, <2>8, <3>1, <3>2 DEF StartInv
  <2>16. SidecarInv'
    BY <2>5, AskUrlKeeps DEF ClientInv
  <2> QED BY <2>13, <2>14, <2>15, <2>16 DEF ClientInv
<1> QED BY <1>2, <1>3 DEF GetApiClient

\* A call that gives up an attempt: each cost a fault or a refusal, and a memo that
\* is spoiled already cost one more.
LEMMA AttemptFailsKeeps ==
  ASSUME ClientInv, Costs, NEW c \in Calls, NEW refused \in {0, 1}, AttemptFails(c, refused),
         UNCHANGED start,
         call[c].at \in {"client", "post", "plot"}, clientPromise' \in {clientPromise, NoStart},
         faults' + call[c].refused + refused >= call[c].attempt,
         MemoSpoiled' => faults' + call[c].refused + refused >= call[c].attempt + 1
  PROVE  CostInv' /\ call' \in [Calls -> CallRec]
           /\ \A d \in Calls : Posting(d)' => call'[d] = call[d]
<1>1. /\ call \in [Calls -> CallRec] /\ call[c] \in CallRec
      /\ call[c].attempt \in 0..MaxAttempts /\ call[c].refused \in Nat
  <2>1. call \in [Calls -> CallRec] /\ call[c] \in CallRec
    BY DEF ClientInv, ClientTypes
  <2> QED BY <2>1 DEF CallRec
<1>13. PICK n \in Nat : n = call[c].refused + refused
  BY <1>1
<1>14. PICK f \in Nat : f = faults'
  BY FaultsAreCounted
<1> DEFINE at == IF call[c].attempt < MaxAttempts THEN "wait" ELSE "failed"
           r == [call[c] EXCEPT !.at = at, !.refused = n]
<1>15. /\ f + n >= call[c].attempt
       /\ MemoSpoiled' => f + n >= call[c].attempt + 1
  BY <1>1, <1>13, <1>14
<1>2. at \in {"wait", "failed"}
  OBVIOUS
<1>3. at = "wait" => call[c].attempt < MaxAttempts
  OBVIOUS
<1>4. at = "failed" => call[c].attempt >= MaxAttempts
  BY <1>1, StartFacts
<1>5. call' = [call EXCEPT ![c] = r]
  BY <1>13 DEF AttemptFails
<1> HIDE DEF at
<1>6. r \in CallRec /\ r.at = at /\ r.attempt = call[c].attempt /\ r.refused = n
  BY <1>1, <1>2, <1>13 DEF CallRec
<1> HIDE DEF r
<1>7. call'[c] = r /\ \A d \in Calls \ {c} : call'[d] = call[d]
  BY <1>1, <1>5
<1>8. Between(c)'
  BY <1>2, <1>3, <1>6, <1>7, <1>15, <1>14 DEF Between, Paid
<1>9. During(c)'
  <2>1. call'[c].at \in {"wait", "failed"}
    BY <1>2, <1>6, <1>7
  <2> QED BY <2>1 DEF During
<1>10. r.at = "failed" => faults' + r.refused >= MaxAttempts
  <2> SUFFICES ASSUME at = "failed" PROVE f + n >= MaxAttempts
    BY <1>6, <1>14
  <2>1. MaxAttempts \in Nat /\ call[c].attempt \in Nat
    BY <1>1, StartFacts
  <2>2. call[c].attempt >= MaxAttempts /\ f + n >= call[c].attempt
    BY <1>4, <1>15
  <2> HIDE DEF r
  <2> QED BY ONLY <2>1, <2>2, f \in Nat, n \in Nat
<1>11. MemoSpoiled' => clientPromise' = clientPromise
  BY DEF MemoSpoiled
<1>12. CostInv'
  BY <1>5, <1>6, <1>8, <1>9, <1>10, <1>11, OneCallMoves
<1> QED BY <1>1, <1>2, <1>5, <1>6, <1>7, <1>12 DEF Posting

LEMMA ClientAnsweredKeeps ==
  ASSUME ClientInv, NEW c \in Calls, ClientAnswered(c)
  PROVE  ClientInv'
<1>1. /\ UNCHANGED <<proc, slot, guard, caller, faults, clientPromise, start>>
      /\ call[c].at = "client" /\ call \in [Calls -> CallRec] /\ call[c].on \in Starts
  BY DEF ClientAnswered, sidecarVars, ClientInv, ClientTypes, CallRec, CostInv, During
<1>2. Costs
  BY <1>1 DEF Costs, Spoiled, Port
<1>3. SidecarInv'
  BY <1>1, SidecarStutters DEF ClientInv
<1>4. CASE start[call[c].on] = "ready" /\ call' = [call EXCEPT ![c].at = "post"]
  <2> DEFINE r == [call[c] EXCEPT !.at = "post"]
  <2>1. /\ r \in CallRec /\ r.at = "post" /\ r.on = call[c].on
        /\ r.attempt = call[c].attempt /\ r.refused = call[c].refused
    BY <1>1 DEF CallRec
  <2>2. call' = [call EXCEPT ![c] = r]
    BY <1>4
  <2> HIDE DEF r
  <2>3. call'[c] = r /\ \A d \in Calls \ {c} : call'[d] = call[d]
    BY <1>1, <2>2
  <2>4. Between(c)'
    BY <2>1, <2>3 DEF Between
  <2>5. During(c)'
    <3>1. /\ call[c].attempt >= 1 /\ Paid(c) >= call[c].attempt - 1
          /\ Spoiled(call[c].on) \/ MemoSpoiled => Paid(c) >= call[c].attempt
      BY <1>1 DEF ClientInv, CostInv, During
    <3>2. (Spoiled(call[c].on)' => Spoiled(call[c].on)) /\ (MemoSpoiled' => MemoSpoiled)
      BY <1>1, <2>1, <2>3 DEF MemoSpoiled, Spoiled, Port
    <3>3. Paid(c)' = Paid(c)
      BY <1>1, <2>1, <2>3 DEF Paid
    <3> QED BY <1>1, <2>1, <2>3, <3>1, <3>2, <3>3 DEF During
  <2>6. CostInv'
    BY <1>1, <1>2, <2>1, <2>2, <2>4, <2>5, OneCallMoves
  <2>7. ClientTypes'
    BY <1>1, <2>1, <2>2 DEF ClientInv, ClientTypes, CallRec
  <2>8. StartInv'
    BY <1>1, <1>4, <2>1, <2>3 DEF ClientInv, StartInv, Posting
  <2> QED BY <1>3, <2>6, <2>7, <2>8 DEF ClientInv
<1>5. CASE start[call[c].on] = "failed" /\ AttemptFails(c, 0)
  <2>1. Paid(c) >= call[c].attempt /\ (MemoSpoiled => Paid(c) >= call[c].attempt + 1)
    <3>1. Spoiled(call[c].on)
      BY <1>5 DEF Spoiled
    <3> QED BY <1>1, <1>5, <3>1 DEF ClientInv, CostInv, During
  <2>5. faults' + call[c].refused + 0 = Paid(c)
    BY <1>1 DEF Paid, ClientInv, ClientTypes, CallRec
  <2>2. MemoSpoiled' => MemoSpoiled
    BY <1>1 DEF MemoSpoiled, Spoiled, Port
  <2>3. CostInv' /\ call' \in [Calls -> CallRec]
          /\ \A d \in Calls : Posting(d)' => call'[d] = call[d]
    BY <1>1, <1>2, <1>5, <2>1, <2>2, <2>5, AttemptFailsKeeps
  <2>4. ClientTypes' /\ StartInv'
    BY <1>1, <2>3 DEF ClientInv, ClientTypes, StartInv, Posting
  <2> QED BY <1>3, <2>3, <2>4 DEF ClientInv
<1> QED BY <1>4, <1>5 DEF ClientAnswered

\* An answer: the call is over or posts again; or it is refused, which leaves a memo
\* whose spoiling, if it is spoiled, has cost a fault since the attempt began.
LEMMA PostAnsweredKeeps ==
  ASSUME ClientInv, NEW c \in Calls, PostAnswered(c)
  PROVE  ClientInv'
<1>1. /\ UNCHANGED <<proc, slot, guard, caller, faults, clientPromise, start>>
      /\ call \in [Calls -> CallRec] /\ Posting(c)
  BY DEF PostAnswered, sidecarVars, ClientInv, ClientTypes
<1>2. Costs
  BY <1>1 DEF Costs, Spoiled, Port
<1>3. SidecarInv'
  BY <1>1, SidecarStutters DEF ClientInv
<1>4. /\ call[c].attempt \in Nat /\ call[c].refused \in Nat /\ faults \in Nat
      /\ call[c].on \in Starts
  <2>1. call[c] \in CallRec /\ faults \in Nat
    BY DEF ClientInv, ClientTypes
  <2> QED BY <1>1, <2>1 DEF ClientInv, CostInv, During, Posting, CallRec
<1>5. MemoSpoiled' => MemoSpoiled
  BY <1>1 DEF MemoSpoiled, Spoiled, Port
<1>6. ASSUME NEW at \in {"done", "plot"}, call' = [call EXCEPT ![c].at = at]
      PROVE  ClientInv'
  <2> DEFINE r == [call[c] EXCEPT !.at = at]
  <2>1. /\ r \in CallRec /\ r.at = at /\ r.on = call[c].on /\ r.attempt = call[c].attempt
        /\ r.refused = call[c].refused
    BY <1>1, <1>6 DEF CallRec
  <2>2. call' = [call EXCEPT ![c] = r]
    BY <1>6
  <2> HIDE DEF r
  <2>3. call'[c] = r /\ \A d \in Calls \ {c} : call'[d] = call[d]
    BY <1>1, <2>2
  <2>4. Between(c)'
    BY <1>6, <2>1, <2>3 DEF Between
  <2>5. During(c)'
    <3>1. /\ call[c].attempt >= 1 /\ Paid(c) >= call[c].attempt - 1
          /\ Spoiled(call[c].on) \/ MemoSpoiled => Paid(c) >= call[c].attempt
      BY <1>1 DEF ClientInv, CostInv, During, Posting
    <3>2. Spoiled(call[c].on)' => Spoiled(call[c].on)
      BY <1>1, <2>1, <2>3 DEF Spoiled, Port
    <3>3. Paid(c)' = Paid(c)
      BY <1>1, <2>1, <2>3 DEF Paid
    <3> QED BY <1>4, <1>5, <1>6, <2>1, <2>3, <3>1, <3>2, <3>3 DEF During
  <2>6. CostInv'
    BY <1>1, <1>2, <1>6, <2>1, <2>2, <2>4, <2>5, OneCallMoves
  <2>7. ClientTypes' /\ StartInv'
    BY <1>1, <1>6, <2>1, <2>2, <2>3 DEF ClientInv, ClientTypes, StartInv, Posting
  <2> QED BY <1>3, <2>6, <2>7 DEF ClientInv
<1>7. CASE AttemptFails(c, 1)
  <2>1. Paid(c) >= call[c].attempt - 1 /\ (MemoSpoiled => Paid(c) >= call[c].attempt)
    BY <1>1 DEF ClientInv, CostInv, During, Posting
  <2>2. /\ faults' + call[c].refused + 1 >= call[c].attempt
        /\ MemoSpoiled' => faults' + call[c].refused + 1 >= call[c].attempt + 1
    BY <1>1, <1>4, <1>5, <2>1 DEF Paid
  <2>3. /\ CostInv' /\ call' \in [Calls -> CallRec]
        /\ \A d \in Calls : Posting(d)' => call'[d] = call[d]
    BY <1>1, <1>2, <1>7, <2>2, AttemptFailsKeeps DEF Posting
  <2>4. ClientTypes' /\ StartInv'
    BY <1>1, <2>3 DEF ClientInv, ClientTypes, StartInv, Posting
  <2> QED BY <1>3, <2>3, <2>4 DEF ClientInv
<1> QED BY <1>6, <1>7 DEF PostAnswered

\* A fetch that throws costs a fault or finds its process dead, and empties the memo.
LEMMA PostThrowsKeeps ==
  ASSUME ClientInv, NEW c \in Calls, PostThrows(c)
  PROVE  ClientInv'
<1>1. /\ UNCHANGED <<proc, slot, guard, caller, start>> /\ clientPromise' = NoStart
      /\ Posting(c) /\ AttemptFails(c, 0) /\ call[c].on \in Starts
      /\ faults \in Nat /\ call[c].attempt \in Nat /\ call[c].refused \in Nat
  <2>1. call[c] \in CallRec /\ faults \in Nat
    BY DEF ClientInv, ClientTypes
  <2> QED BY <2>1 DEF PostThrows, ClientInv, CostInv, During, Posting, CallRec
<1>2. caller[call[c].on].at = "done"
  BY <1>1 DEF ClientInv, StartInv
<1>3. Port(call[c].on) # NoPort /\ proc[Port(call[c].on)] \in {"listening", "dead"}
  BY <1>1, <1>2, StartFacts DEF ClientInv, SidecarInv, PortInv, Port
<1>4. faults' = faults + 1 \/ (faults' = faults /\ Spoiled(call[c].on))
  BY <1>3 DEF PostThrows, Fault, Spoiled
<1>5. Costs
  BY <1>1, <1>4 DEF Costs, Spoiled, Port
<1>6. faults' + call[c].refused + 0 >= call[c].attempt
  BY <1>1, <1>4 DEF ClientInv, CostInv, During, Posting, Paid
<1>7. ~MemoSpoiled'
  BY <1>1 DEF MemoSpoiled
<1>8. CostInv' /\ call' \in [Calls -> CallRec]
        /\ \A d \in Calls : Posting(d)' => call'[d] = call[d]
  BY <1>1, <1>5, <1>6, <1>7, AttemptFailsKeeps DEF Posting
<1>9. SidecarInv'
  BY <1>1, SidecarStutters DEF ClientInv
<1>10. ClientTypes' /\ StartInv'
  BY <1>1, <1>5, <1>8, FaultsAreCounted DEF ClientInv, ClientTypes, StartInv, Posting
<1> QED BY <1>8, <1>9, <1>10 DEF ClientInv

LEMMA BeginsKeeps ==
  ASSUME ClientInv, NEW c \in Calls, CallApi(c) \/ Retry(c)
  PROVE  ClientInv'
<1>1. Between(c) /\ call[c].attempt \in Nat /\ call[c].refused \in Nat /\ faults \in Nat
  <2>1. call[c] \in CallRec /\ faults \in Nat
    BY DEF ClientInv, ClientTypes
  <2> QED BY <2>1 DEF ClientInv, CostInv, CallRec
<1>2. CASE CallApi(c)
  BY <1>1, <1>2, StartFacts, GetApiClientKeeps DEF CallApi, Between, Paid
<1>3. CASE Retry(c)
  <2>1. call[c].attempt + 1 \in 1..MaxAttempts
    BY <1>1, <1>3, StartFacts DEF Retry, Between
  <2> QED BY <1>1, <1>3, <2>1, GetApiClientKeeps DEF Retry, Between, Paid
<1> QED BY <1>2, <1>3

LEMMA WarmUpKeeps == ClientInv /\ WarmUp => ClientInv'
<1> SUFFICES ASSUME ClientInv, WarmUp PROVE ClientInv'
  OBVIOUS
<1>1. /\ AskUrl(Warm) /\ UNCHANGED <<proc, slot, guard, faults, clientPromise, start, call>>
      /\ At(Warm, "called", NoPort) /\ SidecarTypes
  BY DEF WarmUp, AskUrl, ClientInv, SidecarInv
<1>2. \A s \in Starts : caller'[s] = caller[s]
  BY <1>1, AtMeans, StartFacts
<1>3. SidecarInv'
  BY <1>1, AskUrlKeeps, StartFacts DEF ClientInv
<1>4. Costs
  BY <1>1, <1>2 DEF Costs, Spoiled, Port
<1>5. ClientTypes' /\ StartInv'
  BY <1>1, <1>2 DEF ClientInv, ClientTypes, StartInv, Posting
<1>6. CostInv'
  BY <1>1, <1>4, CallsStay
<1> QED BY <1>3, <1>5, <1>6 DEF ClientInv

LEMMA ClientStutters == ClientInv /\ UNCHANGED clientVars => ClientInv'
<1> SUFFICES ASSUME ClientInv, UNCHANGED clientVars PROVE ClientInv'
  OBVIOUS
<1>1. Costs
  BY DEF clientVars, sidecarVars, Costs, Spoiled, Port
<1>2. SidecarInv'
  BY SidecarStutters DEF ClientInv, clientVars, sidecarVars
<1>3. ClientTypes' /\ StartInv'
  BY DEF ClientInv, ClientTypes, StartInv, Posting, clientVars, sidecarVars
<1>4. CostInv'
  BY <1>1, CallsStay DEF clientVars
<1> QED BY <1>2, <1>3, <1>4 DEF ClientInv

LEMMA ClientInvKept == ClientInv /\ [ClientNext]_clientVars => ClientInv'
BY WarmUpKeeps, DieIsAFault, ShellStepKeeps, StartStepKeeps, BeginsKeeps,
   ClientAnsweredKeeps, PostAnsweredKeeps, PostThrowsKeeps, ClientStutters
   DEF ClientNext, CallStep

LEMMA ClientInvHolds == ClientSpec => []ClientInv
BY ClientInvKept, ClientInitInv, PTL DEF ClientSpec

\* A call of the API fails only when the faults of the shell, the sidecar and the
\* requests, with the API's refusals of this call, are as many as its attempts,
\* through whichever clients, shared with other calls or dropped by them, it goes
\* (apiClient.ts:33-52, commands.ts:54-137, retry.ts): no dead port costs a call two
\* attempts, and no other call's refusal costs it one.
THEOREM CallsFailForACause == ClientSpec => []FailuresAccounted
<1>1. ClientInv => FailuresAccounted
  BY DEF ClientInv, CostInv, FailuresAccounted, Paid
<1> QED BY <1>1, ClientInvHolds, PTL

-----------------------------------------------------------------------------
(* OpenedFile *)

\* The inductive invariant: one channel at a time holds a path.
ChannelInv ==
  /\ fate \in [Opens -> Fates]
  /\ opened \in [Opens -> {0, 1}]
  /\ \A f \in Opens : opened[f] = 1 <=> fate[f] = "handled"
  /\ pending # NoOpen => pending \in Opens /\ fate[pending] = "stashed"
  /\ reply # NoOpen => reply \in Opens /\ fate[reply] = "taken"

LEMMA ChannelInit == OpenInit => ChannelInv
<1> SUFFICES ASSUME OpenInit PROVE ChannelInv
  OBVIOUS
<1>1. fate \in [Opens -> Fates] /\ opened \in [Opens -> {0, 1}]
  BY DEF OpenInit, Fates
<1> QED BY <1>1 DEF OpenInit, ChannelInv

LEMMA DeliverKeepsChannel ==
  ASSUME ChannelInv, NEW f \in Opens, Arrive(f) \/ DeliverStep(f)
  PROVE  ChannelInv'
<1>1. CASE Arrive(f) \/ DeliverRead(f) \/ DeliverEmit(f)
  <2>1. /\ \E to \in Fates \ {"handled", "stashed", "taken"} : fate' = [fate EXCEPT ![f] = to]
        /\ fate[f] \in {"unopened", "arrived", "saw_ready"}
        /\ UNCHANGED <<pending, reply, opened>>
    BY <1>1 DEF Arrive, DeliverRead, DeliverEmit, Becomes, Fates
  <2> QED BY <2>1 DEF ChannelInv
<1>2. CASE DeliverStash(f)
  <2>1. fate' \in [Opens -> Fates]
    BY <1>2 DEF DeliverStash, ChannelInv, Fates
  <2> QED BY <1>2, <2>1, OpenedAssumption DEF DeliverStash, ChannelInv
<1> QED BY <1>1, <1>2 DEF DeliverStep

LEMMA PageKeepsChannel == ChannelInv /\ PageStep => ChannelInv'
<1> SUFFICES ASSUME ChannelInv, PageStep PROVE ChannelInv'
  OBVIOUS
<1>1. CASE Listen \/ TakeReady
  BY <1>1 DEF Listen, TakeReady, ChannelInv
<1>2. CASE TakePending
  <2>1. fate' \in [Opens -> Fates]
    BY <1>2 DEF TakePending, ChannelInv, Fates
  <2>2. \A f \in Opens : fate'[f] = "handled" <=> fate[f] = "handled"
    BY <1>2, OpenedAssumption DEF TakePending, ChannelInv
  <2>3. opened' = opened /\ pending' = NoOpen
    BY <1>2 DEF TakePending
  <2>4. reply' # NoOpen => reply' \in Opens /\ fate'[reply'] = "taken"
    BY <1>2, OpenedAssumption DEF TakePending, ChannelInv
  <2> QED BY <2>1, <2>2, <2>3, <2>4 DEF ChannelInv
<1>3. CASE OpenTaken
  <2>1. fate' \in [Opens -> Fates] /\ opened' \in [Opens -> {0, 1}]
    BY <1>3 DEF OpenTaken, ChannelInv, Becomes, Fates
  <2> QED BY <1>3, <2>1 DEF OpenTaken, Becomes, ChannelInv
<1> QED BY <1>1, <1>2, <1>3 DEF PageStep

LEMMA EventKeepsChannel ==
  ASSUME ChannelInv, NEW f \in Opens, OpenEvent(f)
  PROVE  ChannelInv'
<1>1. fate' \in [Opens -> Fates] /\ opened' \in [Opens -> {0, 1}]
  BY DEF OpenEvent, ChannelInv, Becomes, Fates
<1> QED BY <1>1 DEF OpenEvent, Becomes, ChannelInv

LEMMA ReloadKeepsChannel == ChannelInv /\ PageReload => ChannelInv'
<1> SUFFICES ASSUME ChannelInv, PageReload PROVE ChannelInv'
  OBVIOUS
<1>1. fate' \in [Opens -> Fates]
  BY DEF PageReload, ChannelInv, Fates
<1> QED BY <1>1 DEF PageReload, ChannelInv

LEMMA ChannelStep == ChannelInv /\ [OpenNext]_openVars => ChannelInv'
<1>1. ChannelInv /\ UNCHANGED openVars => ChannelInv'
  BY DEF ChannelInv, openVars
<1> QED
  BY <1>1, DeliverKeepsChannel, PageKeepsChannel, EventKeepsChannel, ReloadKeepsChannel
     DEF OpenNext

\* A file opened in the OS is opened at most once in the page, whatever the order
\* in which the shell's thread and the page read and set the flag, fill and drain
\* the slot, and however often the page is reloaded (main.rs:34).
THEOREM OpenedAtMostOnce == OpenSpec => []NeverOpenedTwice
<1>1. ChannelInv => NeverOpenedTwice
  BY DEF ChannelInv, NeverOpenedTwice
<1> QED BY <1>1, ChannelInit, ChannelStep, PTL DEF OpenSpec

-----------------------------------------------------------------------------
(* Notifications *)

Timeout == [id : Ids, left : Nat, handle : BOOLEAN]
Entry == [remaining : Nat, age : Nat, set : BOOLEAN, duration : Nat]
Pending(i) == {t \in timeouts : t.id = i}

ToastTypes ==
  /\ nextId \in 0..MaxToasts /\ toasts \subseteq Ids
  /\ \A i \in toasts : i < nextId
  /\ timers \in [Ids -> Entry]
  /\ timeouts \subseteq Timeout
  /\ holds \in [Ids -> SUBSET {"mouse", "focus"}]
  /\ seen \in [Ids -> Nat]
  /\ bothHeld \subseteq Ids

\* An id not given out yet has left no trace.
Fresh(i) ==
  /\ \A t \in timeouts : t.id # i
  /\ holds[i] = {} /\ seen[i] = 0 /\ i \notin bothHeld

\* A toast on display, and not held: one timeout, due when its time is up ...
Running(i) ==
  /\ \A t \in timeouts :
       t.id = i => t = [id |-> i, left |-> timers[i].duration - seen[i], handle |-> TRUE]
  /\ [id |-> i, left |-> timers[i].duration - seen[i], handle |-> TRUE] \in timeouts
  /\ timers[i].remaining - timers[i].age = timers[i].duration - seen[i]

\* ... and held: none, and its time kept.
Held(i) ==
  /\ \A t \in timeouts : t.id # i
  /\ timers[i].remaining = timers[i].duration - seen[i]

Timed(i) ==
  /\ timers[i].set /\ timers[i].remaining <= timers[i].duration
  /\ seen[i] <= timers[i].duration
  /\ \A a, b \in holds[i] : a = b
  /\ holds[i] = {} => Running(i)
  /\ holds[i] # {} => Held(i)

\* The inductive invariant.
ToastInv ==
  /\ ToastTypes
  /\ \A i \in Ids : i >= nextId => Fresh(i)
  /\ \A i \in toasts \ bothHeld : Timed(i)

LEMMA ToastInitInv == ToastInit => ToastInv
<1> SUFFICES ASSUME ToastInit PROVE ToastInv
  OBVIOUS
<1>1. ToastTypes
  BY ToastsAssumption DEF ToastInit, ToastTypes, NoTimer, Entry, Timeout
<1>2. \A i \in Ids : Fresh(i)
  BY DEF ToastInit, Fresh
<1> QED BY <1>1, <1>2 DEF ToastInit, ToastInv

LEMMA InvGivesProperty == ToastInv => DisplayTimeKept
<1> SUFFICES ASSUME ToastInv, NEW i \in toasts \ bothHeld
             PROVE  LET own == {t \in timeouts : t.id = i}
                    IN IF holds[i] = {}
                         THEN own = {[id |-> i, left |-> timers[i].duration - seen[i],
                                      handle |-> TRUE]}
                         ELSE own = {}
                                /\ timers[i].remaining = timers[i].duration - seen[i]
  BY DEF DisplayTimeKept
<1>1. Timed(i)
  BY DEF ToastInv
<1>2. CASE holds[i] = {}
  <2> DEFINE u == [id |-> i, left |-> timers[i].duration - seen[i], handle |-> TRUE]
  <2>1. u.id = i /\ u \in timeouts /\ \A t \in timeouts : t.id = i => t = u
    BY <1>1, <1>2 DEF Timed, Running
  <2> HIDE DEF u
  <2>2. {t \in timeouts : t.id = i} = {u}
    BY <2>1
  <2> QED BY <1>2, <2>2 DEF u
<1>3. CASE holds[i] # {}
  BY <1>1, <1>3 DEF Timed, Held
<1> QED BY <1>2, <1>3

\* What a step does to one toast leaves the others as they are.
LEMMA OthersKeep ==
  ASSUME ToastInv, NEW j \in Ids,
         timers'[j] = timers[j], holds'[j] = holds[j], seen'[j] = seen[j],
         \A t : t.id = j => (t \in timeouts' <=> t \in timeouts),
         bothHeld \subseteq bothHeld', nextId' \in Nat, nextId <= nextId'
  PROVE  /\ j \in toasts \ bothHeld' => Timed(j)'
         /\ j >= nextId' /\ j \notin bothHeld' => Fresh(j)'
<1>1. ASSUME j \in toasts \ bothHeld' PROVE Timed(j)'
  <2>1. Timed(j)
    BY <1>1 DEF ToastInv
  <2>2. CASE holds[j] = {}
    <3>1. Running(j)
      BY <2>1, <2>2 DEF Timed
    <3>2. Running(j)'
      BY <3>1 DEF Running
    <3> QED BY <2>1, <2>2, <3>2 DEF Timed
  <2>3. CASE holds[j] # {}
    <3>1. Held(j)'
      BY <2>1, <2>3 DEF Timed, Held
    <3> QED BY <2>1, <2>3, <3>1 DEF Timed
  <2> QED BY <2>2, <2>3
<1>2. ASSUME j >= nextId', j \notin bothHeld' PROVE Fresh(j)'
  <2>1. j >= nextId
    BY <1>2 DEF ToastInv, ToastTypes, Ids
  <2>2. Fresh(j)
    BY <2>1 DEF ToastInv
  <2> QED BY <1>2, <2>2 DEF Fresh
<1> QED BY <1>1, <1>2

-----------------------------------------------------------------------------
(* What happens to a toast *)

\* The types alone: every step that arms, clears or ages timeouts.
LEMMA HandlesAreTimeouts ==
  ASSUME ToastTypes, NEW i \in Ids
  PROVE  /\ Handle(i) \subseteq timeouts /\ Unhandled(Handle(i)) \subseteq Timeout
         /\ \A t \in Handle(i) \cup Unhandled(Handle(i)) : t.id = i
<1>1. Handle(i) \subseteq timeouts /\ \A t \in Handle(i) : t.id = i /\ t \in Timeout
  BY DEF Handle, ToastTypes
<1>2. \A t \in Handle(i) : [t EXCEPT !.handle = FALSE] \in Timeout
                             /\ [t EXCEPT !.handle = FALSE].id = i
  BY <1>1 DEF Timeout
<1> QED BY <1>1, <1>2 DEF Unhandled

\* Arming a toast that has no timeout gives it one, and no other toast anything.
LEMMA ArmMeans ==
  ASSUME ToastTypes, NEW i \in Ids, NEW left \in Nat, NEW d \in Nat, Arm(i, left, d)
  PROVE  /\ timers' \in [Ids -> Entry] /\ timeouts' \subseteq Timeout
         /\ timers'[i] = [remaining |-> left, age |-> 0, set |-> TRUE, duration |-> d]
         /\ \A j \in Ids \ {i} : timers'[j] = timers[j]
         /\ \A t : t.id # i => (t \in timeouts' <=> t \in timeouts)
         /\ (\A t \in timeouts : t.id # i)
              => timeouts' = timeouts \cup {[id |-> i, left |-> left, handle |-> TRUE]}
<1> DEFINE e == [remaining |-> left, age |-> 0, set |-> TRUE, duration |-> d]
           u == [id |-> i, left |-> left, handle |-> TRUE]
<1>1. e \in Entry /\ u \in Timeout /\ u.id = i
  BY DEF Entry, Timeout
<1>2. /\ timers' = [timers EXCEPT ![i] = e]
      /\ timeouts' = (timeouts \ Handle(i)) \cup Unhandled(Handle(i)) \cup {u}
  BY DEF Arm
<1> HIDE DEF e, u
<1>3. timers' \in [Ids -> Entry] /\ timers'[i] = e
      /\ \A j \in Ids \ {i} : timers'[j] = timers[j]
  BY <1>1, <1>2 DEF ToastTypes
<1>4. timeouts' \subseteq Timeout
  BY <1>1, <1>2, HandlesAreTimeouts DEF ToastTypes
<1>5. \A t : t.id # i => (t \in timeouts' <=> t \in timeouts)
  BY <1>1, <1>2, HandlesAreTimeouts
<1>6. ASSUME \A t \in timeouts : t.id # i PROVE timeouts' = timeouts \cup {u}
  <2>1. Handle(i) = {} /\ Unhandled(Handle(i)) = {}
    BY <1>6 DEF Handle, Unhandled
  <2> QED BY <1>2, <2>1
<1> QED BY <1>3, <1>4, <1>5, <1>6 DEF e, u

\* A toast that is armed for the time it has left, and held by nothing, runs.
LEMMA ArmedRuns ==
  ASSUME ToastTypes, NEW i \in Ids, NEW left \in Nat, NEW d \in Nat, Arm(i, left, d),
         \A t \in timeouts : t.id # i, holds'[i] = {}, seen'[i] \in Nat,
         left = d - seen'[i]
  PROVE  Timed(i)'
<1> DEFINE u == [id |-> i, left |-> left, handle |-> TRUE]
<1>1. /\ timers'[i] = [remaining |-> left, age |-> 0, set |-> TRUE, duration |-> d]
      /\ timeouts' = timeouts \cup {u}
  BY ArmMeans
<1>2. timers'[i].set
  BY <1>1
<1>3. timers'[i].remaining = left /\ timers'[i].duration = d /\ timers'[i].age = 0
  BY <1>1
<1>4. /\ \A t \in timeouts' : t.id = i => t = u
      /\ u \in timeouts'
  BY <1>1
<1>5. u = [id |-> i, left |-> timers'[i].duration - seen'[i], handle |-> TRUE]
  BY <1>3
<1>6. Running(i)'
  <2>1. timers'[i].remaining - timers'[i].age = timers'[i].duration - seen'[i]
    BY <1>3
  <2> HIDE DEF u
  <2> QED BY <1>4, <1>5, <2>1 DEF Running
<1>7. timers'[i].remaining <= timers'[i].duration /\ seen'[i] <= timers'[i].duration
  BY <1>3
<1> QED BY <1>2, <1>6, <1>7 DEF Timed

LEMMA PushKeeps == ToastInv /\ Push => ToastInv'
<1> SUFFICES ASSUME ToastInv, Push, NEW i \in Ids, i = nextId PROVE ToastInv'
  BY DEF Push
<1>1. PICK d \in Durations : Arm(i, d, d)
  BY DEF Push
<1>2. ToastTypes /\ i \in Ids /\ i \in 0..(MaxToasts - 1) /\ d \in Nat /\ Fresh(i)
  BY ToastsAssumption DEF ToastInv, Ids
<1>3. /\ nextId' = nextId + 1 /\ toasts' = toasts \cup {i}
      /\ UNCHANGED <<holds, seen, bothHeld>>
  BY DEF Push
<1>4. ToastTypes'
  <2>1. nextId' \in 0..MaxToasts /\ \A j \in toasts' : j < nextId'
    BY <1>2, <1>3, ToastsAssumption DEF ToastTypes, Ids
  <2> QED BY <1>1, <1>2, <1>3, <2>1, ArmMeans DEF ToastTypes
<1>5. Timed(i)'
  <2>1. holds'[i] = {} /\ seen'[i] = 0 /\ \A t \in timeouts : t.id # i
    BY <1>2, <1>3 DEF Fresh
  <2> QED BY <1>1, <1>2, <2>1, ArmedRuns
<1>6. ASSUME NEW j \in Ids \ {i}
      PROVE  /\ j \in toasts \ bothHeld => Timed(j)'
             /\ j >= nextId' => Fresh(j)'
  <2>1. nextId' \in Nat /\ nextId <= nextId' /\ (j >= nextId' => j >= nextId)
    BY <1>2, <1>3, <1>6 DEF Ids
  <2>2. j >= nextId' => j \notin bothHeld
    BY <2>1, <1>6 DEF ToastInv, Fresh
  <2>3. /\ timers'[j] = timers[j] /\ \A t : t.id = j => (t \in timeouts' <=> t \in timeouts)
    BY <1>1, <1>2, <1>6, ArmMeans
  <2> QED BY <1>3, <1>6, <2>1, <2>2, <2>3, OthersKeep
<1>7. ~(i >= nextId')
  BY <1>2, <1>3 DEF Ids
<1> QED BY <1>2, <1>3, <1>4, <1>5, <1>6, <1>7 DEF ToastInv, ToastTypes

\* A step of one toast that is on display, or was: a timeout may outlive it.
LEMMA OneToast ==
  ASSUME ToastInv, ToastTypes', NEW i \in Ids, i < nextId,
         i \in toasts' \ bothHeld' => Timed(i)',
         toasts' \subseteq toasts, nextId' = nextId,
         bothHeld \subseteq bothHeld', bothHeld' \subseteq bothHeld \cup {i},
         \A j \in Ids \ {i} : /\ timers'[j] = timers[j] /\ holds'[j] = holds[j]
                             /\ seen'[j] = seen[j],
         \A t : t.id # i => (t \in timeouts' <=> t \in timeouts)
  PROVE  ToastInv'
<1>1. i < nextId /\ nextId \in Nat
  BY DEF ToastInv, ToastTypes
<1>2. ASSUME NEW j \in Ids, j >= nextId' PROVE Fresh(j)'
  <2>1. j # i /\ j \in Nat /\ j >= nextId
    BY <1>1, <1>2 DEF Ids
  <2>2. j \notin bothHeld'
    BY <2>1 DEF ToastInv, Fresh
  <2>3. \A t : t.id = j => (t \in timeouts' <=> t \in timeouts)
    BY <2>1
  <2> QED BY <1>1, <1>2, <2>1, <2>2, <2>3, OthersKeep
<1>3. ASSUME NEW j \in toasts' \ bothHeld' PROVE Timed(j)'
  <2>1. CASE j = i
    BY <1>3, <2>1
  <2>2. CASE j # i
    <3>1. j \in Ids /\ j \in toasts \ bothHeld'
      BY <1>3 DEF ToastInv, ToastTypes
    <3>2. \A t : t.id = j => (t \in timeouts' <=> t \in timeouts)
      BY <2>2
    <3> QED BY <1>1, <2>2, <3>1, <3>2, OthersKeep
  <2> QED BY <2>1, <2>2
<1> QED BY <1>2, <1>3 DEF ToastInv

LEMMA HoldKeeps ==
  ASSUME ToastInv, NEW i \in Ids, NEW by \in {"mouse", "focus"}, Hold(i, by)
  PROVE  ToastInv'
<1> DEFINE n == Minus(timers[i].remaining, timers[i].age)
           e == [timers[i] EXCEPT !.remaining = n]
<1>1. ToastTypes /\ i \in toasts /\ i < nextId /\ timers[i] \in Entry
  BY DEF ToastInv, ToastTypes, Hold
<1>2. n \in Nat
  BY <1>1 DEF Minus, Entry
<1>3. /\ timers' = [timers EXCEPT ![i] = e] /\ timeouts' = timeouts \ Handle(i)
      /\ holds' = [holds EXCEPT ![i] = @ \cup {by}]
      /\ bothHeld' = IF holds[i] = {} THEN bothHeld ELSE bothHeld \cup {i}
      /\ UNCHANGED <<nextId, toasts, seen>>
  BY DEF Hold, Pause
<1> HIDE DEF n
<1>4. e \in Entry /\ e.remaining = n /\ e.duration = timers[i].duration /\ e.set = timers[i].set
  BY <1>1, <1>2 DEF Entry
<1> HIDE DEF e
<1>5. /\ timers'[i] = e /\ holds'[i] = holds[i] \cup {by}
      /\ \A j \in Ids \ {i} : timers'[j] = timers[j] /\ holds'[j] = holds[j]
  BY <1>1, <1>3 DEF ToastTypes
<1>6. ToastTypes'
  BY <1>1, <1>3, <1>4 DEF ToastTypes
<1>7. ASSUME i \notin bothHeld' PROVE Timed(i)'
  <2>1. holds[i] = {} /\ Timed(i) /\ Running(i)
    BY <1>1, <1>3, <1>7 DEF ToastInv, Timed
  <2>2. /\ timers[i].duration \in Nat /\ timers[i].remaining \in Nat
        /\ timers[i].age \in Nat /\ seen[i] \in Nat
    BY <1>1 DEF Entry, ToastTypes
  <2>3. n = timers[i].duration - seen[i]
    BY <2>1, <2>2 DEF Minus, Timed, Running, n
  <2>4. \A t \in timeouts' : t.id # i
    BY <1>3, <2>1 DEF Running, Handle
  <2>5. Held(i)'
    BY <1>3, <1>4, <1>5, <2>3, <2>4 DEF Held
  <2>6. /\ timers'[i].remaining <= timers'[i].duration /\ seen'[i] <= timers'[i].duration
    BY <1>3, <1>4, <1>5, <2>1, <2>2, <2>3 DEF Timed
  <2>7. timers'[i].set /\ holds'[i] = {by}
    BY <1>4, <1>5, <2>1 DEF Timed
  <2> QED BY <2>5, <2>6, <2>7 DEF Timed
<1>8. \A t : t.id # i => (t \in timeouts' <=> t \in timeouts)
  BY <1>3 DEF Handle
<1> QED BY <1>1, <1>3, <1>5, <1>6, <1>7, <1>8, OneToast

LEMMA ReleaseKeeps ==
  ASSUME ToastInv, NEW i \in Ids, NEW by \in {"mouse", "focus"}, Release(i, by)
  PROVE  ToastInv'
<1> DEFINE e == timers[i]
<1>1. ToastTypes /\ i \in toasts /\ i < nextId /\ e \in Entry
  BY DEF ToastInv, ToastTypes, Release
<1>2. /\ by \in holds[i] /\ holds' = [holds EXCEPT ![i] = @ \ {by}]
      /\ UNCHANGED <<nextId, toasts, seen, bothHeld>>
  BY DEF Release
<1>3. /\ holds'[i] = holds[i] \ {by} /\ holds' \in [Ids -> SUBSET {"mouse", "focus"}]
      /\ \A j \in Ids \ {i} : holds'[j] = holds[j]
  BY <1>1, <1>2 DEF ToastTypes
<1>4. CASE e.set /\ Arm(i, e.remaining, e.duration)
  <2>1. e.remaining \in Nat /\ e.duration \in Nat /\ seen[i] \in Nat
    BY <1>1 DEF Entry, ToastTypes
  <2>2. ToastTypes'
    BY <1>1, <1>2, <1>3, <1>4, <2>1, ArmMeans DEF ToastTypes
  <2>3. ASSUME i \notin bothHeld' PROVE Timed(i)'
    <3>1. Timed(i) /\ holds[i] # {} /\ Held(i)
      BY <1>1, <1>2, <2>3 DEF ToastInv, Timed
    <3>2. holds'[i] = {}
      BY <1>2, <1>3, <3>1 DEF Timed
    <3>3. e.remaining = e.duration - seen'[i] /\ \A t \in timeouts : t.id # i
      BY <1>2, <3>1 DEF Held
    <3> QED BY <1>1, <1>2, <1>4, <2>1, <3>2, <3>3, ArmedRuns
  <2>4. /\ \A j \in Ids \ {i} : timers'[j] = timers[j]
        /\ \A t : t.id # i => (t \in timeouts' <=> t \in timeouts)
    BY <1>1, <1>4, <2>1, ArmMeans
  <2> QED BY <1>1, <1>2, <1>3, <2>2, <2>3, <2>4, OneToast
<1>5. CASE ~e.set /\ UNCHANGED <<timers, timeouts>>
  <2>1. i \in bothHeld'
    BY <1>1, <1>2, <1>5 DEF ToastInv, Timed
  <2>2. ToastTypes'
    BY <1>1, <1>2, <1>3, <1>5 DEF ToastTypes
  <2> QED BY <1>1, <1>2, <1>3, <1>5, <2>1, <2>2, OneToast
<1> QED BY <1>4, <1>5 DEF Release, Resume

LEMMA DismissKeeps ==
  ASSUME ToastInv, NEW i \in Ids, i < nextId, NEW ts \in SUBSET timeouts, Dismiss(i, ts),
         \A t \in timeouts : t.id # i => t \in ts
  PROVE  ToastInv'
<1>1. ToastTypes /\ NoTimer \in Entry
  BY DEF ToastInv, ToastTypes, NoTimer, Entry
<1>2. /\ timeouts' = ts \ Handle(i) /\ timers' = [timers EXCEPT ![i] = NoTimer]
      /\ toasts' = toasts \ {i} /\ holds' = [holds EXCEPT ![i] = {}]
      /\ UNCHANGED <<nextId, seen, bothHeld>>
  BY DEF Dismiss
<1>3. ToastTypes'
  BY <1>1, <1>2 DEF ToastTypes
<1>4. \A j \in Ids \ {i} : timers'[j] = timers[j] /\ holds'[j] = holds[j]
  BY <1>1, <1>2 DEF ToastTypes
<1>5. \A t : t.id # i => (t \in timeouts' <=> t \in timeouts)
  BY <1>2 DEF Handle
<1> QED BY <1>2, <1>3, <1>4, <1>5, OneToast

\* No timeout waits past its time, so what is left of each falls with a tick by as
\* much as what was seen of its toast grows.
LEMMA TickKeeps == ToastInv /\ Tick => ToastInv'
<1> SUFFICES ASSUME ToastInv, Tick PROVE ToastInv'
  OBVIOUS
<1> DEFINE older(j) == IF timers[j].set /\ timers[j].age < timers[j].duration
                         THEN [timers[j] EXCEPT !.age = @ + 1] ELSE timers[j]
           shorter(t) == [t EXCEPT !.left = @ - 1]
<1>1. /\ ToastTypes
      /\ \A t \in timeouts : t.left > 0
      /\ timeouts' = {shorter(t) : t \in timeouts}
      /\ timers' = [j \in Ids |-> older(j)]
      /\ seen' = [j \in Ids |-> IF j \in toasts /\ holds[j] = {} /\ j \notin bothHeld
                                THEN seen[j] + 1 ELSE seen[j]]
      /\ UNCHANGED <<nextId, toasts, holds, bothHeld>>
  BY DEF Tick, ToastInv
<1>2. \A j \in Ids : timers[j] \in Entry /\ seen[j] \in Nat
  BY <1>1 DEF ToastTypes
<1>3. \A j \in Ids : /\ older(j) \in Entry /\ older(j).set = timers[j].set
                     /\ older(j).remaining = timers[j].remaining
                     /\ older(j).duration = timers[j].duration
                     /\ older(j).age = IF timers[j].set /\ timers[j].age < timers[j].duration
                                         THEN timers[j].age + 1 ELSE timers[j].age
  BY <1>2 DEF Entry
<1>4. \A t \in timeouts : /\ shorter(t) \in Timeout /\ shorter(t).id = t.id
                          /\ shorter(t) = [id |-> t.id, left |-> t.left - 1, handle |-> t.handle]
  <2> SUFFICES ASSUME NEW t \in timeouts
               PROVE  /\ shorter(t) \in Timeout /\ shorter(t).id = t.id
                      /\ shorter(t) = [id |-> t.id, left |-> t.left - 1, handle |-> t.handle]
    OBVIOUS
  <2>1. t \in Timeout /\ t.left > 0
    BY <1>1 DEF ToastTypes
  <2>2. t.left - 1 \in Nat
    BY <2>1 DEF Timeout
  <2> QED BY <2>1, <2>2 DEF Timeout
<1> HIDE DEF older, shorter
<1>5. ToastTypes'
  <2>1. timers' \in [Ids -> Entry] /\ timeouts' \subseteq Timeout
    BY <1>1, <1>3, <1>4
  <2>2. seen' \in [Ids -> Nat]
    BY <1>1, <1>2
  <2> QED BY <1>1, <2>1, <2>2 DEF ToastTypes
<1>6. ASSUME NEW j \in Ids, j >= nextId' PROVE Fresh(j)'
  <2>1. Fresh(j) /\ j \notin toasts
    BY <1>1, <1>6 DEF ToastInv, ToastTypes, Ids
  <2>2. \A t \in timeouts' : t.id # j
    BY <1>1, <1>4, <2>1 DEF Fresh
  <2> QED BY <1>1, <2>1, <2>2 DEF Fresh
<1>7. ASSUME NEW j \in toasts' \ bothHeld' PROVE Timed(j)'
  <2>1. /\ j \in Ids /\ j \in toasts /\ j \notin bothHeld /\ Timed(j)
        /\ timers'[j] = older(j) /\ holds'[j] = holds[j]
    BY <1>1, <1>7 DEF ToastInv, ToastTypes
  <2>2. timers'[j].set
    BY <1>3, <2>1 DEF Timed
  <2>3. /\ timers[j].duration \in Nat /\ timers[j].remaining \in Nat
        /\ timers[j].age \in Nat /\ seen[j] \in Nat
    BY <1>2, <2>1 DEF Entry
  <2>4. /\ timers'[j].remaining = timers[j].remaining
        /\ timers'[j].duration = timers[j].duration
    BY <1>3, <2>1
  <2>5. CASE holds[j] = {}
    <3> DEFINE left == timers[j].duration - seen[j]
               u == [id |-> j, left |-> left, handle |-> TRUE]
    <3>1. u \in timeouts /\ (\A t \in timeouts : t.id = j => t = u) /\ u.id = j
      BY <2>1, <2>5 DEF Timed, Running
    <3>2. left > 0 /\ timers[j].remaining - timers[j].age = left
      BY <1>1, <2>1, <2>5, <3>1 DEF Timed, Running
    <3>3. seen'[j] = seen[j] + 1
      BY <1>1, <2>1, <2>5
    <3>4. timers'[j].age = timers[j].age + 1
      BY <1>3, <2>1, <2>3, <3>2 DEF Timed
    <3>5. timers'[j].remaining - timers'[j].age = timers'[j].duration - seen'[j]
      BY <2>3, <2>4, <3>2, <3>3, <3>4
    <3>6. shorter(u) = [id |-> j, left |-> timers'[j].duration - seen'[j], handle |-> TRUE]
      <4>1. u.left - 1 = timers'[j].duration - seen'[j]
        BY <2>3, <2>4, <3>3
      <4> QED BY <1>4, <3>1, <4>1
    <3> HIDE DEF u
    <3>7. shorter(u) \in timeouts' /\ \A t \in timeouts' : t.id = j => t = shorter(u)
      BY <1>1, <1>4, <3>1
    <3>8. Running(j)'
      BY <3>5, <3>6, <3>7 DEF Running
    <3>9. seen'[j] <= timers'[j].duration
      BY <2>3, <2>4, <3>2, <3>3
    <3> QED BY <2>1, <2>2, <2>4, <2>5, <3>8, <3>9 DEF Timed
  <2>6. CASE holds[j] # {}
    <3>1. seen'[j] = seen[j] /\ Held(j)
      BY <1>1, <2>1, <2>6 DEF Timed
    <3>2. Held(j)'
      BY <1>1, <1>4, <2>4, <3>1 DEF Held
    <3> QED BY <2>1, <2>2, <2>4, <2>6, <3>1, <3>2 DEF Timed
  <2> QED BY <2>5, <2>6
<1> QED BY <1>5, <1>6, <1>7 DEF ToastInv

LEMMA ToastStep == ToastInv /\ [ToastNext]_toastVars => ToastInv'
<1> SUFFICES ASSUME ToastInv, [ToastNext]_toastVars PROVE ToastInv'
  OBVIOUS
<1>1. ASSUME NEW t \in timeouts, Fire(t) PROVE ToastInv'
  <2>1. t.id \in Ids /\ nextId \in Nat
    BY DEF ToastInv, ToastTypes, Timeout
  <2>2. t.id < nextId
    BY <2>1 DEF ToastInv, Fresh, Ids
  <2> QED BY <1>1, <2>1, <2>2, DismissKeeps DEF Fire
<1>2. ASSUME NEW i \in Ids, Close(i) PROVE ToastInv'
  BY <1>2, DismissKeeps DEF Close, ToastInv, ToastTypes
<1>3. CASE UNCHANGED toastVars
  <2>1. ToastTypes'
    BY <1>3 DEF toastVars, ToastInv, ToastTypes
  <2>2. \A i \in Ids : i >= nextId' => Fresh(i)'
    BY <1>3 DEF toastVars, ToastInv, Fresh
  <2>3. \A i \in toasts' \ bothHeld' : Timed(i)'
    BY <1>3 DEF toastVars, ToastInv, Timed, Running, Held
  <2> QED BY <2>1, <2>2, <2>3 DEF ToastInv
<1> QED BY <1>1, <1>2, <1>3, PushKeeps, TickKeeps, HoldKeeps, ReleaseKeeps DEF ToastNext

\* A toast is on display for its duration, the time it was held not counted, and a
\* held one stays, for any toasts, durations and moments at which mouse or focus come
\* and go - one of them at a time (notifications.svelte.ts:42-58).
THEOREM ToastsKeepTheirTime == ToastSpec => []DisplayTimeKept
BY ToastInitInv, ToastStep, InvGivesProperty, PTL DEF ToastSpec

-----------------------------------------------------------------------------
(* Types *)

LEMMA OpenTypes == OpenTypeOK /\ [OpenNext]_openVars => OpenTypeOK'
<1> SUFFICES ASSUME OpenTypeOK, [OpenNext]_openVars PROVE OpenTypeOK'
  OBVIOUS
<1> USE DEF OpenTypeOK, Fates, Becomes
<1>1. ASSUME NEW f \in Opens, Arrive(f) \/ DeliverRead(f) \/ DeliverEmit(f) PROVE OpenTypeOK'
  <2>1. \E to \in Fates : fate' = [fate EXCEPT ![f] = to]
    BY <1>1 DEF Arrive, DeliverRead, DeliverEmit
  <2>2. fate' \in [Opens -> Fates]
    BY <2>1
  <2> QED BY <1>1, <2>2 DEF Arrive, DeliverRead, DeliverEmit
<1>2. ASSUME NEW f \in Opens, DeliverStash(f) PROVE OpenTypeOK'
  BY <1>2 DEF DeliverStash
<1>3. ASSUME NEW f \in Opens, OpenEvent(f) PROVE OpenTypeOK'
  BY <1>3 DEF OpenEvent
<1>4. CASE Listen \/ TakeReady
  BY <1>4 DEF Listen, TakeReady
<1>5. CASE TakePending
  BY <1>5 DEF TakePending
<1>6. CASE OpenTaken
  BY <1>6 DEF OpenTaken
<1>7. CASE PageReload
  BY <1>7, OpenedAssumption DEF PageReload
<1>8. CASE UNCHANGED openVars
  BY <1>8 DEF openVars
<1> QED BY <1>1, <1>2, <1>3, <1>4, <1>5, <1>6, <1>7, <1>8 DEF OpenNext, PageStep, DeliverStep

LEMMA HealthTypes == HealthTypeOK /\ [HealthNext]_healthVars => HealthTypeOK'
<1> SUFFICES ASSUME HealthTypeOK, [HealthNext]_healthVars PROVE HealthTypeOK'
  OBVIOUS
<1>1. ASSUME NEW p \in Probes, Refresh(p), UNCHANGED <<healthy, changes>>, polling' \in BOOLEAN
      PROVE  HealthTypeOK'
  BY <1>1 DEF Refresh, HealthTypeOK
<1>2. CASE StartPolling \/ PollTick \/ RefreshClicked
  BY <1>1, <1>2 DEF StartPolling, PollTick, RefreshClicked, HealthTypeOK
<1>3. CASE StopPolling
  BY <1>3 DEF StopPolling, HealthTypeOK
<1>4. CASE Change
  BY <1>4, HealthAssumption DEF Change, HealthTypeOK
<1>5. ASSUME NEW p \in Probes, Probed(p) PROVE HealthTypeOK'
  BY <1>5 DEF Probed, HealthTypeOK
<1>6. ASSUME NEW p \in Probes, ProbeAnswered(p) PROVE HealthTypeOK'
  BY <1>6 DEF ProbeAnswered, HealthTypeOK
<1>7. CASE UNCHANGED healthVars
  BY <1>7 DEF healthVars, HealthTypeOK
<1> QED BY <1>2, <1>3, <1>4, <1>5, <1>6, <1>7 DEF HealthNext, ProbeStep

\* Only the bound of the faults is not in the client's invariant.
FaultsBounded == faults \in 0..MaxFaults

LEMMA FaultsStayBounded ==
  FaultsBounded /\ [ClientNext]_clientVars => FaultsBounded'
<1> SUFFICES ASSUME FaultsBounded, [ClientNext]_clientVars PROVE FaultsBounded'
  OBVIOUS
<1>1. Fault \/ UNCHANGED faults
  BY DEF ClientNext, clientVars, sidecarVars, WarmUp, Die, ShellStep, UrlStep, AnswerHeld,
         Spawn, SpawnOk, SpawnFails, Handshake, NoHandshake, StartStep, UrlAnswered, Healthy,
         NotHealthy, CallApi, CallStep, Retry, ClientAnswered, PostAnswered, PostThrows
<1> QED BY <1>1, SidecarAssumption DEF FaultsBounded, Fault

LEMMA ClientTypesHold == ClientInv /\ FaultsBounded => ClientTypeOK
BY DEF ClientInv, SidecarInv, SidecarTypes, CallerRec, ClientTypes, CallRec, FaultsBounded,
       ClientTypeOK, SidecarTypeOK

\* The times of one toast, and of one timeout.
Timer == [remaining : Nat, age : Nat, set : BOOLEAN, duration : Durations \cup {0}]
WithinDuration(t) ==
  t.remaining <= t.duration /\ t.age <= t.duration /\ (t.set => t.duration \in Durations)
DueInTime(t) ==
  t \in [id : Ids, left : Nat, handle : BOOLEAN] /\ \E d \in Durations : t.left <= d

TimesOK ==
  /\ timers \in [Ids -> Timer] /\ \A i \in Ids : WithinDuration(timers[i])
  /\ \A t \in timeouts : DueInTime(t)
OthersOK ==
  /\ nextId \in 0..MaxToasts /\ toasts \subseteq 0..(nextId - 1)
  /\ holds \in [Ids -> SUBSET {"mouse", "focus"}] /\ bothHeld \subseteq Ids

LEMMA ToastTypeParts == ToastTypeOK <=> TimesOK /\ OthersOK
BY DEF ToastTypeOK, TimesOK, OthersOK, Timer, WithinDuration, DueInTime

LEMMA TimerChanged ==
  ASSUME TimesOK, NEW i \in Ids, NEW r \in Timer, WithinDuration(r),
         timers' = [timers EXCEPT ![i] = r], \A t \in timeouts' : DueInTime(t)
  PROVE  TimesOK'
<1>1. timers' \in [Ids -> Timer] /\ \A j \in Ids : timers'[j] = IF j = i THEN r ELSE timers[j]
  BY DEF TimesOK
<1> QED BY <1>1 DEF TimesOK

LEMMA ArmInTime ==
  ASSUME TimesOK, NEW i \in Ids, NEW d \in Durations, NEW left \in Nat, left <= d,
         Arm(i, left, d)
  PROVE  TimesOK'
<1> DEFINE r == [remaining |-> left, age |-> 0, set |-> TRUE, duration |-> d]
<1>1. r \in Timer /\ WithinDuration(r) /\ timers' = [timers EXCEPT ![i] = r]
  BY ToastsAssumption DEF Timer, WithinDuration, Arm
<1>2. ASSUME NEW t \in timeouts' PROVE DueInTime(t)
  <2>1. CASE t \in timeouts \ Handle(i)
    BY <2>1 DEF TimesOK
  <2>2. CASE t \in Unhandled(Handle(i))
    <3>1. PICK u \in timeouts : t = [u EXCEPT !.handle = FALSE]
      BY <2>2 DEF Unhandled, Handle
    <3>2. DueInTime(u)
      BY DEF TimesOK
    <3> QED BY <3>1, <3>2 DEF DueInTime
  <2>3. CASE t = [id |-> i, left |-> left, handle |-> TRUE]
    BY <2>3 DEF DueInTime
  <2> QED BY <2>1, <2>2, <2>3 DEF Arm
<1> HIDE DEF r
<1> QED BY <1>1, <1>2, TimerChanged

LEMMA NoTimerInTime == NoTimer \in Timer /\ WithinDuration(NoTimer)
BY DEF NoTimer, Timer, WithinDuration

LEMMA DismissTypes ==
  ASSUME ToastTypeOK, NEW i \in Ids, NEW ts \in SUBSET timeouts, Dismiss(i, ts)
  PROVE  ToastTypeOK'
<1>1. TimesOK'
  <2>1. \A t \in timeouts' : DueInTime(t)
    BY ToastTypeParts DEF Dismiss, TimesOK
  <2>2. timers' = [timers EXCEPT ![i] = NoTimer]
    BY DEF Dismiss
  <2> QED BY <2>1, <2>2, NoTimerInTime, TimerChanged, ToastTypeParts
<1>2. OthersOK'
  BY ToastTypeParts DEF Dismiss, OthersOK
<1> QED BY <1>1, <1>2 DEF ToastTypeOK, TimesOK, OthersOK, Timer, WithinDuration, DueInTime

LEMMA HoldTypes ==
  ASSUME ToastTypeOK, NEW i \in Ids, NEW by \in {"mouse", "focus"}, Hold(i, by) \/ Release(i, by)
  PROVE  ToastTypeOK'
<1>0. TimesOK /\ OthersOK
  BY ToastTypeParts
<1>1. timers[i] \in Timer /\ WithinDuration(timers[i])
  BY <1>0 DEF TimesOK
<1>2. OthersOK'
  BY <1>0 DEF Hold, Release, OthersOK
<1>3. CASE Hold(i, by)
  <2> DEFINE r == [timers[i] EXCEPT !.remaining = Minus(@, timers[i].age)]
  <2>1. r \in Timer /\ WithinDuration(r)
    BY <1>1, ToastsAssumption DEF Timer, WithinDuration, Minus
  <2>2. timers' = [timers EXCEPT ![i] = r] /\ timeouts' \subseteq timeouts
    BY <1>3 DEF Hold, Pause
  <2>3. \A t \in timeouts' : DueInTime(t)
    BY <1>0, <2>2 DEF TimesOK
  <2> HIDE DEF r
  <2>4. TimesOK'
    BY <1>0, <2>1, <2>2, <2>3, TimerChanged
  <2> QED BY <1>2, <2>4 DEF ToastTypeOK, TimesOK, OthersOK, Timer, WithinDuration, DueInTime
<1>4. CASE Release(i, by)
  <2>1. CASE timers[i].set /\ Arm(i, timers[i].remaining, timers[i].duration)
    <3>1. /\ timers[i].duration \in Durations /\ timers[i].remaining \in Nat
          /\ timers[i].remaining <= timers[i].duration
      BY <1>1, <2>1 DEF Timer, WithinDuration
    <3>2. TimesOK'
      BY <1>0, <2>1, <3>1, ArmInTime
    <3> QED BY <1>2, <3>2 DEF ToastTypeOK, TimesOK, OthersOK, Timer, WithinDuration, DueInTime
  <2>2. CASE UNCHANGED <<timers, timeouts>>
    BY <1>0, <1>2, <2>2 DEF ToastTypeOK, TimesOK, OthersOK, Timer, WithinDuration, DueInTime
  <2> QED BY <1>4, <2>1, <2>2 DEF Release, Resume
<1> QED BY <1>3, <1>4

LEMMA TickTypes == ToastTypeOK /\ Tick => ToastTypeOK'
<1> SUFFICES ASSUME ToastTypeOK, Tick PROVE ToastTypeOK'
  OBVIOUS
<1>0. TimesOK /\ OthersOK
  BY ToastTypeParts
<1>1. ASSUME NEW i \in Ids PROVE timers'[i] \in Timer /\ WithinDuration(timers'[i])
  <2>1. timers[i] \in Timer /\ WithinDuration(timers[i])
    BY <1>0 DEF TimesOK
  <2>2. timers'[i] = IF timers[i].set /\ timers[i].age < timers[i].duration
                       THEN [timers[i] EXCEPT !.age = @ + 1] ELSE timers[i]
    BY DEF Tick
  <2> QED BY <2>1, <2>2, ToastsAssumption DEF Timer, WithinDuration
<1>2. timers' \in [Ids -> Timer]
  BY <1>1 DEF Tick
<1>3. ASSUME NEW t \in timeouts' PROVE DueInTime(t)
  <2>1. PICK u \in timeouts : t = [u EXCEPT !.left = @ - 1]
    BY DEF Tick
  <2>2. DueInTime(u) /\ u.left > 0
    BY <1>0 DEF TimesOK, Tick
  <2> QED BY <2>1, <2>2, ToastsAssumption DEF DueInTime
<1>4. TimesOK'
  BY <1>1, <1>2, <1>3 DEF TimesOK
<1>5. OthersOK'
  BY <1>0 DEF Tick, OthersOK
<1> QED BY <1>4, <1>5 DEF ToastTypeOK, TimesOK, OthersOK, Timer, WithinDuration, DueInTime

LEMMA ToastTypesKept == ToastTypeOK /\ [ToastNext]_toastVars => ToastTypeOK'
<1> SUFFICES ASSUME ToastTypeOK, [ToastNext]_toastVars PROVE ToastTypeOK'
  OBVIOUS
<1>0. TimesOK /\ OthersOK
  BY ToastTypeParts
<1>1. CASE Push
  <2>1. PICK d \in Durations : Arm(nextId, d, d)
    BY <1>1 DEF Push
  <2>2. nextId \in Ids /\ d \in Nat /\ d <= d
    BY <1>1, ToastsAssumption DEF Push
  <2>3. TimesOK'
    BY <1>0, <2>1, <2>2, ArmInTime
  <2>4. OthersOK'
    BY <1>0, <1>1, ToastsAssumption DEF Push, OthersOK, Ids
  <2> QED BY <2>3, <2>4 DEF ToastTypeOK, TimesOK, OthersOK, Timer, WithinDuration, DueInTime
<1>2. ASSUME NEW t \in timeouts, Fire(t) PROVE ToastTypeOK'
  <2>1. t.id \in Ids /\ timeouts \ {t} \in SUBSET timeouts
    BY <1>0 DEF TimesOK, DueInTime
  <2> QED BY <1>2, <2>1, DismissTypes DEF Fire
<1>3. ASSUME NEW i \in Ids, Close(i) PROVE ToastTypeOK'
  BY <1>3, DismissTypes DEF Close
<1>4. CASE UNCHANGED toastVars
  BY <1>4 DEF toastVars, ToastTypeOK
<1> QED BY <1>1, <1>2, <1>3, <1>4, HoldTypes, TickTypes DEF ToastNext

PageInv ==
  /\ OpenTypeOK /\ ClientInv /\ FaultsBounded /\ HealthTypeOK /\ ToastTypeOK
  /\ part \in Parts

LEMMA PageInitInv == PageInit => PageInv
<1> SUFFICES ASSUME PageInit PROVE PageInv
  OBVIOUS
<1>1. OpenTypeOK
  <2>1. OpenInit
    BY DEF PageInit
  <2>2. \A f \in Opens : (IF f = pending THEN "stashed" ELSE "unopened") \in Fates
    BY DEF Fates
  <2>3. fate \in [Opens -> Fates]
    BY <2>1, <2>2 DEF OpenInit
  <2>4. opened \in [Opens -> Nat]
    BY <2>1 DEF OpenInit
  <2>5. pageLoads \in 1..MaxPageLoads
    BY <2>1, OpenedAssumption DEF OpenInit
  <2> QED BY <2>1, <2>3, <2>4, <2>5 DEF OpenInit, OpenTypeOK
<1>2. ClientInv /\ FaultsBounded
  BY ClientInitInv, SidecarAssumption DEF PageInit, ClientInit, SidecarInit, FaultsBounded
<1>3. HealthTypeOK
  <2>1. HealthInit
    BY DEF PageInit
  <2>2. probe \in [Probes -> {"free", "out", "ready", "unavailable"}] /\ changes \in 0..MaxChanges
    BY <2>1, HealthAssumption DEF HealthInit
  <2> QED BY <2>1, <2>2 DEF HealthInit, HealthTypeOK
<1>4. ToastTypeOK
  <2>1. timers = [i \in Ids |-> NoTimer] /\ timeouts = {} /\ nextId = 0 /\ toasts = {}
        /\ holds = [i \in Ids |-> {}] /\ bothHeld = {}
    BY DEF PageInit, ToastInit
  <2>2. TimesOK
    BY <2>1, NoTimerInTime DEF TimesOK
  <2>3. OthersOK
    BY <2>1, ToastsAssumption DEF OthersOK
  <2> QED BY <2>2, <2>3, ToastTypeParts
<1> QED BY <1>1, <1>2, <1>3, <1>4 DEF PageInit, PageInv

\* Each part moves alone.
LEMMA PageInvStep ==
  PageInv /\ [PageNext]_<<openVars, clientVars, healthVars, toastVars, part>> => PageInv'
<1> SUFFICES ASSUME PageInv, [PageNext]_<<openVars, clientVars, healthVars, toastVars, part>>
             PROVE  PageInv'
  OBVIOUS
<1>1. /\ [OpenNext]_openVars /\ [ClientNext]_clientVars
      /\ [HealthNext]_healthVars /\ [ToastNext]_toastVars /\ UNCHANGED part
  BY DEF PageNext, OpenedPart, ClientPart, HealthPart, ToastPart
<1>2. OpenTypeOK' /\ HealthTypeOK' /\ ToastTypeOK'
  BY <1>1, OpenTypes, HealthTypes, ToastTypesKept DEF PageInv
<1>3. ClientInv' /\ FaultsBounded'
  BY <1>1, ClientInvKept, FaultsStayBounded DEF PageInv
<1> QED BY <1>1, <1>2, <1>3 DEF PageInv

\* Every variable of the page keeps its range, the status of the backend waits only
\* for a probe that is out, no call passes its attempts, and no toast's time its
\* duration, for any number of files, calls, probes and toasts (main.rs, retry.ts,
\* backend-health.svelte.ts, notifications.svelte.ts).
THEOREM PageTypeCorrect == PageSpec => []PageTypeOK
<1>1. PageInv => PageTypeOK
  BY ClientTypesHold DEF PageInv, PageTypeOK
<1> QED BY <1>1, PageInitInv, PageInvStep, PTL DEF PageSpec
=============================================================================
