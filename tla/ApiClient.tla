----------------------------- MODULE ApiClient ------------------------------
(***************************************************************************)
(* The page's way to the API (lib/apiClient.ts): getApiClient memoises the *)
(* promise of a client; start() asks the shell for the port and polls      *)
(* /health; a fetch that throws, or a start that fails, empties the memo,  *)
(* whichever client it holds by then.  The calls are those of              *)
(* lib/commands.ts, repeated by lib/retry.ts.                              *)
(*                                                                         *)
(* A start() is named after the call and the attempt that made it.         *)
(***************************************************************************)
EXTENDS ApiSidecar

CONSTANTS
  Calls,         \* bound: calls of the API
  Warm,          \* the thread that starts the sidecar in the background
  MaxAttempts,   \* retry's maxAttempts
  NoStart        \* clientPromise = null

Starts == Calls \X (1..MaxAttempts)

ASSUME ClientAssumption ==
  /\ MaxAttempts \in Nat \ {0}
  /\ Threads = Starts \cup {Warm} /\ Warm \notin Starts /\ NoStart \notin Starts

VARIABLES
  clientPromise,   \* the start that the memo holds
  start,           \* the starts: "none", "url", "health", "ready", "failed"
  call             \* the calls: where they are, their attempt and its start, and
                   \* (history) how many of their attempts the API refused

clientVars == <<sidecarVars, clientPromise, start, call>>

ClientInit ==
  /\ SidecarInit
  /\ clientPromise = NoStart
  /\ start = [s \in Starts |-> "none"]
  /\ call = [c \in Calls |-> [at |-> "idle", attempt |-> 0, on |-> NoStart, refused |-> 0]]

Port(s) == caller[s].port

Attempt(c, n, s) ==
  call' = [call EXCEPT ![c].at = "client", ![c].attempt = n, ![c].on = s]

\* getApiClient: the promise in the memo, or a new start.
GetApiClient(c, n) ==
  \/ /\ clientPromise # NoStart
     /\ Attempt(c, n, clientPromise)
     /\ UNCHANGED <<clientPromise, start, caller>>
  \/ /\ clientPromise = NoStart
     /\ clientPromise' = <<c, n>>
     /\ start' = [start EXCEPT ![<<c, n>>] = "url"]
     /\ AskUrl(<<c, n>>)
     /\ Attempt(c, n, <<c, n>>)

CallApi(c) ==
  /\ call[c].at = "idle"
  /\ GetApiClient(c, 1)
  /\ UNCHANGED <<proc, slot, guard, faults>>

Retry(c) ==
  /\ call[c].at = "wait"
  /\ GetApiClient(c, call[c].attempt + 1)
  /\ UNCHANGED <<proc, slot, guard, faults>>

\* The warm-up thread of the shell's setup.
WarmUp == AskUrl(Warm) /\ UNCHANGED <<proc, slot, guard, faults, clientPromise, start, call>>

StartFails(s) ==
  /\ start' = [start EXCEPT ![s] = "failed"]
  /\ clientPromise' = NoStart

\* Mutant: an error of the shell does not reject the promise.
UrlAnsweredOk(s) ==
  /\ start[s] = "url" /\ caller[s].at = "done"
  /\ start' = [start EXCEPT ![s] = "health"]
  /\ UNCHANGED <<sidecarVars, clientPromise, call>>

\* start(): the shell has answered ...
UrlAnswered(s) ==
  /\ start[s] = "url"
  /\ \/ /\ caller[s].at = "done"
        /\ start' = [start EXCEPT ![s] = "health"] /\ UNCHANGED clientPromise
     \/ caller[s].at = "failed" /\ StartFails(s)
  /\ UNCHANGED <<sidecarVars, call>>

\* ... /health answers ...
Healthy(s) ==
  /\ start[s] = "health" /\ proc[Port(s)] = "listening"
  /\ start' = [start EXCEPT ![s] = "ready"]
  /\ UNCHANGED <<sidecarVars, clientPromise, call>>

\* ... or does not in 30 seconds: the process is dead, or it is slow.
NotHealthy(s) ==
  /\ start[s] = "health"
  /\ IF proc[Port(s)] = "listening" THEN Fault ELSE UNCHANGED faults
  /\ StartFails(s)
  /\ UNCHANGED <<proc, slot, guard, caller, call>>

\* The attempt throws: another one after a delay, or the error is the caller's.
AttemptFails(c, refused) ==
  call' = [call EXCEPT ![c].at = IF call[c].attempt < MaxAttempts THEN "wait" ELSE "failed",
                       ![c].refused = @ + refused]

ClientAnswered(c) ==
  /\ call[c].at = "client"
  /\ \/ start[call[c].on] = "ready" /\ call' = [call EXCEPT ![c].at = "post"]
     \/ start[call[c].on] = "failed" /\ AttemptFails(c, 0)
  /\ UNCHANGED <<sidecarVars, clientPromise, start>>

\* A POST is out: the only one of the call, or the first ("post") and the second
\* ("plot") of plotDefinition.
Posting(c) == call[c].at \in {"post", "plot"}

\* The answer is what the call wants, after which plotDefinition posts again; or it
\* is refused: an HTTP error, an answer without data, or for planWind a file that
\* cannot be written.  A refusal is thrown like a fault, and leaves the memo alone.
PostAnswered(c) ==
  /\ Posting(c) /\ proc[Port(call[c].on)] = "listening"
  /\ \/ call' = [call EXCEPT ![c].at = "done"]
     \/ call[c].at = "post" /\ call' = [call EXCEPT ![c].at = "plot"]
     \/ AttemptFails(c, 1)
  /\ UNCHANGED <<sidecarVars, clientPromise, start>>

\* Mutant: the memo stays.
PostThrowsMemoised(c) ==
  /\ Posting(c)
  /\ IF proc[Port(call[c].on)] = "listening" THEN Fault ELSE UNCHANGED faults
  /\ AttemptFails(c, 0)
  /\ UNCHANGED <<proc, slot, guard, caller, start, clientPromise>>

\* The fetch throws: onError empties the memo, whatever it holds.
PostThrows(c) ==
  /\ Posting(c)
  /\ IF proc[Port(call[c].on)] = "listening" THEN Fault ELSE UNCHANGED faults
  /\ clientPromise' = NoStart
  /\ AttemptFails(c, 0)
  /\ UNCHANGED <<proc, slot, guard, caller, start>>

ShellStep(t) == UrlStep(t) /\ UNCHANGED <<clientPromise, start, call>>
StartStep(s) == UrlAnswered(s) \/ Healthy(s) \/ NotHealthy(s)
CallStep(c) == Retry(c) \/ ClientAnswered(c) \/ PostAnswered(c) \/ PostThrows(c)

ClientNext ==
  \/ WarmUp
  \/ Die /\ UNCHANGED <<clientPromise, start, call>>
  \/ \E t \in Threads : ShellStep(t)
  \/ \E s \in Starts : StartStep(s)
  \/ \E c \in Calls : CallApi(c) \/ CallStep(c)

ClientSpec == ClientInit /\ [][ClientNext]_clientVars

\* Threads run, a spawned sidecar prints its port or exits (the handshake has no
\* timeout), requests are answered or time out.  Nobody need call the API.
ClientFairness ==
  /\ \A t \in Threads : WF_clientVars(ShellStep(t))
  /\ \A s \in Starts : WF_clientVars(StartStep(s))
  /\ \A c \in Calls : WF_clientVars(CallStep(c))

-----------------------------------------------------------------------------
(* Properties *)

ClientTypeOK ==
  /\ SidecarTypeOK
  /\ clientPromise \in Starts \cup {NoStart}
  /\ start \in [Starts -> {"none", "url", "health", "ready", "failed"}]
  /\ call \in [Calls -> [at : {"idle", "client", "post", "plot", "wait", "done", "failed"},
                         attempt : 0..MaxAttempts, on : Starts \cup {NoStart},
                         refused : Nat]]

\* apiClient.ts:33-37 "Drop the memo so the next call re-resolves api_base_url ...
\* Without this the client would point at the dead port forever": a fault of the
\* shell, the sidecar or a request costs a call one attempt, and so does a refusal
\* of the API, its own and nobody else's.  So a call fails only when the faults and
\* its refusals are as many as its attempts - whichever clients, shared with other
\* calls or dropped too early by them, it goes through.
FailuresAccounted ==
  \A c \in Calls : call[c].at = "failed" => faults + call[c].refused >= MaxAttempts

\* Every call of the API ends, also when the sidecar dies under it.
CallsSettle == \A c \in Calls : call[c].at = "client" ~> call[c].at \in {"done", "failed"}
=============================================================================
