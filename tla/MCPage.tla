------------------------------- MODULE MCPage -------------------------------
(***************************************************************************)
(* The parts of the page that share no state, in one run.  A behaviour is  *)
(* one of one part, chosen at the start, and the others keep their initial *)
(* state: the reachable states are the union of those of the parts, each   *)
(* the same as in a run of its own, and not their product.                 *)
(***************************************************************************)
EXTENDS OpenedFile, ApiClient, BackendHealth, Notifications

VARIABLE part

\* A call of base_url per start(), and the warm-up thread.
ThreadSet == (Calls \X (1..MaxAttempts)) \cup {Warm}

Parts == {"opened", "client", "health", "toasts"}

PageInit ==
  /\ part \in Parts
  /\ OpenInit /\ ClientInit /\ HealthInit /\ ToastInit
  /\ part # "opened" => pending = NoOpen
  /\ part # "health" => healthy

OpenedPart ==
  /\ part = "opened" /\ OpenNext
  /\ UNCHANGED <<clientVars, healthVars, toastVars, part>>
ClientPart ==
  /\ part = "client" /\ ClientNext
  /\ UNCHANGED <<openVars, healthVars, toastVars, part>>
HealthPart ==
  /\ part = "health" /\ HealthNext
  /\ UNCHANGED <<openVars, clientVars, toastVars, part>>
ToastPart ==
  /\ part = "toasts" /\ ToastNext
  /\ UNCHANGED <<openVars, clientVars, healthVars, part>>

PageNext == OpenedPart \/ ClientPart \/ HealthPart \/ ToastPart

\* The fairness of the parts with a liveness property; no fair step is enabled in
\* the initial state, which the other parts keep.
PageFairness == ClientFairness /\ HealthFairness /\ ToastFairness

PageSpec ==
  /\ PageInit /\ [][PageNext]_<<openVars, clientVars, healthVars, toastVars, part>>
  /\ PageFairness

PageTypeOK ==
  /\ OpenTypeOK /\ ClientTypeOK /\ HealthTypeOK /\ ToastTypeOK
  /\ part \in Parts
=============================================================================
