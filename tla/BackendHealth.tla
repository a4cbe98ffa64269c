---------------------------- MODULE BackendHealth ---------------------------
(***************************************************************************)
(* The status of the bundled CLI (state/backend-health.svelte.ts): a       *)
(* refresh shows "checking" and awaits a probe, check_backend_health,      *)
(* which runs the CLI.  Refreshes come from a timer and from buttons and   *)
(* overlap; whichever probe is answered last sets the status.              *)
(***************************************************************************)
EXTENDS Naturals

CONSTANTS
  Probes,      \* bound: probes out at the same time
  MaxChanges   \* bound: changes of whether the CLI runs

ASSUME HealthAssumption == MaxChanges \in Nat

VARIABLES
  status,     \* "unknown", "checking", "ready", "unavailable"
  polling,    \* the interval timer is set
  probe,      \* the probes: "free", "out", or the result on its way back
  healthy,    \* whether the CLI would run now
  changes     \* history: changes of healthy

healthVars == <<status, polling, probe, healthy, changes>>

HealthInit ==
  /\ status = "unknown" /\ polling = FALSE
  /\ probe = [p \in Probes |-> "free"]
  /\ healthy \in BOOLEAN /\ changes = 0

\* refresh, up to its await.
Refresh(p) ==
  /\ probe[p] = "free"
  /\ status' = "checking"
  /\ probe' = [probe EXCEPT ![p] = "out"]

\* App.svelte mounts: a refresh, then one at every tick.
StartPolling ==
  /\ ~polling /\ polling' = TRUE
  /\ \E p \in Probes : Refresh(p)
  /\ UNCHANGED <<healthy, changes>>

\* Mutant: no refresh once the CLI was ready.
PollTickUntilReady ==
  /\ polling /\ status # "ready"
  /\ \E p \in Probes : Refresh(p)
  /\ UNCHANGED <<polling, healthy, changes>>

PollTick ==
  /\ polling
  /\ \E p \in Probes : Refresh(p)
  /\ UNCHANGED <<polling, healthy, changes>>

\* The banner's Retry, and the diagnostics dialog.
RefreshClicked ==
  /\ \E p \in Probes : Refresh(p)
  /\ UNCHANGED <<polling, healthy, changes>>

\* App.svelte is torn down; a refresh that is out is not.
StopPolling ==
  /\ polling /\ polling' = FALSE
  /\ UNCHANGED <<status, probe, healthy, changes>>

\* The command runs the CLI ...
Probed(p) ==
  /\ probe[p] = "out"
  /\ probe' = [probe EXCEPT ![p] = IF healthy THEN "ready" ELSE "unavailable"]
  /\ UNCHANGED <<status, polling, healthy, changes>>

\* ... and its answer, or the error thrown, sets the status.
ProbeAnswered(p) ==
  /\ probe[p] \in {"ready", "unavailable"}
  /\ status' = probe[p]
  /\ probe' = [probe EXCEPT ![p] = "free"]
  /\ UNCHANGED <<polling, healthy, changes>>

\* The CLI disappears, breaks or is back.
Change ==
  /\ changes < MaxChanges /\ changes' = changes + 1
  /\ healthy' = ~healthy
  /\ UNCHANGED <<status, polling, probe>>

ProbeStep(p) == Probed(p) \/ ProbeAnswered(p)
HealthNext ==
  \/ StartPolling \/ PollTick \/ RefreshClicked \/ StopPolling \/ Change
  \/ \E p \in Probes : ProbeStep(p)

HealthSpec == HealthInit /\ [][HealthNext]_healthVars

\* The interval fires while it is set, probes return; nobody need click.
HealthFairness ==
  /\ WF_healthVars(PollTick)
  /\ \A p \in Probes : WF_healthVars(ProbeStep(p))

-----------------------------------------------------------------------------
(* Properties *)

\* Every variable has its type; "checking" is shown only while a probe is out that
\* will replace it, however refreshes overlap.
HealthTypeOK ==
  /\ status \in {"unknown", "checking", "ready", "unavailable"}
  /\ polling \in BOOLEAN /\ healthy \in BOOLEAN /\ changes \in 0..MaxChanges
  /\ probe \in [Probes -> {"free", "out", "ready", "unavailable"}]
  /\ status = "checking" => \E p \in Probes : probe[p] # "free"

\* A status that is wrong for good does not stay: whichever order the probes are
\* answered in, as long as the page polls, the status of a CLI that stays as it is
\* is in the end its own.
HealthIsSeen ==
  \A b \in BOOLEAN :
    <>[](polling /\ healthy = b)
      => <>[](status \in {"checking", IF b THEN "ready" ELSE "unavailable"})
=============================================================================
