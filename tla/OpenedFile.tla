----------------------------- MODULE OpenedFile -----------------------------
(***************************************************************************)
(* How a .wind file opened in the OS reaches the page (src-tauri/src/      *)
(* main.rs:22-54 and 313-377, App.svelte:34-68).  deliver_opened_file      *)
(* reads the flag frontend_ready and then emits an event or stores the     *)
(* path in a slot; take_opened_file sets the flag and then empties the     *)
(* slot.  The two may run on different threads.  The page registers its    *)
(* listener, then takes.  A reload of the page loses its listener and what *)
(* is on its way to it, while the flag stays set.                          *)
(***************************************************************************)
EXTENDS Naturals, FiniteSets

CONSTANTS
  Opens,        \* the files opened in the OS, one after another or together
  NoOpen,       \* pending = None
  MaxPageLoads  \* bound: loads of the page

ASSUME OpenedAssumption == NoOpen \notin Opens /\ MaxPageLoads \in Nat \ {0}

VARIABLES
  pending,         \* OpenedFile.pending
  frontend_ready,  \* OpenedFile.frontend_ready
  fate,            \* where each opened path is
  page,            \* "mounting", "listening", "taking" (the flag is set), "live"
  reply,           \* what take_opened_file is about to return
  opened,          \* history: how often the page opened each path
  pageLoads        \* history: loads of the page

openVars == <<pending, frontend_ready, fate, page, reply, opened, pageLoads>>

Fates == {"unopened", "arrived", "saw_ready", "saw_unready", "stashed", "sent",
          "taken", "handled", "replaced", "unheard"}

\* The webview has the listener of App.svelte.
Listening == page # "mounting"

\* A cold start has the path of the command line in the slot before the page runs.
OpenInit ==
  /\ frontend_ready = FALSE /\ page = "mounting" /\ pageLoads = 1
  /\ reply = NoOpen
  /\ opened = [f \in Opens |-> 0]
  /\ pending \in Opens \cup {NoOpen}
  /\ fate = [f \in Opens |-> IF f = pending THEN "stashed" ELSE "unopened"]

Becomes(f, to) == fate' = [fate EXCEPT ![f] = to]

\* single_instance, or RunEvent::Opened with one or several urls.
Arrive(f) ==
  /\ fate[f] = "unopened" /\ Becomes(f, "arrived")
  /\ UNCHANGED <<pending, frontend_ready, page, reply, opened, pageLoads>>

\* deliver_opened_file: the flag is read ...
DeliverRead(f) ==
  /\ fate[f] = "arrived"
  /\ Becomes(f, IF frontend_ready THEN "saw_ready" ELSE "saw_unready")
  /\ UNCHANGED <<pending, frontend_ready, page, reply, opened, pageLoads>>

\* ... and the path emitted, which only a listener hears, ...
DeliverEmit(f) ==
  /\ fate[f] = "saw_ready"
  /\ Becomes(f, IF Listening THEN "sent" ELSE "unheard")
  /\ UNCHANGED <<pending, frontend_ready, page, reply, opened, pageLoads>>

\* ... or stored over what the slot held.
DeliverStash(f) ==
  /\ fate[f] = "saw_unready"
  /\ pending' = f
  /\ fate' = [g \in Opens |-> IF g = f THEN "stashed"
                              ELSE IF g = pending THEN "replaced" ELSE fate[g]]
  /\ UNCHANGED <<frontend_ready, page, reply, opened, pageLoads>>

\* The promise of listen() is fulfilled.
Listen ==
  /\ page = "mounting" /\ page' = "listening"
  /\ UNCHANGED <<pending, frontend_ready, fate, reply, opened, pageLoads>>

\* take_opened_file, in its two steps.
TakeReady ==
  /\ page = "listening" /\ page' = "taking"
  /\ frontend_ready' = TRUE
  /\ UNCHANGED <<pending, fate, reply, opened, pageLoads>>

\* Mutant: the slot is read and not emptied.
TakePendingKept ==
  /\ page = "taking" /\ page' = "live"
  /\ reply' = pending
  /\ fate' = [f \in Opens |-> IF f = pending THEN "taken" ELSE fate[f]]
  /\ UNCHANGED <<pending, frontend_ready, opened, pageLoads>>

TakePending ==
  /\ page = "taking" /\ page' = "live"
  /\ reply' = pending /\ pending' = NoOpen
  /\ fate' = [f \in Opens |-> IF f = pending THEN "taken" ELSE fate[f]]
  /\ UNCHANGED <<frontend_ready, opened, pageLoads>>

\* openAssociatedFile: called with the reply of the take ...
OpenTaken ==
  /\ page = "live" /\ reply # NoOpen
  /\ opened' = [opened EXCEPT ![reply] = @ + 1]
  /\ Becomes(reply, "handled") /\ reply' = NoOpen
  /\ UNCHANGED <<pending, frontend_ready, page, pageLoads>>

\* ... and with the payload of an event.
OpenEvent(f) ==
  /\ Listening /\ fate[f] = "sent"
  /\ opened' = [opened EXCEPT ![f] = @ + 1]
  /\ Becomes(f, "handled")
  /\ UNCHANGED <<pending, frontend_ready, page, reply, pageLoads>>

\* The page is loaded anew, and mounts.
PageReload ==
  /\ pageLoads < MaxPageLoads /\ pageLoads' = pageLoads + 1
  /\ page' = "mounting" /\ reply' = NoOpen
  /\ fate' = [f \in Opens |-> IF fate[f] \in {"sent", "taken"} THEN "unheard" ELSE fate[f]]
  /\ UNCHANGED <<pending, frontend_ready, opened>>

DeliverStep(f) == DeliverRead(f) \/ DeliverEmit(f) \/ DeliverStash(f)
PageStep == Listen \/ TakeReady \/ TakePending \/ OpenTaken
OpenNext ==
  \/ PageStep \/ PageReload
  \/ \E f \in Opens : Arrive(f) \/ DeliverStep(f) \/ OpenEvent(f)

OpenSpec == OpenInit /\ [][OpenNext]_openVars

-----------------------------------------------------------------------------
(* Properties *)

OpenTypeOK ==
  /\ pending \in Opens \cup {NoOpen} /\ reply \in Opens \cup {NoOpen}
  /\ frontend_ready \in BOOLEAN
  /\ page \in {"mounting", "listening", "taking", "live"}
  /\ fate \in [Opens -> Fates] /\ opened \in [Opens -> Nat]
  /\ pageLoads \in 1..MaxPageLoads

\* main.rs:34 "Exactly one channel fires per open, so a file never loads twice":
\* not when the slot is drained while it is filled, nor when a reloaded page
\* drains again.
NeverOpenedTwice == \A f \in Opens : opened[f] <= 1

\* main.rs:33-35 "Exactly one channel fires per open, so a file never loads twice
\* and no stale path is left behind", App.svelte:48-49 "ordering it after the
\* listener means no open is dropped": once the page has drained the slot, nothing
\* is in it.  It does not hold: the flag may be read before the drain and the path
\* stored after it, and there it stays, at best until the page is loaded anew.
NoStalePath == page = "live" => pending = NoOpen
=============================================================================
