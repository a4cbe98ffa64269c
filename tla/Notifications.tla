---------------------------- MODULE Notifications ---------------------------
(***************************************************************************)
(* The toasts of the GUI (state/notifications.svelte.ts) and what their    *)
(* view does to them (shell/Toasts.svelte): a toast goes away by itself    *)
(* after its duration; the mouse over it and the keyboard focus in it each *)
(* pause its timer, and leaving resumes it.  Time passes in ticks.         *)
(***************************************************************************)
EXTENDS Integers

CONSTANTS
  MaxToasts,   \* bound: toasts
  Durations    \* TOAST_DURATION_DEFAULT_MS and TOAST_DURATION_ERROR_MS, in ticks

ASSUME ToastsAssumption == MaxToasts \in Nat /\ Durations \subseteq Nat \ {0}

Ids == 0..(MaxToasts - 1)

VARIABLES
  nextId,
  toasts,       \* the ids on display
  timers,       \* id -> remaining, age (Date.now() - startedAt) and whether armed
  timeouts,     \* the pending setTimeout calls: id, ticks left, cleared by handle?
  holds,        \* what holds each toast: the mouse, the focus
  seen,         \* history: ticks that each toast was on display and not held
  bothHeld      \* history: toasts that mouse and focus have held at once

toastVars == <<nextId, toasts, timers, timeouts, holds, seen, bothHeld>>

NoTimer == [remaining |-> 0, age |-> 0, set |-> FALSE, duration |-> 0]

ToastInit ==
  /\ nextId = 0 /\ toasts = {} /\ timeouts = {} /\ bothHeld = {}
  /\ timers = [i \in Ids |-> NoTimer]
  /\ holds = [i \in Ids |-> {}]
  /\ seen = [i \in Ids |-> 0]

\* The timeout that the entry's handle names is the one armed last.
Handle(i) == {t \in timeouts : t.id = i /\ t.handle}
Unhandled(ts) == {[t EXCEPT !.handle = FALSE] : t \in ts}

\* #arm: a new timeout; an earlier one is forgotten, not cleared.
Arm(i, left, d) ==
  /\ timers' = [timers EXCEPT ![i] = [remaining |-> left, age |-> 0, set |-> TRUE, duration |-> d]]
  /\ timeouts' = (timeouts \ Handle(i)) \cup Unhandled(Handle(i))
                   \cup {[id |-> i, left |-> left, handle |-> TRUE]}

Push ==
  /\ nextId \in Ids /\ nextId' = nextId + 1
  /\ toasts' = toasts \cup {nextId}
  /\ \E d \in Durations : Arm(nextId, d, d)
  /\ UNCHANGED <<holds, seen, bothHeld>>

\* Mutant: nothing keeps what is left from falling below nothing.
MinusUnfloored(a, b) == a - b

\* Mutant: the entry is dropped with its timeout.
PauseForgets(i) ==
  /\ timeouts' = timeouts \ Handle(i)
  /\ timers' = [timers EXCEPT ![i] = NoTimer]

\* Mutant: the toast starts its time again.
ResumeAnew(i) ==
  \/ timers[i].set /\ Arm(i, timers[i].duration, timers[i].duration)
  \/ ~timers[i].set /\ UNCHANGED <<timers, timeouts>>

\* pause: what is left is counted from the last arming, also when it is paused.
Minus(a, b) == IF a > b THEN a - b ELSE 0
Pause(i) ==
  /\ timeouts' = timeouts \ Handle(i)
  /\ timers' = [timers EXCEPT ![i].remaining = Minus(@, timers[i].age)]

Resume(i) ==
  \/ timers[i].set /\ Arm(i, timers[i].remaining, timers[i].duration)
  \/ ~timers[i].set /\ UNCHANGED <<timers, timeouts>>

\* mouseenter and focusin, mouseleave and focusout.
Hold(i, by) ==
  /\ i \in toasts /\ by \notin holds[i]
  /\ holds' = [holds EXCEPT ![i] = @ \cup {by}]
  /\ Pause(i)
  /\ bothHeld' = IF holds[i] = {} THEN bothHeld ELSE bothHeld \cup {i}
  /\ UNCHANGED <<nextId, toasts, seen>>

Release(i, by) ==
  /\ i \in toasts /\ by \in holds[i]
  /\ holds' = [holds EXCEPT ![i] = @ \ {by}]
  /\ Resume(i)
  /\ UNCHANGED <<nextId, toasts, seen, bothHeld>>

\* dismiss: the timeout of the handle is cleared; the view lets go.
Dismiss(i, ts) ==
  /\ timeouts' = ts \ Handle(i)
  /\ timers' = [timers EXCEPT ![i] = NoTimer]
  /\ toasts' = toasts \ {i}
  /\ holds' = [holds EXCEPT ![i] = {}]
  /\ UNCHANGED <<nextId, seen, bothHeld>>

Close(i) == i \in toasts /\ Dismiss(i, timeouts)
Fire(t) == t.left = 0 /\ Dismiss(t.id, timeouts \ {t})

\* A tick: no timeout that is due waits for the next one.
Tick ==
  /\ \A t \in timeouts : t.left > 0
  /\ timeouts' = {[t EXCEPT !.left = @ - 1] : t \in timeouts}
  /\ timers' = [i \in Ids |-> IF timers[i].set /\ timers[i].age < timers[i].duration
                                THEN [timers[i] EXCEPT !.age = @ + 1] ELSE timers[i]]
  /\ seen' = [i \in Ids |-> IF i \in toasts /\ holds[i] = {} /\ i \notin bothHeld
                            THEN seen[i] + 1 ELSE seen[i]]
  /\ UNCHANGED <<nextId, toasts, holds, bothHeld>>

ToastNext ==
  \/ Push \/ Tick
  \/ \E t \in timeouts : Fire(t)
  \/ \E i \in Ids : Close(i) \/ \E by \in {"mouse", "focus"} : Hold(i, by) \/ Release(i, by)

ToastSpec == ToastInit /\ [][ToastNext]_toastVars

\* Time passes whatever the user does, and timeouts fire; nobody need touch a toast.
ToastFairness == SF_toastVars(Tick) /\ WF_toastVars(\E t \in timeouts : Fire(t))

-----------------------------------------------------------------------------
(* Properties *)

ToastTypeOK ==
  /\ nextId \in 0..MaxToasts /\ toasts \subseteq 0..(nextId - 1)
  /\ timers \in [Ids -> [remaining : Nat, age : Nat, set : BOOLEAN,
                         duration : Durations \cup {0}]]
  /\ \A i \in Ids : LET t == timers[i]
                    IN t.remaining <= t.duration /\ t.age <= t.duration
                         /\ (t.set => t.duration \in Durations)
  /\ \A t \in timeouts : /\ t \in [id : Ids, left : Nat, handle : BOOLEAN]
                         /\ \E d \in Durations : t.left <= d
  /\ holds \in [Ids -> SUBSET {"mouse", "focus"}]
  /\ bothHeld \subseteq Ids

\* notifications.svelte.ts:42-49: a toast is on display for its duration, the time
\* it was held not counted, and a held one does not go away - so far as mouse and
\* focus have not held it at the same time, in whichever order they came and went.
DisplayTimeKept ==
  \A i \in toasts \ bothHeld :
    LET pending == {t \in timeouts : t.id = i}
    IN IF holds[i] = {}
         THEN pending = {[id |-> i, left |-> timers[i].duration - seen[i], handle |-> TRUE]}
         ELSE pending = {} /\ timers[i].remaining = timers[i].duration - seen[i]

\* A toast that nothing holds goes away, also one that both have held.
ToastsGoAway ==
  \A i \in Ids : i \in toasts /\ holds[i] = {} ~> i \notin toasts \/ holds[i] # {}
=============================================================================
