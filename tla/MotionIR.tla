------------------------------ MODULE MotionIR ------------------------------
(***************************************************************************)
(* The Motion IR (planning/ir.py), the WinderMachine that records it       *)
(* (planning/machine.py) and the metrics taken from it (planning/          *)
(* metrics.py).                                                            *)
(*                                                                         *)
(* Numbers are integers in a unit finer than what is printed: Digit of     *)
(* them make the last printed digit.  An interpolated point is rounded     *)
(* down to that unit.                                                      *)
(***************************************************************************)
EXTENDS Integers, Sequences, SequencesExt, PythonRound

CONSTANTS
  Digit,        \* the sixth decimal
  Millimetre,   \* the length of one carriage segment
  Revolution    \* 360 degrees

ASSUME UnitsAssumption ==
  /\ Digit \in Nat \ {0} /\ Millimetre \in Nat \ {0} /\ Revolution \in Nat \ {0}
  /\ Revolution % Digit = 0

Axis == {"carriage", "mandrel", "head"}
Home == [a \in Axis |-> 0]
NoTargets == [a \in {} |-> 0]

\* Targets, and the last position of every axis they leave out.
Completed(targets, last) ==
  [a \in DOMAIN last |-> IF a \in DOMAIN targets THEN targets[a] ELSE last[a]]

Length(a, b) == IF a < b THEN b - a ELSE a - b

Rapid(targets) == [kind |-> "rapid", targets |-> targets, feed |-> 0]
SetPosition(targets) == [kind |-> "set_position", targets |-> targets, feed |-> 0]
SetFeed(f) == [kind |-> "set_feed", targets |-> NoTargets, feed |-> f]
Comment == [kind |-> "comment", targets |-> NoTargets, feed |-> 0]

-----------------------------------------------------------------------------
(* WinderMachine: what it remembers, and what each call adds to the moves. *)

NewMachine(f, verbose) == [last |-> Home, moves |-> <<SetFeed(f)>>, verbose |-> verbose]

\* interpolate_coordinates: the first of its points is the start itself.
Interpolate(from, to, n) ==
  IF n = 1 THEN <<to>>
  ELSE [k \in 1..n |-> [a \in Axis |-> from[a] + ((k - 1) * (to[a] - from[a])) \div (n - 1)]]

Commented(w) == [w EXCEPT !.moves = Append(@, Comment)]

\* move: completed with the axes it leaves out, and cut along the carriage.
Moved(w, targets) ==
  LET to == Completed(targets, w.last)
      run == Length(w.last.carriage, to.carriage)
      points == IF run <= Digit THEN <<to>>
                ELSE Interpolate(w.last, to, RoundDiv(run, Millimetre) + 1)
      told == IF w.verbose THEN Commented(w) ELSE w
  IN [told EXCEPT !.moves = @ \o [k \in DOMAIN points |-> Rapid(points[k])],
                  !.last = points[Len(points)]]

Positioned(w, targets) ==
  [w EXCEPT !.moves = Append(@, SetPosition(targets)), !.last = Completed(targets, @)]

\* zero_axes: the mandrel is turned to 360 degrees and called 0 there.
Zeroed(w, angle) ==
  LET parked == Positioned(w, [Home EXCEPT !["mandrel"] = angle % Revolution])
      turned == Moved(parked, [a \in {"mandrel"} |-> Revolution])
  IN Positioned(turned, [a \in {"mandrel"} |-> 0])

-----------------------------------------------------------------------------
(* nominal_metrics.  Time and tow are functions of the legs: the moves that *)
(* move the tow, with what carriage and mandrel travel and the feed rate.   *)

Unmeasured == [last |-> Home, feed |-> 0, legs |-> <<>>, ok |-> TRUE]

Leg(from, to, f) ==
  [feed |-> f, carriage |-> to.carriage - from.carriage, mandrel |-> to.mandrel - from.mandrel]

Measured(m, move) ==
  LET to == Completed(move.targets, m.last)
      leg == Leg(m.last, to, m.feed)
      moving == leg.carriage # 0 \/ leg.mandrel # 0
  IN CASE move.kind = "comment"      -> m
       [] move.kind = "set_feed"     -> [m EXCEPT !.feed = move.feed]
       [] move.kind = "set_position" -> [m EXCEPT !.last = to]
       [] move.kind = "rapid"        ->
            [m EXCEPT !.last = to,
                      !.legs = IF moving THEN Append(@, leg) ELSE @,
                      !.ok = @ /\ (moving => m.feed > 0)]

NominalMetrics(moves) ==
  LET metrics[k \in 0..Len(moves)] ==
        IF k = 0 THEN Unmeasured ELSE Measured(metrics[k - 1], moves[k])
  IN metrics[Len(moves)]
=============================================================================
