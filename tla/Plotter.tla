------------------------------ MODULE Plotter -------------------------------
(***************************************************************************)
(* The geometry of a plot (visualization/plotter.py): the legs of a        *)
(* program on the unwrapped mandrel, cut where they cross the seam.        *)
(***************************************************************************)
EXTENDS MotionIR

CONSTANT Seam   \* epsilon: how far beyond the seam a cut leg goes on

ASSUME SeamAssumption == Seam \in 1..(Revolution - 1)

Point(position) == [x |-> position.carriage, y |-> position.mandrel]

Band(y) == y \div Revolution
Wrap(p) == [p EXCEPT !.y = @ % Revolution]

Segment(a, b) == [from |-> a, to |-> b]

\* From beyond the seam the rest of the leg is split again.
SplitSegment(first, end) ==
  LET split[start \in [x : Int, y : Int]] ==
        LET up == end.y > start.y
            edge == (Band(start.y) + (IF up THEN 1 ELSE 0)) * Revolution
            x == start.x + (Length(start.y, edge) * (end.x - start.x)) \div Length(start.y, end.y)
            exit == [x |-> x, y |-> IF up THEN Revolution ELSE 0]
            beyond == [x |-> x, y |-> IF up THEN edge + Seam ELSE edge - Seam]
        IN IF Band(start.y) = Band(end.y)
             THEN <<Segment(Wrap(start), Wrap(end))>>
             ELSE <<Segment(Wrap(start), exit)>> \o split[beyond]
  IN split[first]

\* What render_plot draws of a piece, at scale 1: where a piece goes up to the seam,
\* the end of it comes out on the other side of the image.
ScreenPoint(p) == [p EXCEPT !.y = @ % Revolution]
Drawn(s) == Segment(ScreenPoint(s.from), ScreenPoint(s.to))

\* _collect_segments, each leg apart; a G92 moves the frame and draws nothing.
Unplotted == [at |-> [x |-> 0, y |-> 0], legs |-> <<>>]

\* Mutant: G92 is ignored.
PlottedThroughG92(c, move) ==
  LET to == Point(Completed(move.targets, [carriage |-> c.at.x, mandrel |-> c.at.y]))
  IN IF move.kind # "rapid" \/ to = c.at THEN c
     ELSE [at |-> to, legs |-> Append(c.legs, Segment(c.at, to))]

Plotted(c, move) ==
  LET to == Point(Completed(move.targets, [carriage |-> c.at.x, mandrel |-> c.at.y]))
  IN CASE move.kind = "set_position" -> [c EXCEPT !.at = to]
       [] move.kind = "rapid" /\ to # c.at ->
            [at |-> to, legs |-> Append(c.legs, Segment(c.at, to))]
       [] OTHER -> c

PlotLegs(moves) ==
  LET plot[k \in 0..Len(moves)] ==
        IF k = 0 THEN Unplotted ELSE Plotted(plot[k - 1], moves[k])
  IN plot[Len(moves)].legs
=============================================================================
