---------------------------- MODULE MCPlanning ------------------------------
(***************************************************************************)
(* Planning in one run: the winding of layers, or the toolpath from the    *)
(* machine to its consumers.  A behaviour is one of the part chosen at the *)
(* start; the other keeps one of its initial states.                       *)
(***************************************************************************)
EXTENDS MCWindPlanner, Toolpath

VARIABLE part

\* Two units to the printed digit, so that odd numbers are rounded; two digits to
\* the millimetre.
MCFeedRates == {10}
At(c, m, h) == [carriage |-> c, mandrel |-> m, head |-> h]
MCWaypoints ==
  {At(7, 31, -1), [mandrel |-> -29, head |-> 1], [carriage |-> 0, mandrel |-> 48], [head |-> 0]}

\* What a text written elsewhere is made of.
MCLines ==
  {Header, Modal("G21"), Modal("G91"), CommentLine,
   Line("G0", NoTargets, 0), Line("G0", NoTargets, 10), Line("G1", [carriage |-> 3], 11),
   Line("G0", At(5, 49, 1), 0), Line("G92", [mandrel |-> -7], 0), Line("G92", NoTargets, 10)}

Winding == part = "winding" /\ Next /\ UNCHANGED <<pathVars, part>>
Pathing == part = "toolpath" /\ PathNext /\ UNCHANGED <<vars, part>>

PlanningInit ==
  /\ part \in {"winding", "toolpath"} /\ Init /\ PathInit
  /\ part = "winding" => stage = "between" /\ ~machine.verbose
  /\ part = "toolpath" => surface = CHOOSE s \in MCSurfaces : s.shape = "cylinder"

PlanningSpec == PlanningInit /\ [][Winding \/ Pathing]_<<vars, pathVars, part>>

PlanningTypeOK == TypeOK /\ PathTypeOK
=============================================================================
