---- MODULE MCWindPlanner ----
EXTENDS WindPlanner

\* 24 units to the turn: slots of 12, 8 and 6; the steepest winding turns 27 units a pass.
Straight(perUnit, n) ==
    [inBounds |-> TRUE, reaches |-> TRUE, band |-> 3, circuits |-> n,
     wrap |-> [z \in 0..3 |-> perUnit * z]]
Curved(b, n) ==
    [inBounds |-> TRUE, reaches |-> TRUE, band |-> b, circuits |-> n,
     wrap |-> [z \in 0..b |-> z * (z + 3)]]
TooSteep(w) == [w EXCEPT !.reaches = FALSE]
OutOfBounds(w) == [w EXCEPT !.inBounds = FALSE]

MCSurfaces ==
    {[shape |-> "cylinder", length |-> 3, reducing |-> FALSE,
      windings |-> {Straight(9, 6), OutOfBounds(Straight(1, 4))}],
     [shape |-> "cone", length |-> 4, reducing |-> TRUE,
      windings |-> {Curved(4, 6), TooSteep(Curved(4, 4))}],
     [shape |-> "cone", length |-> 3, reducing |-> FALSE, windings |-> {Curved(3, 6)}],
     [shape |-> "profile", length |-> 4, reducing |-> FALSE,
      windings |-> {Curved(3, 4), Curved(2, 12), TooSteep(Curved(2, 4))}]}

MCPatterns == 1..4
MCSkips == {1, 2, 3}
MCLocks == {6, 8, 12, 27}
MCLeadIns == {1, 4}
MCLeadOuts == {5}
MCRotations == {-6}
====
