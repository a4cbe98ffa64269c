--------------------------- MODULE ToolpathProofs ---------------------------
(***************************************************************************)
(* Theorems about Toolpath and MCPlanning: a program from the calls of the *)
(* planner to the text, and from the text to the metrics and the plot.     *)
(*                                                                         *)
(* Metrics, plot and reading are recursive over the moves, and the pieces  *)
(* of a leg over the seam.  Each is first shown to be a function that is   *)
(* built step by step (PrimitiveRecursion, RecursionForever), and is then  *)
(* followed by an induction on its place: the plot beside the metrics, the *)
(* read text beside the moves, the layers beside the program.  The state   *)
(* invariant, PathInv, is small: the machine begins with a feed rate and   *)
(* only ever adds moves, layers end where the next begin, and the text of  *)
(* a plan is what was written.                                             *)
(***************************************************************************)
EXTENDS MCPlanning, CoverageProofs, SequenceTheorems

-----------------------------------------------------------------------------
(* Functions by recursion *)

\* Each value follows from the one before.
Recursive(g, n, D, base, step) ==
  /\ g \in [0..n -> D] /\ g[0] = base
  /\ \A k \in 1..n : g[k] = step[<<k, g[k - 1]>>]

\* Such a function is there, whatever follows from what.
LEMMA PrimitiveRecursion ==
  ASSUME NEW D, NEW base \in D, NEW n \in Nat, NEW step \in [(1..n) \X D -> D]
  PROVE  \E g : Recursive(g, n, D, base, step)
<1> DEFINE Good(g, m) == /\ g \in [0..m -> D] /\ g[0] = base
                         /\ \A k \in 1..m : g[k] = step[<<k, g[k - 1]>>]
           I == {m \in Nat : m =< n => \E g : Good(g, m)}
<1>1. 0 \in I
  <2>1. Good([k \in 0..0 |-> base], 0)
    OBVIOUS
  <2> QED BY <2>1
<1>2. ASSUME NEW m \in Nat, m \in I PROVE m + 1 \in I
  <2> SUFFICES ASSUME m + 1 =< n PROVE \E g : Good(g, m + 1)
    OBVIOUS
  <2>1. PICK g : Good(g, m)
    BY <1>2
  <2> DEFINE e == step[<<m + 1, g[m]>>]
             h == [k \in 0..(m + 1) |-> IF k = m + 1 THEN e ELSE g[k]]
  <2>2. g \in [0..m -> D] /\ g[0] = base /\ \A k \in 1..m : g[k] = step[<<k, g[k - 1]>>]
    BY <2>1
  <2>3. e \in D
    <3>1. <<m + 1, g[m]>> \in (1..n) \X D
      BY <2>2
    <3> QED BY <3>1
  <2>4. h \in [0..(m + 1) -> D] /\ h[0] = base
    BY <2>2, <2>3
  <2>5. ASSUME NEW k \in 1..(m + 1) PROVE h[k] = step[<<k, h[k - 1]>>]
    <3>1. CASE k = m + 1
      <4>1. h[k] = e /\ h[k - 1] = g[m] /\ k - 1 = m
        BY <3>1
      <4> QED BY <3>1, <4>1
    <3>2. CASE k \in 1..m
      <4>1. h[k] = g[k] /\ h[k - 1] = g[k - 1]
        BY <3>2
      <4> QED BY <2>2, <3>2, <4>1
    <3> QED BY <3>1, <3>2
  <2> QED BY <2>4, <2>5
<1> HIDE DEF I
<1>3. Nat \subseteq I
  BY <1>1, <1>2, SetInduction
<1>4. \E g : Good(g, n)
  BY <1>3 DEF I
<1> QED BY <1>4 DEF Recursive

\* And so on without end.
Endless(g, D, base, step) ==
  g \in [Nat -> D] /\ g[0] = base /\ \A k \in Nat : g[k + 1] = step[<<k + 1, g[k]>>]

LEMMA RecursionForever ==
  ASSUME NEW D, NEW base \in D, NEW step \in [Nat \X D -> D]
  PROVE  \E g : Endless(g, D, base, step)
<1> DEFINE steps(n) == [p \in (1..n) \X D |-> step[p]]
           g(n) == CHOOSE h : Recursive(h, n, D, base, steps(n))
           G == [n \in Nat |-> g(n)[n]]
<1>1. ASSUME NEW n \in Nat
      PROVE  /\ g(n) \in [0..n -> D] /\ g(n)[0] = base
             /\ \A k \in 1..n : g(n)[k] = step[<<k, g(n)[k - 1]>>]
  <2> DEFINE h == g(n)
  <2>1. steps(n) \in [(1..n) \X D -> D]
    OBVIOUS
  <2>2. \E f : Recursive(f, n, D, base, steps(n))
    <3> HIDE DEF steps
    <3> QED BY <2>1, PrimitiveRecursion
  <2>3. Recursive(h, n, D, base, steps(n))
    <3> HIDE DEF steps
    <3> QED BY <2>2
  <2> HIDE DEF h
  <2>4. /\ h \in [0..n -> D] /\ h[0] = base
        /\ \A k \in 1..n : h[k] = steps(n)[<<k, h[k - 1]>>]
    <3> HIDE DEF steps
    <3> QED BY <2>3 DEF Recursive
  <2>5. \A k \in 1..n : h[k] = step[<<k, h[k - 1]>>]
    <3> SUFFICES ASSUME NEW k \in 1..n PROVE h[k] = step[<<k, h[k - 1]>>]
      OBVIOUS
    <3>1. <<k, h[k - 1]>> \in (1..n) \X D
      BY <2>4
    <3> QED BY <2>4, <3>1
  <2> QED BY <2>4, <2>5 DEF h
<1> HIDE DEF g
<1>2. ASSUME NEW n \in Nat PROVE \A k \in 0..n : g(n + 1)[k] = g(n)[k]
  <2> DEFINE I == {k \in Nat : k =< n => g(n + 1)[k] = g(n)[k]}
  <2>1. n + 1 \in Nat
    OBVIOUS
  <2>2. 0 \in I
    BY <1>1, <2>1
  <2>3. ASSUME NEW k \in Nat, k \in I PROVE k + 1 \in I
    <3> SUFFICES ASSUME k + 1 =< n PROVE g(n + 1)[k + 1] = g(n)[k + 1]
      OBVIOUS
    <3>1. k + 1 \in 1..n /\ k + 1 \in 1..(n + 1) /\ (k + 1) - 1 = k
      OBVIOUS
    <3>2. g(n + 1)[k + 1] = step[<<k + 1, g(n + 1)[k]>>]
      BY <1>1, <2>1, <3>1
    <3>3. g(n)[k + 1] = step[<<k + 1, g(n)[k]>>]
      BY <1>1, <3>1
    <3> QED BY <2>3, <3>1, <3>2, <3>3
  <2> HIDE DEF I
  <2>4. Nat \subseteq I
    BY <2>2, <2>3, SetInduction
  <2> QED BY <2>4 DEF I
<1>3. G \in [Nat -> D] /\ G[0] = base
  BY <1>1
<1>4. ASSUME NEW k \in Nat PROVE G[k + 1] = step[<<k + 1, G[k]>>]
  <2>1. k + 1 \in Nat /\ k + 1 \in 1..(k + 1) /\ (k + 1) - 1 = k
    OBVIOUS
  <2>2. g(k + 1)[k + 1] = step[<<k + 1, g(k + 1)[k]>>]
    BY <1>1, <2>1
  <2>3. g(k + 1)[k] = g(k)[k]
    BY <1>2
  <2> QED BY <2>1, <2>2, <2>3
<1> HIDE DEF G
<1>5. Endless(G, D, base, step)
  BY <1>3, <1>4 DEF Endless
<1> QED BY <1>5

-----------------------------------------------------------------------------
(* Moves and their metrics *)

Position6 == [Axis -> Int]
Targets == UNION {[A -> Int] : A \in SUBSET Axis}
Kinds == {"rapid", "set_feed", "set_position", "comment"}
Moves == [kind : Kinds, targets : Targets, feed : Int]
Legs == [feed : Int, carriage : Int, mandrel : Int]
Metrics == [last : Position6, feed : Int, legs : Seq(Legs), ok : BOOLEAN]

LEMMA TargetsMeans ==
  ASSUME NEW t PROVE t \in Targets <=> DOMAIN t \subseteq Axis /\ t \in [DOMAIN t -> Int]
BY DEF Targets

LEMMA CompletedType ==
  ASSUME NEW t \in Targets, NEW last \in Position6 PROVE Completed(t, last) \in Position6
BY TargetsMeans DEF Completed, Position6

LEMMA UnmeasuredType == Unmeasured \in Metrics
BY DEF Unmeasured, Metrics, Home, Position6

LEMMA MeasuredType ==
  ASSUME NEW m \in Metrics, NEW move \in Moves PROVE Measured(m, move) \in Metrics
<1> DEFINE to == Completed(move.targets, m.last)
           leg == Leg(m.last, to, m.feed)
           moving == leg.carriage # 0 \/ leg.mandrel # 0
<1>1. /\ m.last \in Position6 /\ m.feed \in Int /\ m.legs \in Seq(Legs) /\ m.ok \in BOOLEAN
      /\ m = [last |-> m.last, feed |-> m.feed, legs |-> m.legs, ok |-> m.ok]
  BY DEF Metrics
<1>2. move.targets \in Targets /\ move.feed \in Int /\ move.kind \in Kinds
  BY DEF Moves
<1>3. to \in Position6
  BY <1>1, <1>2, CompletedType
<1> HIDE DEF to
<1>4. leg \in Legs
  BY <1>1, <1>3 DEF Leg, Legs, Position6, Axis
<1>5. Append(m.legs, leg) \in Seq(Legs)
  <2> HIDE DEF leg
  <2> QED BY <1>1, <1>4
<1> DEFINE moved == [m EXCEPT !.last = to,
                              !.legs = IF moving THEN Append(@, leg) ELSE @,
                              !.ok = @ /\ (moving => m.feed > 0)]
<1>6. moved \in Metrics
  <2> HIDE DEF moving, leg
  <2>1. (IF moving THEN Append(m.legs, leg) ELSE m.legs) \in Seq(Legs)
    BY <1>1, <1>5
  <2>2. (m.ok /\ (moving => m.feed > 0)) \in BOOLEAN
    OBVIOUS
  <2> QED BY <1>1, <1>3, <2>1, <2>2 DEF Metrics
<1>7. [m EXCEPT !.feed = move.feed] \in Metrics /\ [m EXCEPT !.last = to] \in Metrics
  BY <1>1, <1>2, <1>3 DEF Metrics
<1>8. Measured(m, move) = CASE move.kind = "comment"      -> m
                            [] move.kind = "set_feed"     -> [m EXCEPT !.feed = move.feed]
                            [] move.kind = "set_position" -> [m EXCEPT !.last = to]
                            [] move.kind = "rapid"        -> moved
  BY DEF Measured, to
<1> HIDE DEF moved
<1> QED BY <1>2, <1>6, <1>7, <1>8 DEF Kinds

\* The metrics of every prefix.
Metering(g, moves) ==
  /\ g \in [0..Len(moves) -> Metrics] /\ g[0] = Unmeasured
  /\ \A k \in 1..Len(moves) : g[k] = Measured(g[k - 1], moves[k])

LEMMA MetricsFold ==
  ASSUME NEW moves \in Seq(Moves)
  PROVE  \E g : Metering(g, moves) /\ NominalMetrics(moves) = g[Len(moves)]
<1> DEFINE n == Len(moves)
           step == [p \in (1..n) \X Metrics |-> Measured(p[2], moves[p[1]])]
           Good(g) == g = [k \in 0..n |-> IF k = 0 THEN Unmeasured
                                         ELSE Measured(g[k - 1], moves[k])]
           G == CHOOSE g : Good(g)
<1>1. n \in Nat /\ \A k \in 1..n : moves[k] \in Moves
  OBVIOUS
<1> HIDE DEF n
<1>2. step \in [(1..n) \X Metrics -> Metrics]
  BY <1>1, MeasuredType
<1>3. \A k \in 1..n, m \in Metrics : step[<<k, m>>] = Measured(m, moves[k])
  OBVIOUS
<1> HIDE DEF step
<1>4. PICK g : Recursive(g, n, Metrics, Unmeasured, step)
  BY <1>1, <1>2, UnmeasuredType, PrimitiveRecursion
<1>5. /\ g \in [0..n -> Metrics] /\ g[0] = Unmeasured
      /\ \A k \in 1..n : g[k] = step[<<k, g[k - 1]>>]
  BY <1>4 DEF Recursive
<1>6. Good(g)
  <2>1. \A k \in 1..n : g[k] = Measured(g[k - 1], moves[k])
    <3> SUFFICES ASSUME NEW k \in 1..n PROVE g[k] = Measured(g[k - 1], moves[k])
      OBVIOUS
    <3>1. g[k - 1] \in Metrics
      BY <1>1, <1>5
    <3> QED BY <1>3, <1>5, <3>1
  <2>2. \A k \in 0..n : g[k] = IF k = 0 THEN Unmeasured ELSE Measured(g[k - 1], moves[k])
    BY <1>1, <1>5, <2>1
  <2> QED BY <1>5, <2>2
<1>7. Good(G)
  BY <1>6
<1>8. NominalMetrics(moves) = G[n]
  BY DEF NominalMetrics, n
<1> HIDE DEF G
<1>9. /\ G[0] = Unmeasured
      /\ \A k \in 1..n : G[k] = Measured(G[k - 1], moves[k])
  <2>1. \A k \in 0..n : G[k] = IF k = 0 THEN Unmeasured ELSE Measured(G[k - 1], moves[k])
    BY <1>7
  <2> QED BY <1>1, <2>1
<1>10. \A k \in 0..n : G[k] \in Metrics
  <2> DEFINE I == {k \in Nat : k =< n => G[k] \in Metrics}
  <2>1. 0 \in I
    BY <1>9, UnmeasuredType
  <2>2. ASSUME NEW k \in Nat, k \in I PROVE k + 1 \in I
    <3> SUFFICES ASSUME k + 1 =< n PROVE G[k + 1] \in Metrics
      OBVIOUS
    <3>1. k + 1 \in 1..n /\ (k + 1) - 1 = k /\ G[k] \in Metrics
      BY <1>1, <2>2
    <3>2. G[k + 1] = Measured(G[k], moves[k + 1])
      BY <1>9, <3>1
    <3> QED BY <1>1, <3>1, <3>2, MeasuredType
  <2> HIDE DEF I
  <2>3. Nat \subseteq I
    BY <2>1, <2>2, SetInduction
  <2> QED BY <1>1, <2>3 DEF I
<1>11. G \in [0..n -> Metrics]
  <2>1. DOMAIN G = 0..n /\ G = [k \in 0..n |-> G[k]]
    BY <1>7
  <2> QED BY <1>10, <2>1
<1> QED BY <1>8, <1>9, <1>11 DEF Metering, n

\* Where the moves are the same, so are the metrics, from a place where nothing was
\* measured yet.
Agree(moves, others, c, n) == \A k \in 1..n : moves[c + k] = others[k]

LEMMA MeteringAgrees ==
  ASSUME NEW moves \in Seq(Moves), NEW others \in Seq(Moves), NEW g, NEW h,
         Metering(g, moves), Metering(h, others),
         NEW c \in Nat, NEW n \in Nat, c + n =< Len(moves), n =< Len(others),
         g[c] = Unmeasured, Agree(moves, others, c, n)
  PROVE  \A k \in 0..n : g[c + k] = h[k]
<1> DEFINE I == {k \in Nat : k =< n => g[c + k] = h[k]}
<1>1. 0 \in I
  BY DEF Metering
<1>2. ASSUME NEW k \in Nat, k \in I PROVE k + 1 \in I
  <2> SUFFICES ASSUME k + 1 =< n PROVE g[c + (k + 1)] = h[k + 1]
    OBVIOUS
  <2>1. /\ c + (k + 1) \in 1..Len(moves) /\ k + 1 \in 1..Len(others) /\ k + 1 \in 1..n
        /\ (c + (k + 1)) - 1 = c + k /\ (k + 1) - 1 = k
    OBVIOUS
  <2>2. g[c + (k + 1)] = Measured(g[c + k], moves[c + (k + 1)])
    BY <2>1 DEF Metering
  <2>3. h[k + 1] = Measured(h[k], others[k + 1])
    BY <2>1 DEF Metering
  <2> QED BY <1>2, <2>1, <2>2, <2>3 DEF Agree
<1> HIDE DEF I
<1>3. Nat \subseteq I
  BY <1>1, <1>2, SetInduction
<1> QED BY <1>3 DEF I

-----------------------------------------------------------------------------
(* The plot beside the metrics *)

Points == [x : Int, y : Int]
Segments == [from : Points, to : Points]
Plots == [at : Points, legs : Seq(Segments)]

\* Where a move leads the plot, and where it leads the metrics.
LEMMA PlotFollowsMove ==
  ASSUME NEW t \in Targets, NEW last \in Position6
  PROVE  /\ Point(Completed(t, [carriage |-> last.carriage, mandrel |-> last.mandrel]))
              = Point(Completed(t, last))
         /\ Point(Completed(t, last)) \in Points
<1> DEFINE two == [carriage |-> last.carriage, mandrel |-> last.mandrel]
<1>1. /\ Completed(t, last) \in Position6
      /\ Completed(t, two).carriage = Completed(t, last).carriage
      /\ Completed(t, two).mandrel = Completed(t, last).mandrel
  BY CompletedType DEF Completed, Position6, Axis
<1>2. Completed(t, last).carriage \in Int /\ Completed(t, last).mandrel \in Int
  BY <1>1 DEF Position6, Axis
<1> QED BY <1>1, <1>2 DEF Point, Points

\* The plot is where the metrics are, and has drawn what they have counted.
Draws(c, m) ==
  /\ c \in Plots /\ m \in Metrics
  /\ c.at = Point(m.last)
  /\ Len(c.legs) = Len(m.legs)
  /\ \A k \in 1..Len(m.legs) : /\ c.legs[k].to.x - c.legs[k].from.x = m.legs[k].carriage
                               /\ Rise(c.legs[k]) = m.legs[k].mandrel

LEMMA DrawsFirst == Draws(Unplotted, Unmeasured)
BY UnmeasuredType DEF Draws, Unplotted, Unmeasured, Plots, Points, Point, Home, Axis

LEMMA DrawsNext ==
  ASSUME NEW c, NEW m, Draws(c, m), NEW move \in Moves
  PROVE  Draws(Plotted(c, move), Measured(m, move))
<1> DEFINE to == Completed(move.targets, m.last)
           leg == Leg(m.last, to, m.feed)
           moving == leg.carriage # 0 \/ leg.mandrel # 0
           p == Point(to)
           drawn == Segment(c.at, p)
<1>1. /\ m.last \in Position6 /\ m.feed \in Int /\ m.legs \in Seq(Legs) /\ m.ok \in BOOLEAN
      /\ m = [last |-> m.last, feed |-> m.feed, legs |-> m.legs, ok |-> m.ok]
  BY DEF Metrics, Draws
<1>2. move.targets \in Targets /\ move.feed \in Int /\ move.kind \in Kinds
  BY DEF Moves
<1>3. /\ c.at = Point(m.last) /\ c.legs \in Seq(Segments) /\ c.at \in Points
      /\ c = [at |-> c.at, legs |-> c.legs]
      /\ c.at.x = m.last.carriage /\ c.at.y = m.last.mandrel
  BY DEF Draws, Plots, Point
<1>4. to \in Position6 /\ p \in Points
  BY <1>1, <1>2, CompletedType, PlotFollowsMove
<1>5. p = Point(Completed(move.targets, [carriage |-> c.at.x, mandrel |-> c.at.y]))
  BY <1>1, <1>2, <1>3, PlotFollowsMove
<1>6. /\ p.x = to.carriage /\ p.y = to.mandrel /\ to.carriage \in Int /\ to.mandrel \in Int
      /\ m.last.carriage \in Int /\ m.last.mandrel \in Int
  BY <1>1, <1>4 DEF Point, Position6, Axis
<1> DEFINE moved == [m EXCEPT !.last = to,
                              !.legs = IF moving THEN Append(@, leg) ELSE @,
                              !.ok = @ /\ (moving => m.feed > 0)]
<1>7. Measured(m, move) = CASE move.kind = "comment"      -> m
                            [] move.kind = "set_feed"     -> [m EXCEPT !.feed = move.feed]
                            [] move.kind = "set_position" -> [m EXCEPT !.last = to]
                            [] move.kind = "rapid"        -> moved
  BY DEF Measured
<1>8. Plotted(c, move) = CASE move.kind = "set_position" -> [c EXCEPT !.at = p]
                           [] move.kind = "rapid" /\ p # c.at ->
                                [at |-> p, legs |-> Append(c.legs, drawn)]
                           [] OTHER -> c
  BY <1>5 DEF Plotted
<1>9. leg \in Legs /\ drawn \in Segments /\ leg.carriage = p.x - c.at.x /\ leg.mandrel = p.y - c.at.y
  BY <1>1, <1>3, <1>4, <1>6 DEF Leg, Legs, Segment, Segments
<1>10. moving <=> p # c.at
  BY <1>3, <1>4, <1>6, <1>9 DEF Points
<1>11. drawn.to.x - drawn.from.x = leg.carriage /\ Rise(drawn) = leg.mandrel
  BY <1>9 DEF Segment, Rise
<1>12. Measured(m, move) \in Metrics
  BY MeasuredType DEF Draws
<1> HIDE DEF to, p
<1>13. CASE move.kind \in {"comment", "set_feed"}
  <2>1. Plotted(c, move) = c
    BY <1>8, <1>13
  <2>2. Measured(m, move).last = m.last /\ Measured(m, move).legs = m.legs
    BY <1>1, <1>7, <1>13
  <2> QED BY <1>12, <2>1, <2>2 DEF Draws
<1>14. CASE move.kind = "set_position"
  <2>1. Plotted(c, move) = [at |-> p, legs |-> c.legs]
    BY <1>3, <1>8, <1>14
  <2>2. Measured(m, move).last = to /\ Measured(m, move).legs = m.legs
    BY <1>1, <1>7, <1>14
  <2>3. Plotted(c, move) \in Plots
    BY <1>3, <1>4, <2>1 DEF Plots
  <2> QED BY <1>12, <2>1, <2>2, <2>3 DEF Draws, p
<1>15. CASE move.kind = "rapid" /\ p = c.at
  <2>1. Plotted(c, move) = c
    BY <1>8, <1>15
  <2>2. Measured(m, move).last = to /\ Measured(m, move).legs = m.legs
    <3> HIDE DEF moving, leg
    <3> QED BY <1>1, <1>7, <1>10, <1>15
  <2> QED BY <1>12, <1>15, <2>1, <2>2 DEF Draws, p
<1>16. CASE move.kind = "rapid" /\ p # c.at
  <2>1. Plotted(c, move) = [at |-> p, legs |-> Append(c.legs, drawn)]
    BY <1>8, <1>16
  <2>2. Measured(m, move).last = to /\ Measured(m, move).legs = Append(m.legs, leg)
    <3> HIDE DEF moving, leg
    <3> QED BY <1>1, <1>7, <1>10, <1>16
  <2> HIDE DEF leg, drawn, moving, moved
  <2> DEFINE ds == Append(c.legs, drawn)
             ls == Append(m.legs, leg)
  <2>3. /\ ds \in Seq(Segments) /\ Len(ds) = Len(c.legs) + 1 /\ ds[Len(c.legs) + 1] = drawn
        /\ \A k \in 1..Len(c.legs) : ds[k] = c.legs[k]
    BY <1>3, <1>9
  <2>4. /\ Len(ls) = Len(m.legs) + 1 /\ ls[Len(m.legs) + 1] = leg
        /\ \A k \in 1..Len(m.legs) : ls[k] = m.legs[k]
    BY <1>1, <1>9
  <2> HIDE DEF ds, ls
  <2>5. Len(c.legs) = Len(m.legs) /\ Len(m.legs) \in Nat
    BY <1>1 DEF Draws
  <2>6. Len(ds) = Len(ls)
    BY <2>3, <2>4, <2>5
  <2>7. ASSUME NEW k \in 1..Len(ls)
        PROVE  ds[k].to.x - ds[k].from.x = ls[k].carriage /\ Rise(ds[k]) = ls[k].mandrel
    <3>1. CASE k = Len(m.legs) + 1
      BY <1>11, <2>3, <2>4, <2>5, <3>1
    <3>2. CASE k \in 1..Len(m.legs)
      BY <2>3, <2>4, <2>5, <3>2 DEF Draws
    <3> QED BY <2>4, <2>5, <3>1, <3>2
  <2>8. Plotted(c, move) = [at |-> p, legs |-> ds] /\ Plotted(c, move) \in Plots
    BY <1>4, <2>1, <2>3 DEF Plots, ds
  <2>9. Measured(m, move).legs = ls
    BY <2>2 DEF ls
  <2> QED BY <1>12, <2>2, <2>6, <2>7, <2>8, <2>9 DEF Draws, p
<1> QED BY <1>2, <1>13, <1>14, <1>15, <1>16 DEF Kinds

\* Plot and metrics of a whole program, move by move.
LEMMA PlotOfProgram ==
  ASSUME NEW moves \in Seq(Moves)
  PROVE  \E c, m : /\ Draws(c, m)
                   /\ PlotLegs(moves) = c.legs /\ NominalMetrics(moves) = m
<1> DEFINE n == Len(moves)
           D == {d \in Plots \X Metrics : Draws(d[1], d[2])}
           first == <<Unplotted, Unmeasured>>
           next(k, d) == <<Plotted(d[1], moves[k]), Measured(d[2], moves[k])>>
           step == [q \in (1..n) \X D |-> next(q[1], q[2])]
           Good(f) == f = [k \in 0..n |-> IF k = 0 THEN Unplotted
                                          ELSE Plotted(f[k - 1], moves[k])]
           F == CHOOSE f : Good(f)
<1>1. n \in Nat /\ \A k \in 1..n : moves[k] \in Moves
  OBVIOUS
<1> HIDE DEF n
<1>2. first \in D
  BY DrawsFirst DEF Draws
<1>3. ASSUME NEW k \in 1..n, NEW d \in D PROVE next(k, d) \in D
  <2>1. Draws(Plotted(d[1], moves[k]), Measured(d[2], moves[k]))
    BY <1>1, DrawsNext
  <2> QED BY <2>1 DEF Draws
<1> HIDE DEF D, first
<1>4. step \in [(1..n) \X D -> D] /\ \A k \in 1..n, d \in D : step[<<k, d>>] = next(k, d)
  <2> HIDE DEF next
  <2> QED BY <1>3
<1> HIDE DEF step
<1>5. PICK g : Recursive(g, n, D, first, step)
  BY <1>1, <1>2, <1>4, PrimitiveRecursion
<1>6. g \in [0..n -> D] /\ g[0] = first
  BY <1>5 DEF Recursive
<1>7. ASSUME NEW k \in 1..n PROVE g[k] = next(k, g[k - 1])
  <2>1. g[k - 1] \in D
    BY <1>1, <1>6
  <2>2. g[k] = step[<<k, g[k - 1]>>]
    BY <1>5 DEF Recursive
  <2> HIDE DEF next
  <2> QED BY <1>4, <2>1, <2>2
<1>8. /\ g[0][1] = Unplotted /\ g[0][2] = Unmeasured
      /\ \A k \in 1..n : /\ g[k][1] = Plotted(g[k - 1][1], moves[k])
                          /\ g[k][2] = Measured(g[k - 1][2], moves[k])
  BY <1>6, <1>7 DEF first
<1>9. Good([k \in 0..n |-> g[k][1]])
  <2> DEFINE f == [k \in 0..n |-> g[k][1]]
  <2>1. ASSUME NEW k \in 0..n
        PROVE  f[k] = IF k = 0 THEN Unplotted ELSE Plotted(f[k - 1], moves[k])
    <3>1. CASE k = 0
      BY <1>8, <3>1
    <3>2. CASE k # 0
      <4>1. k \in 1..n /\ k - 1 \in 0..n
        BY <1>1, <3>2
      <4> QED BY <1>8, <3>2, <4>1
    <3> QED BY <3>1, <3>2
  <2>2. f = [k \in 0..n |-> f[k]]
    OBVIOUS
  <2> HIDE DEF f
  <2>3. f = [k \in 0..n |-> IF k = 0 THEN Unplotted ELSE Plotted(f[k - 1], moves[k])]
    BY <2>1, <2>2
  <2>4. Good(f)
    BY <2>3
  <2> HIDE DEF Good
  <2> QED BY <2>4 DEF f
<1>10. Good(F)
  BY <1>9
<1>11. PlotLegs(moves) = F[n].legs
  BY DEF PlotLegs, n
<1> HIDE DEF F
<1>12. \A k \in 0..n : F[k] = IF k = 0 THEN Unplotted ELSE Plotted(F[k - 1], moves[k])
  BY <1>10
<1>13. PICK h : Metering(h, moves) /\ NominalMetrics(moves) = h[n]
  BY MetricsFold DEF n
<1> DEFINE I == {k \in Nat : k =< n => F[k] = g[k][1] /\ h[k] = g[k][2]}
<1>14. 0 \in I
  BY <1>1, <1>8, <1>12, <1>13 DEF Metering
<1>15. ASSUME NEW k \in Nat, k \in I PROVE k + 1 \in I
  <2> SUFFICES ASSUME k + 1 =< n PROVE F[k + 1] = g[k + 1][1] /\ h[k + 1] = g[k + 1][2]
    OBVIOUS
  <2>1. k + 1 \in 1..n /\ k + 1 \in 0..n /\ (k + 1) - 1 = k /\ k + 1 # 0
    BY <1>1
  <2>2. F[k + 1] = Plotted(F[k], moves[k + 1])
    BY <1>12, <2>1
  <2>3. h[k + 1] = Measured(h[k], moves[k + 1])
    BY <1>13, <2>1 DEF Metering, n
  <2>4. /\ g[k + 1][1] = Plotted(g[k][1], moves[k + 1])
        /\ g[k + 1][2] = Measured(g[k][2], moves[k + 1])
    BY <1>8, <2>1
  <2>5. F[k] = g[k][1] /\ h[k] = g[k][2]
    BY <1>1, <1>15, <2>1
  <2> QED BY <2>2, <2>3, <2>4, <2>5
<1> HIDE DEF I
<1>16. Nat \subseteq I
  BY <1>14, <1>15, SetInduction
<1>17. F[n] = g[n][1] /\ h[n] = g[n][2]
  BY <1>1, <1>16 DEF I
<1>18. Draws(g[n][1], g[n][2])
  BY <1>1, <1>6 DEF D
<1> QED BY <1>11, <1>13, <1>17, <1>18

-----------------------------------------------------------------------------
(* Splitting a leg where it crosses the seam *)

\* The parts of SplitSegment.
Upwards(start, end) == end.y > start.y
Edge(start, end) == (Band(start.y) + (IF Upwards(start, end) THEN 1 ELSE 0)) * Revolution
CrossX(start, end) ==
  start.x + (Length(start.y, Edge(start, end)) * (end.x - start.x)) \div Length(start.y, end.y)
Exit(start, end) ==
  [x |-> CrossX(start, end), y |-> IF Upwards(start, end) THEN Revolution ELSE 0]
Beyond(start, end) ==
  [x |-> CrossX(start, end),
   y |-> IF Upwards(start, end) THEN Edge(start, end) + Seam ELSE Edge(start, end) - Seam]

Splitting(f, end) ==
  f = [start \in [x : Int, y : Int] |->
         IF Band(start.y) = Band(end.y)
           THEN <<Segment(Wrap(start), Wrap(end))>>
           ELSE <<Segment(Wrap(start), Exit(start, end))>> \o f[Beyond(start, end)]]

RevolutionType == Revolution \in Nat \ {0} /\ Seam \in Nat /\ Seam >= 1 /\ Seam =< Revolution - 1

LEMMA UnitsType == RevolutionType
BY UnitsAssumption, SeamAssumption DEF RevolutionType

\* The band of an angle, and where the angle is in it.
LEMMA BandMeans ==
  ASSUME NEW y \in Int
  PROVE  /\ Band(y) \in Int /\ y % Revolution \in 0..(Revolution - 1)
         /\ y = Band(y) * Revolution + (y % Revolution)
<1>1. Revolution \in Nat \ {0}
  BY UnitsType DEF RevolutionType
<1>2. /\ y \div Revolution \in Int /\ y % Revolution \in 0..(Revolution - 1)
      /\ y = Revolution * (y \div Revolution) + (y % Revolution)
  BY <1>1, Division
<1> DEFINE b == y \div Revolution
<1> HIDE DEF b
<1>3. b \in Int => Revolution * b = b * Revolution
  BY <1>1
<1> QED BY <1>2, <1>3 DEF Band, b

LEMMA BandOf ==
  ASSUME NEW b \in Int, NEW r \in 0..(Revolution - 1) PROVE Band(b * Revolution + r) = b
<1>1. Revolution \in Nat \ {0}
  BY UnitsType DEF RevolutionType
<1>2. Revolution * b + r = b * Revolution + r
  BY <1>1
<1> QED BY <1>1, <1>2, Quotient DEF Band

\* A higher band is a higher angle.
LEMMA BandsInOrder ==
  ASSUME NEW y \in Int, NEW z \in Int, Band(y) < Band(z)
  PROVE  y < (Band(y) + 1) * Revolution /\ (Band(y) + 1) * Revolution =< z
<1> DEFINE a == Band(y)
           b == Band(z)
<1>1. /\ a \in Int /\ b \in Int /\ a < b /\ Revolution \in Nat \ {0}
      /\ y % Revolution \in 0..(Revolution - 1) /\ y = a * Revolution + (y % Revolution)
      /\ z % Revolution \in 0..(Revolution - 1) /\ z = b * Revolution + (z % Revolution)
  BY BandMeans, UnitsType DEF RevolutionType
<1> HIDE DEF a, b
<1>2. (a + 1) * Revolution = a * Revolution + Revolution
  BY <1>1
<1>3. b * Revolution >= (a + 1) * Revolution
  <2>1. (b - (a + 1)) * Revolution >= 0
    BY <1>1
  <2>2. (b - (a + 1)) * Revolution = b * Revolution - (a + 1) * Revolution
    BY <1>1
  <2>3. b * Revolution \in Int /\ (a + 1) * Revolution \in Int
    BY <1>1
  <2> QED BY <2>1, <2>2, <2>3
<1>4. a * Revolution \in Int /\ b * Revolution \in Int
  BY <1>1
<1> QED BY <1>1, <1>2, <1>3, <1>4 DEF a

\* A leg that leaves the band: the edge it crosses, and the start of the rest one
\* band nearer to its end.
LEMMA LeavesBand ==
  ASSUME NEW start \in Points, NEW end \in Points, Band(start.y) # Band(end.y)
  PROVE  /\ Edge(start, end) \in Int /\ CrossX(start, end) \in Int
         /\ Beyond(start, end) \in Points
         /\ Upwards(start, end) => /\ Band(start.y) < Band(end.y)
                                   /\ Edge(start, end) = (Band(start.y) + 1) * Revolution
                                   /\ Band(Beyond(start, end).y) = Band(start.y) + 1
                                   /\ start.y < Edge(start, end) /\ Edge(start, end) =< end.y
         /\ ~Upwards(start, end) => /\ Band(end.y) < Band(start.y)
                                    /\ Edge(start, end) = Band(start.y) * Revolution
                                    /\ Band(Beyond(start, end).y) = Band(start.y) - 1
                                    /\ end.y < Edge(start, end) /\ Edge(start, end) =< start.y
<1> DEFINE y == start.y
           z == end.y
           a == Band(y)
           b == Band(z)
           edge == Edge(start, end)
<1>1. /\ y \in Int /\ z \in Int /\ start.x \in Int /\ end.x \in Int
      /\ a \in Int /\ b \in Int /\ a # b
  BY BandMeans DEF Points
<1>2. /\ Revolution \in Nat \ {0} /\ Seam \in 0..(Revolution - 1) /\ Seam >= 1
      /\ Revolution - Seam \in 0..(Revolution - 1)
  BY UnitsType DEF RevolutionType
<1>3. a < b => y < (a + 1) * Revolution /\ (a + 1) * Revolution =< z
  BY <1>1, BandsInOrder
<1>4. b < a => z < a * Revolution /\ a * Revolution =< y
  <2> SUFFICES ASSUME b < a PROVE z < a * Revolution /\ a * Revolution =< y
    OBVIOUS
  <2>1. z < (b + 1) * Revolution /\ (b + 1) * Revolution =< y
    BY <1>1, BandsInOrder
  <2>2. (b + 1) * Revolution =< a * Revolution
    <3>1. (a - (b + 1)) * Revolution >= 0
      <4> HIDE DEF a, b
      <4> QED BY <1>1, <1>2
    <3>2. (a - (b + 1)) * Revolution = a * Revolution - (b + 1) * Revolution
      <4> HIDE DEF a, b
      <4> QED BY <1>1, <1>2
    <3>3. a * Revolution \in Int /\ (b + 1) * Revolution \in Int
      <4> HIDE DEF a, b
      <4> QED BY <1>1, <1>2
    <3> QED BY <3>1, <3>2, <3>3
  <2>3. a * Revolution =< y
    <3>1. y % Revolution \in 0..(Revolution - 1) /\ y = a * Revolution + (y % Revolution)
      BY <1>1, BandMeans
    <3>2. a * Revolution \in Int
      <4> HIDE DEF a
      <4> QED BY <1>1, <1>2
    <3> HIDE DEF a
    <3> QED BY <1>1, <1>2, <3>1, <3>2
  <2>4. (b + 1) * Revolution \in Int /\ a * Revolution \in Int
    <3> HIDE DEF a, b
    <3> QED BY <1>1, <1>2
  <2> QED BY <1>1, <2>1, <2>2, <2>3, <2>4
<1>5. a * Revolution \in Int /\ (a + 1) * Revolution \in Int
  <2> HIDE DEF a
  <2> QED BY <1>1, <1>2
<1>6. z > y => a < b
  BY <1>1, <1>4, <1>5
<1>7. ~(z > y) => b < a
  BY <1>1, <1>3, <1>5
<1>8. edge = IF z > y THEN (a + 1) * Revolution ELSE a * Revolution
  BY <1>1 DEF Edge, Upwards
<1>9. edge \in Int
  BY <1>5, <1>8
<1>10. CrossX(start, end) \in Int
  <2> DEFINE l == Length(y, edge)
             d == Length(y, z)
  <2>1. l \in Int /\ d \in Nat \ {0} /\ end.x - start.x \in Int
    <3>1. y # z
      BY <1>1
    <3>2. d \in Nat \ {0}
      <4> HIDE DEF y, z
      <4> QED BY <1>1, <3>1 DEF Length
    <3>3. l \in Int
      <4> HIDE DEF y, edge
      <4> QED BY <1>1, <1>9 DEF Length
    <3> QED BY <1>1, <3>2, <3>3
  <2> HIDE DEF l, d
  <2> DEFINE k == l * (end.x - start.x)
  <2>2. k \in Int
    BY <2>1
  <2> HIDE DEF k
  <2>3. k \div d \in Int
    BY <2>1, <2>2, Division
  <2> QED BY <1>1, <2>3 DEF CrossX, k, l, d
<1>11. Beyond(start, end) \in Points
  BY <1>2, <1>9, <1>10 DEF Beyond, Points
<1>12. ASSUME z > y PROVE Band(Beyond(start, end).y) = a + 1
  <2>1. Beyond(start, end).y = (a + 1) * Revolution + Seam
    BY <1>8, <1>12 DEF Beyond, Upwards
  <2>2. a + 1 \in Int
    BY <1>1
  <2>3. Band((a + 1) * Revolution + Seam) = a + 1
    <3> HIDE DEF a
    <3> QED BY <1>2, <2>2, BandOf
  <2> QED BY <2>1, <2>3
<1>13. ASSUME ~(z > y) PROVE Band(Beyond(start, end).y) = a - 1
  <2>1. Beyond(start, end).y = a * Revolution - Seam
    BY <1>8, <1>13 DEF Beyond, Upwards
  <2>2. a * Revolution - Seam = (a - 1) * Revolution + (Revolution - Seam)
    <3> HIDE DEF a
    <3> QED BY <1>1, <1>2
  <2>3. a - 1 \in Int
    BY <1>1
  <2>4. Band((a - 1) * Revolution + (Revolution - Seam)) = a - 1
    BY <1>2, <2>3, BandOf
  <2> QED BY <2>1, <2>2, <2>4
<1>14. CASE z > y
  <2>1. Upwards(start, end)
    BY <1>14 DEF Upwards
  <2> QED BY <1>3, <1>6, <1>8, <1>9, <1>10, <1>11, <1>12, <1>14, <2>1
<1>15. CASE ~(z > y)
  <2>1. ~Upwards(start, end)
    BY <1>15 DEF Upwards
  <2> QED BY <1>4, <1>7, <1>8, <1>9, <1>10, <1>11, <1>13, <1>15, <2>1
<1> QED BY <1>14, <1>15

\* How many bands apart.
Apart(p, end) == Length(Band(p.y), Band(end.y))

LEMMA ApartLess ==
  ASSUME NEW start \in Points, NEW end \in Points
  PROVE  /\ Apart(start, end) \in Nat
         /\ Apart(start, end) = 0 <=> Band(start.y) = Band(end.y)
         /\ Apart(start, end) # 0 => Apart(Beyond(start, end), end) = Apart(start, end) - 1
<1>1. Band(start.y) \in Int /\ Band(end.y) \in Int
  BY BandMeans DEF Points
<1>2. CASE Band(start.y) = Band(end.y)
  BY <1>1, <1>2 DEF Apart, Length
<1>3. CASE Band(start.y) # Band(end.y)
  <2> DEFINE a == Band(start.y)
             b == Band(end.y)
             c == Band(Beyond(start, end).y)
  <2>1. (a < b /\ c = a + 1) \/ (b < a /\ c = a - 1)
    BY <1>3, LeavesBand
  <2>2. Apart(start, end) = Length(a, b) /\ Apart(Beyond(start, end), end) = Length(c, b)
    BY DEF Apart
  <2> HIDE DEF a, b, c
  <2>3. a \in Int /\ b \in Int
    BY <1>1 DEF a, b
  <2>4. a # b /\ (Band(start.y) = Band(end.y) <=> a = b)
    BY <1>3 DEF a, b
  <2> QED BY <2>1, <2>2, <2>3, <2>4 DEF Length
<1> QED BY <1>2, <1>3

\* What the pieces rise together.
Rising(g, pieces) ==
  /\ g \in [0..Len(pieces) -> Int] /\ g[0] = 0
  /\ \A k \in 1..Len(pieces) : g[k] = g[k - 1] + Rise(pieces[k])

LEMMA RiseType == ASSUME NEW s \in Segments PROVE Rise(s) \in Int
<1>1. s.to.y \in Int /\ s.from.y \in Int
  BY DEF Segments, Points
<1> QED BY <1>1 DEF Rise

LEMMA RiseFold ==
  ASSUME NEW pieces \in Seq(Segments)
  PROVE  \E g : Rising(g, pieces) /\ TotalRise(pieces) = g[Len(pieces)]
<1> DEFINE n == Len(pieces)
           step == [p \in (1..n) \X Int |-> p[2] + Rise(pieces[p[1]])]
           Good(g) == g = [k \in 0..n |-> IF k = 0 THEN 0 ELSE g[k - 1] + Rise(pieces[k])]
           G == CHOOSE g : Good(g)
<1>1. n \in Nat /\ \A k \in 1..n : Rise(pieces[k]) \in Int
  BY RiseType
<1> HIDE DEF n
<1>2. step \in [(1..n) \X Int -> Int]
  BY <1>1
<1>3. \A k \in 1..n, m \in Int : step[<<k, m>>] = m + Rise(pieces[k])
  OBVIOUS
<1> HIDE DEF step
<1>4. PICK g : Recursive(g, n, Int, 0, step)
  <2>1. 0 \in Int
    OBVIOUS
  <2> QED BY <1>1, <1>2, <2>1, PrimitiveRecursion
<1>5. g \in [0..n -> Int] /\ g[0] = 0
  BY <1>4 DEF Recursive
<1>6. \A k \in 1..n : g[k] = g[k - 1] + Rise(pieces[k])
  <2> SUFFICES ASSUME NEW k \in 1..n PROVE g[k] = g[k - 1] + Rise(pieces[k])
    OBVIOUS
  <2>1. g[k - 1] \in Int
    BY <1>1, <1>5
  <2>2. g[k] = step[<<k, g[k - 1]>>]
    BY <1>4 DEF Recursive
  <2> QED BY <1>3, <2>1, <2>2
<1>7. Good(g)
  <2>1. \A k \in 0..n : g[k] = IF k = 0 THEN 0 ELSE g[k - 1] + Rise(pieces[k])
    BY <1>1, <1>5, <1>6
  <2> QED BY <1>5, <2>1
<1>8. Good(G)
  BY <1>7
<1>9. TotalRise(pieces) = G[n]
  BY DEF TotalRise, n
<1> HIDE DEF G
<1>10. /\ G[0] = 0
       /\ \A k \in 1..n : G[k] = G[k - 1] + Rise(pieces[k])
  <2>1. \A k \in 0..n : G[k] = IF k = 0 THEN 0 ELSE G[k - 1] + Rise(pieces[k])
    BY <1>8
  <2> QED BY <1>1, <2>1
<1> DEFINE I == {k \in Nat : k =< n => G[k] = g[k]}
<1>11. 0 \in I
  BY <1>5, <1>10
<1>12. ASSUME NEW k \in Nat, k \in I PROVE k + 1 \in I
  <2> SUFFICES ASSUME k + 1 =< n PROVE G[k + 1] = g[k + 1]
    OBVIOUS
  <2>1. k + 1 \in 1..n /\ (k + 1) - 1 = k /\ G[k] = g[k]
    BY <1>1, <1>12
  <2> QED BY <1>6, <1>10, <2>1
<1> HIDE DEF I
<1>13. Nat \subseteq I
  BY <1>11, <1>12, SetInduction
<1>14. G[n] = g[n]
  BY <1>1, <1>13 DEF I
<1> QED BY <1>5, <1>6, <1>9, <1>14 DEF Rising, n

LEMMA RiseOfMore ==
  ASSUME NEW e \in Segments, NEW s \in Seq(Segments)
  PROVE  /\ TotalRise(s) \in Int /\ TotalRise(<<e>> \o s) = Rise(e) + TotalRise(s)
         /\ TotalRise(<<e>>) = Rise(e)
<1> DEFINE more == <<e>> \o s
<1>1. /\ more \in Seq(Segments) /\ Len(more) = Len(s) + 1 /\ more[1] = e /\ Len(s) \in Nat
      /\ \A k \in 1..Len(s) : more[k + 1] = s[k]
      /\ Rise(e) \in Int
  BY RiseType
<1> HIDE DEF more
<1>2. PICK g : Rising(g, s) /\ TotalRise(s) = g[Len(s)]
  BY RiseFold
<1>3. PICK h : Rising(h, more) /\ TotalRise(more) = h[Len(more)]
  BY <1>1, RiseFold
<1> DEFINE I == {k \in Nat : k =< Len(s) => h[k + 1] = Rise(e) + g[k]}
<1>4. 0 \in I
  <2>1. h[1] = h[1 - 1] + Rise(more[1]) /\ h[0] = 0 /\ g[0] = 0 /\ 1 - 1 = 0
    BY <1>1, <1>2, <1>3 DEF Rising
  <2> QED BY <1>1, <2>1
<1>5. ASSUME NEW k \in Nat, k \in I PROVE k + 1 \in I
  <2> SUFFICES ASSUME k + 1 =< Len(s) PROVE h[(k + 1) + 1] = Rise(e) + g[k + 1]
    OBVIOUS
  <2>1. k + 1 \in 1..Len(s) /\ (k + 1) - 1 = k /\ (k + 1) + 1 \in 1..Len(more)
        /\ ((k + 1) + 1) - 1 = k + 1 /\ h[k + 1] = Rise(e) + g[k]
    BY <1>1, <1>5
  <2>2. g[k + 1] = g[k] + Rise(s[k + 1])
    BY <1>2, <2>1 DEF Rising
  <2>3. h[(k + 1) + 1] = h[k + 1] + Rise(s[k + 1])
    BY <1>1, <1>3, <2>1 DEF Rising
  <2>4. g[k] \in Int /\ Rise(s[k + 1]) \in Int
    <3>1. s[k + 1] \in Segments /\ k \in 0..Len(s)
      BY <2>1
    <3> QED BY <1>2, <3>1, RiseType DEF Rising
  <2> QED BY <1>1, <2>1, <2>2, <2>3, <2>4
<1> HIDE DEF I
<1>6. Nat \subseteq I
  BY <1>4, <1>5, SetInduction
<1>7. h[Len(s) + 1] = Rise(e) + g[Len(s)]
  BY <1>1, <1>6 DEF I
<1>8. g[Len(s)] \in Int
  BY <1>1, <1>2 DEF Rising
<1>9. TotalRise(<<e>>) = Rise(e)
  <2> DEFINE one == <<e>>
  <2>1. one \in Seq(Segments) /\ Len(one) = 1 /\ one[1] = e
    OBVIOUS
  <2> HIDE DEF one
  <2>2. PICK f : Rising(f, one) /\ TotalRise(one) = f[Len(one)]
    BY <2>1, RiseFold
  <2>3. f[1] = f[1 - 1] + Rise(one[1]) /\ f[0] = 0
    BY <2>1, <2>2 DEF Rising
  <2>4. TotalRise(one) = Rise(e)
    BY <1>1, <2>1, <2>2, <2>3
  <2> QED BY <2>4 DEF one
<1> QED BY <1>1, <1>2, <1>3, <1>7, <1>8, <1>9 DEF more

\* The pieces begin beside the seam, end at the side they leave by, and the last of
\* them does not reach it.
Sides(p, s, end, n) ==
  /\ \A i \in 1..(n + 1) : s[i].from.y # Revolution
  /\ s[n + 1].to.y # Revolution
  /\ \A i \in 1..n : s[i].to.y = IF Upwards(p, end) THEN Revolution ELSE 0

\* What the pieces of a leg are, n cuts from its end.
Pieces(p, s, end, n) ==
  /\ s \in Seq(Segments) /\ Len(s) = n + 1
  /\ s[1].from.x = p.x /\ s[n + 1].to.x = end.x
  /\ \A i \in 1..n : s[i].to.x = s[i + 1].from.x
  /\ \A i \in 1..(n + 1) : s[i].from.y \in 0..Revolution /\ s[i].to.y \in 0..Revolution
  /\ \A i \in 1..(n + 1) :
       Length(s[i].from.y, s[i].to.y) =< Length(p.y, end.y) + (IF n = 0 THEN 0 ELSE Seam)
  /\ end.y - p.y = IF Upwards(p, end) THEN TotalRise(s) + n * Seam ELSE TotalRise(s) - n * Seam
  /\ Sides(p, s, end, n)

\* The first of the pieces, or the only one.
LEMMA LastPiece ==
  ASSUME NEW start \in Points, NEW end \in Points, Band(start.y) = Band(end.y)
  PROVE  Pieces(start, <<Segment(Wrap(start), Wrap(end))>>, end, 0)
<1> DEFINE y == start.y
           z == end.y
           u == y % Revolution
           v == z % Revolution
           e == Segment(Wrap(start), Wrap(end))
<1>1. /\ y \in Int /\ z \in Int /\ start.x \in Int /\ end.x \in Int
  BY DEF Points
<1>2. /\ Band(y) \in Int /\ Revolution \in Nat \ {0} /\ Seam \in Nat
      /\ u \in 0..(Revolution - 1) /\ v \in 0..(Revolution - 1)
  BY <1>1, BandMeans, UnitsType DEF RevolutionType
<1>3. y = Band(y) * Revolution + u /\ z = Band(y) * Revolution + v
  BY <1>1, BandMeans
<1>4. /\ e.from = [x |-> start.x, y |-> u] /\ e.to = [x |-> end.x, y |-> v]
      /\ e = [from |-> e.from, to |-> e.to]
  BY <1>1 DEF Segment, Wrap, Points
<1> HIDE DEF e
<1>5. e \in Segments
  BY <1>1, <1>2, <1>4 DEF Segments, Points
<1>6. z - y = v - u
  <2> DEFINE base == Band(y) * Revolution
  <2>1. base \in Int
    BY <1>2
  <2>2. y = base + u /\ z = base + v
    BY <1>3
  <2> HIDE DEF base, y, z, u, v
  <2> QED BY <1>2, <2>1, <2>2
<1>7. Length(u, v) = Length(y, z)
  <2> HIDE DEF u, v, y, z
  <2> QED BY <1>1, <1>2, <1>6 DEF Length
<1>8. TotalRise(<<e>>) = v - u
  <2>1. TotalRise(<<e>>) = Rise(e)
    BY <1>5, EmptySeq, RiseOfMore
  <2> QED BY <1>4, <2>1 DEF Rise
<1> DEFINE s == <<e>>
<1>9. s \in Seq(Segments) /\ Len(s) = 1 /\ s[1] = e
  BY <1>5
<1>10. 0 * Seam = 0 /\ 0 + 1 = 1
  BY <1>2
<1>11. /\ \A i \in 1..(0 + 1) : s[i] = e
       /\ e.from.x = start.x /\ e.to.x = end.x /\ e.from.y = u /\ e.to.y = v
  BY <1>4, <1>9
<1> HIDE DEF s
<1>12. Length(u, v) =< Length(y, z) + (IF 0 = 0 THEN 0 ELSE Seam)
  <2> HIDE DEF u, v, y, z
  <2> QED BY <1>1, <1>2, <1>7 DEF Length
<1>13. /\ TotalRise(s) = end.y - start.y /\ end.y - start.y \in Int
  BY <1>1, <1>6, <1>8 DEF s
<1>14. end.y - start.y = IF Upwards(start, end) THEN TotalRise(s) + 0 * Seam
                                               ELSE TotalRise(s) - 0 * Seam
  <2> DEFINE d == end.y - start.y
  <2> HIDE DEF d
  <2> QED BY <1>10, <1>13 DEF d
<1>15. u \in 0..Revolution /\ v \in 0..Revolution
  BY <1>2
<1>16. Sides(start, s, end, 0)
  <2>1. u # Revolution /\ v # Revolution
    BY <1>2
  <2> QED BY <1>10, <1>11, <2>1 DEF Sides
<1>17. Pieces(start, s, end, 0)
  BY <1>9, <1>10, <1>11, <1>12, <1>14, <1>15, <1>16 DEF Pieces
<1> QED BY <1>17 DEF s, e

\* The piece up to the edge, by the numbers.
LEMMA FirstPiece ==
  ASSUME NEW start \in Points, NEW end \in Points, Band(start.y) # Band(end.y)
  PROVE  LET e == Segment(Wrap(start), Exit(start, end))
         IN /\ e \in Segments /\ e.from.x = start.x /\ e.to.x = Beyond(start, end).x
            /\ e.from.y \in 0..Revolution /\ e.to.y \in 0..Revolution
            /\ Rise(e) = Edge(start, end) - start.y
            /\ e.from.y # Revolution
            /\ e.to.y = IF Upwards(start, end) THEN Revolution ELSE 0
<1> DEFINE y == start.y
           u == y % Revolution
           edge == Edge(start, end)
           e == Segment(Wrap(start), Exit(start, end))
           to == Exit(start, end)
<1>1. /\ y \in Int /\ start.x \in Int /\ Band(y) \in Int /\ Revolution \in Nat \ {0}
      /\ u \in 0..(Revolution - 1) /\ y = Band(y) * Revolution + u
  BY BandMeans, UnitsType DEF Points, RevolutionType
<1>2. CrossX(start, end) \in Int
  BY LeavesBand
<1>3. /\ to.x = CrossX(start, end) /\ to = [x |-> to.x, y |-> to.y]
      /\ to.y = IF Upwards(start, end) THEN Revolution ELSE 0
      /\ Beyond(start, end).x = CrossX(start, end)
  BY DEF Exit, Beyond
<1>4. to \in Points /\ to.y \in 0..Revolution
  <2>1. to.y \in 0..Revolution
    BY <1>1, <1>3
  <2> HIDE DEF to
  <2> QED BY <1>1, <1>2, <1>3, <2>1 DEF Points
<1>5. e.from = [x |-> start.x, y |-> u] /\ e.to = to /\ e = [from |-> e.from, to |-> e.to]
  BY <1>1 DEF Segment, Wrap, Points
<1> HIDE DEF e, to
<1>6. e \in Segments
  BY <1>1, <1>4, <1>5 DEF Segments, Points
<1>7. to.y - u = edge - y
  <2> DEFINE base == Band(y) * Revolution
  <2>1. base \in Int
    BY <1>1
  <2>2. (Band(y) + 1) * Revolution = base + Revolution
    <3> HIDE DEF y
    <3> QED BY <1>1
  <2>3. y = base + u
    BY <1>1
  <2>4. edge = IF Upwards(start, end) THEN base + Revolution ELSE base
    BY <2>2, LeavesBand
  <2> HIDE DEF base, edge, u, y
  <2> QED BY <1>1, <1>3, <2>1, <2>3, <2>4
<1>8. Rise(e) = to.y - u
  BY <1>5 DEF Rise
<1>9. u \in 0..Revolution /\ u # Revolution
  BY <1>1
<1> QED BY <1>3, <1>4, <1>5, <1>6, <1>7, <1>8, <1>9 DEF e

\* How the lengths of the rest compare, and what it rises.
LEMMA RestIsNearer ==
  ASSUME NEW start \in Points, NEW end \in Points, NEW n \in Nat,
         Apart(start, end) = n + 1
  PROVE  LET rest == Beyond(start, end)
             edge == Edge(start, end)
         IN /\ Length(rest.y, end.y) + (IF n = 0 THEN 0 ELSE Seam)
                 =< Length(start.y, end.y) + Seam
            /\ edge - start.y = IF Upwards(start, end) THEN (rest.y - start.y) - Seam
                                                       ELSE (rest.y - start.y) + Seam
            /\ Length(start.y, edge) =< Length(start.y, end.y)
            /\ n # 0 => (Upwards(start, end) <=> Upwards(rest, end))
<1> DEFINE y == start.y
           z == end.y
           edge == Edge(start, end)
           r == Beyond(start, end).y
           a == Band(r)
           b == Band(z)
           up == Upwards(start, end)
<1>1. Band(start.y) # Band(end.y) /\ Apart(start, end) # 0
  BY ApartLess
<1>2. y \in Int /\ z \in Int /\ edge \in Int /\ r \in Int /\ a \in Int /\ b \in Int
  BY <1>1, LeavesBand, BandMeans DEF Points
<1>3. Seam \in Nat /\ Revolution \in Nat \ {0} /\ Seam =< Revolution - 1
  BY UnitsType DEF RevolutionType
<1>4. r = IF up THEN edge + Seam ELSE edge - Seam
  BY DEF Beyond
<1>5. /\ up => y < edge /\ edge =< z /\ a =< b
      /\ ~up => z < edge /\ edge =< y /\ b =< a
      /\ up <=> z > y
  BY <1>1, <1>2, LeavesBand, BandMeans DEF Upwards, Points
<1>6. n # 0 => a # b
  <2>1. Apart(Beyond(start, end), end) = n
    BY <1>1, ApartLess
  <2>2. Beyond(start, end) \in Points
    BY <1>1, LeavesBand
  <2> QED BY <2>1, <2>2, ApartLess
<1>7. a < b => r < z
  <2>1. a < b => r < (a + 1) * Revolution /\ (a + 1) * Revolution =< z
    BY <1>2, BandsInOrder
  <2>2. a \in Int /\ (a + 1) * Revolution \in Int
    <3> HIDE DEF a
    <3> QED BY <1>2, <1>3
  <2> HIDE DEF a, r, z
  <2> QED BY <1>2, <2>1, <2>2
<1>8. b < a => z < r
  <2>1. b < a => z < (b + 1) * Revolution /\ (b + 1) * Revolution =< r
    BY <1>2, BandsInOrder
  <2>2. (b + 1) * Revolution \in Int
    <3> HIDE DEF b
    <3> QED BY <1>2, <1>3
  <2> HIDE DEF b, r, z
  <2> QED BY <1>2, <2>1, <2>2
<1>9. Upwards(Beyond(start, end), end) <=> z > r
  BY DEF Upwards
<1> HIDE DEF y, z, edge, r, a, b, up
<1>10. n # 0 => (up <=> z > r)
  BY <1>2, <1>5, <1>6, <1>7, <1>8
<1>11. Length(y, edge) =< Length(y, z)
  BY <1>2, <1>5 DEF Length
<1>12. edge - y = IF up THEN (r - y) - Seam ELSE (r - y) + Seam
  BY <1>2, <1>3, <1>4
<1>13. Length(r, z) + (IF n = 0 THEN 0 ELSE Seam) =< Length(y, z) + Seam
  <2>1. CASE n = 0
    BY <1>2, <1>3, <1>4, <1>5, <2>1 DEF Length
  <2>2. CASE n # 0
    BY <1>2, <1>3, <1>4, <1>5, <1>10, <2>2 DEF Length
  <2> QED BY <2>1, <2>2
<1> QED BY <1>9, <1>10, <1>11, <1>12, <1>13 DEF y, z, edge, r, up

LEMMA NextPiece ==
  ASSUME NEW start \in Points, NEW end \in Points, NEW n \in Nat,
         Apart(start, end) = n + 1,
         NEW s, Pieces(Beyond(start, end), s, end, n)
  PROVE  Pieces(start, <<Segment(Wrap(start), Exit(start, end))>> \o s, end, n + 1)
<1> DEFINE e == Segment(Wrap(start), Exit(start, end))
           t == <<e>> \o s
           rest == Beyond(start, end)
           edge == Edge(start, end)
<1>1. Band(start.y) # Band(end.y) /\ Apart(start, end) # 0
  BY ApartLess
<1>2. /\ e \in Segments /\ e.from.x = start.x /\ e.to.x = rest.x
      /\ e.from.y \in 0..Revolution /\ e.to.y \in 0..Revolution
      /\ Rise(e) = edge - start.y /\ e.from.y # Revolution
      /\ e.to.y = IF Upwards(start, end) THEN Revolution ELSE 0
  BY <1>1, FirstPiece
<1>3. /\ Length(rest.y, end.y) + (IF n = 0 THEN 0 ELSE Seam) =< Length(start.y, end.y) + Seam
      /\ edge - start.y = IF Upwards(start, end) THEN (rest.y - start.y) - Seam
                                                 ELSE (rest.y - start.y) + Seam
      /\ Length(start.y, edge) =< Length(start.y, end.y)
      /\ n # 0 => (Upwards(start, end) <=> Upwards(rest, end))
  BY RestIsNearer
<1>4. rest \in Points /\ edge \in Int
  BY <1>1, LeavesBand
<1>5. /\ s \in Seq(Segments) /\ Len(s) = n + 1
      /\ s[1].from.x = rest.x /\ s[n + 1].to.x = end.x
      /\ \A i \in 1..n : s[i].to.x = s[i + 1].from.x
      /\ \A i \in 1..(n + 1) : s[i].from.y \in 0..Revolution /\ s[i].to.y \in 0..Revolution
      /\ \A i \in 1..(n + 1) :
           Length(s[i].from.y, s[i].to.y) =< Length(rest.y, end.y) + (IF n = 0 THEN 0 ELSE Seam)
      /\ end.y - rest.y = IF Upwards(rest, end) THEN TotalRise(s) + n * Seam
                                                ELSE TotalRise(s) - n * Seam
      /\ Sides(rest, s, end, n)
  BY DEF Pieces
<1>6. /\ start.y \in Int /\ end.y \in Int /\ rest.y \in Int
      /\ Seam \in Nat /\ Revolution \in Nat \ {0}
  BY <1>4, UnitsType DEF Points, RevolutionType
<1> HIDE DEF e, rest, edge
<1>7. /\ t \in Seq(Segments) /\ Len(t) = n + 2 /\ t[1] = e
      /\ \A i \in 1..(n + 1) : t[i + 1] = s[i]
  BY <1>2, <1>5
<1>8. TotalRise(t) = Rise(e) + TotalRise(s) /\ TotalRise(s) \in Int
  BY <1>2, <1>5, RiseOfMore
<1> HIDE DEF t
<1>9. ASSUME NEW i \in 1..(n + 2)
      PROVE  i = 1 \/ \E j \in 1..(n + 1) : i = j + 1 /\ t[i] = s[j]
  <2>1. CASE i # 1
    <3>1. i - 1 \in 1..(n + 1) /\ i = (i - 1) + 1
      BY <2>1
    <3>2. t[(i - 1) + 1] = s[i - 1]
      BY <1>7, <3>1
    <3> QED BY <3>1, <3>2
  <2> QED BY <2>1
<1>10. t[1].from.x = start.x /\ t[n + 2].to.x = end.x
  <2>1. t[(n + 1) + 1] = s[n + 1] /\ (n + 1) + 1 = n + 2
    BY <1>7
  <2> QED BY <1>2, <1>5, <1>7, <2>1
<1>11. ASSUME NEW i \in 1..(n + 1) PROVE t[i].to.x = t[i + 1].from.x
  <2>1. t[i + 1] = s[i]
    BY <1>7
  <2>2. CASE i = 1
    BY <1>2, <1>5, <1>7, <2>1, <2>2
  <2>3. CASE i # 1
    <3>1. i - 1 \in 1..n /\ i - 1 \in 1..(n + 1) /\ (i - 1) + 1 = i
      BY <2>3
    <3>2. t[i] = s[i - 1]
      BY <1>7, <3>1
    <3> QED BY <1>5, <2>1, <3>1, <3>2
  <2> QED BY <2>2, <2>3
<1>12. ASSUME NEW i \in 1..(n + 2)
       PROVE  /\ t[i].from.y \in 0..Revolution /\ t[i].to.y \in 0..Revolution
              /\ Length(t[i].from.y, t[i].to.y) =< Length(start.y, end.y) + Seam
  <2>1. CASE i = 1
    <3>1. Length(e.from.y, e.to.y) = Length(start.y, edge)
      <4>1. e.to.y - e.from.y = edge - start.y
        BY <1>2 DEF Rise
      <4>2. e.to.y \in Int /\ e.from.y \in Int
        BY <1>2, <1>6
      <4> QED BY <1>4, <1>6, <4>1, <4>2 DEF Length
    <3>2. Length(start.y, end.y) \in Int
      BY <1>6 DEF Length
    <3>3. Length(start.y, edge) \in Int
      BY <1>4, <1>6 DEF Length
    <3>4. Length(e.from.y, e.to.y) =< Length(start.y, end.y) + Seam
      BY <1>3, <1>6, <3>1, <3>2, <3>3
    <3> QED BY <1>2, <1>7, <2>1, <3>4
  <2>2. CASE i # 1
    <3>1. PICK j \in 1..(n + 1) : i = j + 1 /\ t[i] = s[j]
      BY <1>9, <2>2
    <3> DEFINE l == Length(s[j].from.y, s[j].to.y)
               m == Length(rest.y, end.y) + (IF n = 0 THEN 0 ELSE Seam)
               k == Length(start.y, end.y) + Seam
    <3>2. l =< m /\ m =< k
      BY <1>3, <1>5
    <3>3. s[j].from.y \in 0..Revolution /\ s[j].to.y \in 0..Revolution
      BY <1>5
    <3>4. l \in Int
      BY <1>6, <3>3 DEF Length
    <3>5. m \in Int /\ k \in Int
      BY <1>6 DEF Length
    <3>6. l =< k
      <4> HIDE DEF l, m, k
      <4> QED BY <3>2, <3>4, <3>5
    <3> QED BY <3>1, <3>3, <3>6
  <2> QED BY <2>1, <2>2
<1>13. end.y - start.y = IF Upwards(start, end) THEN TotalRise(t) + (n + 1) * Seam
                                               ELSE TotalRise(t) - (n + 1) * Seam
  <2> DEFINE c == n * Seam
             w == TotalRise(s)
             up == Upwards(start, end)
             upr == Upwards(rest, end)
  <2>1. c \in Int /\ (n + 1) * Seam = c + Seam /\ (n = 0 => c = 0)
    BY <1>6
  <2>2. end.y - rest.y = IF upr THEN w + c ELSE w - c
    BY <1>5
  <2>3. TotalRise(t) = (edge - start.y) + w /\ w \in Int
    BY <1>2, <1>8
  <2>4. edge - start.y = IF up THEN (rest.y - start.y) - Seam ELSE (rest.y - start.y) + Seam
    BY <1>3
  <2>5. n # 0 => (up <=> upr)
    BY <1>3
  <2> HIDE DEF c, w, up, upr
  <2>6. end.y - start.y = IF up THEN TotalRise(t) + (c + Seam) ELSE TotalRise(t) - (c + Seam)
    <3>1. CASE n = 0
      BY <1>4, <1>6, <2>1, <2>2, <2>3, <2>4, <3>1
    <3>2. CASE n # 0
      BY <1>4, <1>6, <2>1, <2>2, <2>3, <2>4, <2>5, <3>2
    <3> QED BY <3>1, <3>2
  <2> QED BY <2>1, <2>6 DEF up
<1>14. n + 1 # 0 /\ (n + 1) + 1 = n + 2
  OBVIOUS
<1>15. Sides(start, t, end, n + 1)
  <2>1. /\ \A i \in 1..(n + 1) : s[i].from.y # Revolution
        /\ s[n + 1].to.y # Revolution
        /\ \A i \in 1..n : s[i].to.y = IF Upwards(rest, end) THEN Revolution ELSE 0
    BY <1>5 DEF Sides
  <2>2. ASSUME NEW i \in 1..(n + 2) PROVE t[i].from.y # Revolution
    BY <1>2, <1>7, <1>9, <2>1
  <2>3. t[n + 2].to.y # Revolution
    <3>1. t[(n + 1) + 1] = s[n + 1] /\ (n + 1) + 1 = n + 2
      BY <1>7
    <3> QED BY <2>1, <3>1
  <2>4. ASSUME NEW i \in 1..(n + 1)
        PROVE  t[i].to.y = IF Upwards(start, end) THEN Revolution ELSE 0
    <3>1. CASE i = 1
      BY <1>2, <1>7, <3>1
    <3>2. CASE i # 1
      <4>1. i - 1 \in 1..n /\ i - 1 \in 1..(n + 1) /\ (i - 1) + 1 = i /\ n # 0
        BY <3>2
      <4>2. t[i] = s[i - 1]
        BY <1>7, <4>1
      <4> QED BY <1>3, <2>1, <4>1, <4>2
    <3> QED BY <3>1, <3>2
  <2> QED BY <1>14, <2>2, <2>3, <2>4 DEF Sides
<1>16. Pieces(start, t, end, n + 1)
  BY <1>7, <1>10, <1>11, <1>12, <1>13, <1>14, <1>15 DEF Pieces
<1> QED BY <1>16 DEF t, e

\* The recursion of SplitSegment ends: there is such a function.
LEMMA SplittingExists ==
  ASSUME NEW end \in Points
  PROVE  \E f : Splitting(f, end)
<1> DEFINE D == [Points -> Seq(Segments)]
           none == [p \in Points |-> <<>>]
           last(p) == <<Segment(Wrap(p), Wrap(end))>>
           cut(p) == <<Segment(Wrap(p), Exit(p, end))>>
           again(h) == [p \in Points |-> IF Band(p.y) = Band(end.y) THEN last(p)
                                         ELSE cut(p) \o h[Beyond(p, end)]]
           step == [q \in Nat \X D |-> again(q[2])]
<1>1. none \in D
  OBVIOUS
<1>2. ASSUME NEW h \in D PROVE again(h) \in D
  <2> SUFFICES ASSUME NEW p \in Points
               PROVE  (IF Band(p.y) = Band(end.y) THEN last(p)
                       ELSE cut(p) \o h[Beyond(p, end)]) \in Seq(Segments)
    OBVIOUS
  <2>1. CASE Band(p.y) = Band(end.y)
    <3>1. Pieces(p, last(p), end, 0)
      BY <2>1, LastPiece
    <3> HIDE DEF last
    <3> QED BY <2>1, <3>1 DEF Pieces
  <2>2. CASE Band(p.y) # Band(end.y)
    <3>1. Segment(Wrap(p), Exit(p, end)) \in Segments
      BY <2>2, FirstPiece
    <3>2. cut(p) \in Seq(Segments)
      <4> DEFINE e == Segment(Wrap(p), Exit(p, end))
      <4> HIDE DEF e
      <4> QED BY <3>1 DEF e
    <3>3. h[Beyond(p, end)] \in Seq(Segments)
      BY <2>2, LeavesBand
    <3> HIDE DEF cut
    <3> QED BY <2>2, <3>2, <3>3
  <2> QED BY <2>1, <2>2
<1> HIDE DEF none
<1>3. step \in [Nat \X D -> D] /\ \A k \in Nat, h \in D : step[<<k, h>>] = again(h)
  <2> HIDE DEF again, D
  <2> QED BY <1>2
<1> HIDE DEF step
<1>4. PICK G : Endless(G, D, none, step)
  <2> HIDE DEF D, again
  <2> QED BY <1>1, <1>3, RecursionForever
<1>5. ASSUME NEW k \in Nat PROVE G[k + 1] = again(G[k])
  <2> HIDE DEF again, D
  <2>1. G[k] \in D /\ k + 1 \in Nat /\ G[k + 1] = step[<<k + 1, G[k]>>]
    BY <1>4 DEF Endless
  <2> QED BY <1>3, <2>1
<1> DEFINE F == [p \in Points |-> G[Apart(p, end) + 1][p]]
<1>6. ASSUME NEW p \in Points
      PROVE  F[p] = IF Band(p.y) = Band(end.y) THEN last(p) ELSE cut(p) \o F[Beyond(p, end)]
  <2> DEFINE n == Apart(p, end)
  <2>1. n \in Nat
    BY ApartLess
  <2>2. F[p] = again(G[n])[p]
    <3>1. F[p] = G[n + 1][p]
      OBVIOUS
    <3> HIDE DEF F, n, again
    <3> QED BY <1>5, <2>1, <3>1
  <2>3. F[p] = IF Band(p.y) = Band(end.y) THEN last(p) ELSE cut(p) \o G[n][Beyond(p, end)]
    <3> HIDE DEF F, n, last, cut
    <3> QED BY <2>2
  <2>4. CASE Band(p.y) # Band(end.y)
    <3> DEFINE r == Beyond(p, end)
    <3>1. r \in Points /\ Apart(r, end) = n - 1
      BY <2>4, LeavesBand, ApartLess
    <3>2. F[r] = G[(n - 1) + 1][r]
      <4> HIDE DEF r, n
      <4> QED BY <3>1
    <3>3. (n - 1) + 1 = n
      BY <2>1
    <3> HIDE DEF F, n, last, cut
    <3> QED BY <2>3, <2>4, <3>2, <3>3
  <2> HIDE DEF F, n, last, cut
  <2> QED BY <2>3, <2>4
<1>7. F = [p \in Points |-> F[p]]
  OBVIOUS
<1> HIDE DEF F
<1>8. F = [p \in Points |-> IF Band(p.y) = Band(end.y) THEN last(p)
                            ELSE cut(p) \o F[Beyond(p, end)]]
  <2> HIDE DEF last, cut
  <2> QED BY <1>6, <1>7
<1>9. Splitting(F, end)
  BY <1>8 DEF Splitting, Points
<1> QED BY <1>9

LEMMA SplitIsPieces ==
  ASSUME NEW start \in Points, NEW end \in Points
  PROVE  Pieces(start, SplitSegment(start, end), end, Apart(start, end))
<1> DEFINE Split == CHOOSE f : Splitting(f, end)
<1>1. Splitting(Split, end)
  BY SplittingExists
<1>2. SplitSegment(start, end) = Split[start]
  BY DEF SplitSegment, Splitting, Upwards, Edge, CrossX, Exit, Beyond
<1> HIDE DEF Split
<1>3. \A p \in Points :
        Split[p] = IF Band(p.y) = Band(end.y) THEN <<Segment(Wrap(p), Wrap(end))>>
                   ELSE <<Segment(Wrap(p), Exit(p, end))>> \o Split[Beyond(p, end)]
  BY <1>1 DEF Splitting, Points
<1> DEFINE I == {n \in Nat : \A p \in Points : Apart(p, end) = n => Pieces(p, Split[p], end, n)}
<1>4. 0 \in I
  <2> SUFFICES ASSUME NEW p \in Points, Apart(p, end) = 0 PROVE Pieces(p, Split[p], end, 0)
    OBVIOUS
  <2>1. Band(p.y) = Band(end.y)
    BY ApartLess
  <2>2. Split[p] = <<Segment(Wrap(p), Wrap(end))>>
    BY <1>3, <2>1
  <2> QED BY <2>1, <2>2, LastPiece
<1>5. ASSUME NEW n \in Nat, n \in I PROVE n + 1 \in I
  <2> SUFFICES ASSUME NEW p \in Points, Apart(p, end) = n + 1
               PROVE  Pieces(p, Split[p], end, n + 1)
    OBVIOUS
  <2> DEFINE r == Beyond(p, end)
  <2>1. Band(p.y) # Band(end.y) /\ Apart(p, end) # 0
    BY ApartLess
  <2>2. r \in Points /\ Apart(r, end) = n
    BY <2>1, LeavesBand, ApartLess
  <2>3. Pieces(r, Split[r], end, n)
    BY <1>5, <2>2
  <2>4. Split[p] = <<Segment(Wrap(p), Exit(p, end))>> \o Split[r]
    BY <1>3, <2>1
  <2> QED BY <2>3, <2>4, NextPiece
<1> HIDE DEF I
<1>6. Nat \subseteq I
  BY <1>4, <1>5, SetInduction
<1> QED BY <1>2, <1>6, ApartLess DEF I

\* Only the upper edge of the image is drawn elsewhere.
LEMMA OnScreen ==
  ASSUME NEW u \in 0..Revolution
  PROVE  u % Revolution = IF u = Revolution THEN 0 ELSE u
<1>1. Revolution \in Nat \ {0} /\ 0 \in 0..(Revolution - 1)
  BY UnitsType DEF RevolutionType
<1>2. CASE u = Revolution
  <2>1. Revolution * 1 + 0 = u /\ 1 \in Int
    BY <1>1, <1>2
  <2>2. (Revolution * 1 + 0) % Revolution = 0
    BY <1>1, <2>1, Remainder
  <2> QED BY <1>2, <2>1, <2>2
<1>3. CASE u # Revolution
  <2>1. Revolution * 0 + u = u /\ 0 \in Int /\ u \in 0..(Revolution - 1)
    BY <1>1, <1>3
  <2>2. (Revolution * 0 + u) % Revolution = u
    BY <1>1, <2>1, Remainder
  <2> QED BY <1>3, <2>1, <2>2
<1> QED BY <1>2, <1>3

LEMMA DrawnPiece ==
  ASSUME NEW e \in Segments, e.from.y \in 0..Revolution, e.to.y \in 0..Revolution,
         e.from.y # Revolution
  PROVE  Drawn(e) = IF e.to.y = Revolution THEN [e EXCEPT !.to.y = 0] ELSE e
<1>1. e.from.y % Revolution = e.from.y
  BY OnScreen
<1>2. e.to.y % Revolution = IF e.to.y = Revolution THEN 0 ELSE e.to.y
  BY OnScreen
<1>3. ScreenPoint(e.from) = e.from
  BY <1>1 DEF ScreenPoint, Segments, Points
<1>4. ScreenPoint(e.to) = IF e.to.y = Revolution THEN [e.to EXCEPT !.y = 0] ELSE e.to
  BY <1>2 DEF ScreenPoint, Segments, Points
<1>5. [e EXCEPT !.to.y = 0] = Segment(e.from, [e.to EXCEPT !.y = 0]) /\ e = Segment(e.from, e.to)
  BY DEF Segment, Segments
<1> QED BY <1>3, <1>4, <1>5 DEF Drawn

\* Every leg is split the way Unbroken says.
LEMMA LegsUnbroken == ASSUME NEW leg \in Segments PROVE Unbroken(leg)
<1> DEFINE p == leg.from
           end == leg.to
           s == SplitSegment(p, end)
           n == Apart(p, end)
<1>1. p \in Points /\ end \in Points
  BY DEF Segments
<1>2. Pieces(p, s, end, n) /\ n \in Nat /\ Seam \in Nat
  BY <1>1, SplitIsPieces, ApartLess, UnitsType DEF RevolutionType
<1>3. n = Length(Band(p.y), Band(end.y)) /\ (Upwards(p, end) <=> end.y > p.y)
  BY DEF Apart, Upwards
<1>4. p.y \in Int /\ end.y \in Int
  BY <1>1 DEF Points
<1> HIDE DEF s, n
<1>5. /\ Len(s) = n + 1 /\ Len(s) - 1 = n /\ DOMAIN s = 1..(n + 1)
      /\ s[1].from.x = p.x /\ s[n + 1].to.x = end.x
      /\ \A i \in 1..n : s[i].to.x = s[i + 1].from.x
      /\ \A i \in 1..(n + 1) : s[i].from.y \in 0..Revolution /\ s[i].to.y \in 0..Revolution
  BY <1>2 DEF Pieces
<1>6. ASSUME NEW i \in 1..(n + 1)
      PROVE  Length(s[i].from.y, s[i].to.y) =< Length(p.y, end.y) + Seam
  <2>1. Length(s[i].from.y, s[i].to.y) =< Length(p.y, end.y) + (IF n = 0 THEN 0 ELSE Seam)
    BY <1>2 DEF Pieces
  <2>2. Revolution \in Nat /\ s[i].from.y \in Int /\ s[i].to.y \in Int
    BY <1>5, UnitsType DEF RevolutionType
  <2>3. Length(s[i].from.y, s[i].to.y) \in Int /\ Length(p.y, end.y) \in Int
    <3> HIDE DEF p, end
    <3> QED BY <1>4, <2>2 DEF Length
  <2> QED BY <1>2, <2>1, <2>3
<1>7. Rise(leg) = IF end.y > p.y THEN TotalRise(s) + n * Seam ELSE TotalRise(s) - n * Seam
  BY <1>2, <1>3 DEF Pieces, Rise
<1>8. ASSUME NEW i \in 1..(n + 1)
      PROVE  Drawn(s[i]) = IF end.y > p.y /\ i <= n THEN [s[i] EXCEPT !.to.y = 0] ELSE s[i]
  <2>1. s[i] \in Segments
    BY <1>2, <1>5 DEF Pieces
  <2>2. /\ s[i].from.y \in 0..Revolution /\ s[i].to.y \in 0..Revolution
        /\ s[i].from.y # Revolution
        /\ i = n + 1 => s[i].to.y # Revolution
        /\ i <= n => s[i].to.y = IF end.y > p.y THEN Revolution ELSE 0
    BY <1>2, <1>3, <1>5 DEF Pieces, Sides
  <2>3. i = n + 1 \/ i <= n
    BY <1>2
  <2>4. s[i].to.y = Revolution <=> (end.y > p.y /\ i <= n)
    <3>1. Revolution # 0 /\ (i = n + 1 => ~(i <= n))
      BY <1>2, UnitsType DEF RevolutionType
    <3> QED BY <2>2, <2>3, <3>1
  <2>5. Drawn(s[i]) = IF s[i].to.y = Revolution THEN [s[i] EXCEPT !.to.y = 0] ELSE s[i]
    BY <2>1, <2>2, DrawnPiece
  <2> QED BY <2>4, <2>5
<1> QED BY <1>3, <1>5, <1>6, <1>7, <1>8 DEF Unbroken, s

\* What PlotFollowsTrack says of the moves of a program.
LEMMA PlotIsTrack ==
  ASSUME NEW moves \in Seq(Moves)
  PROVE  LET drawn == PlotLegs(moves)
             counted == NominalMetrics(moves).legs
         IN /\ Len(drawn) = Len(counted)
            /\ \A k \in DOMAIN drawn :
                 /\ drawn[k].to.x - drawn[k].from.x = counted[k].carriage
                 /\ Rise(drawn[k]) = counted[k].mandrel
                 /\ Unbroken(drawn[k])
<1>1. PICK c, m : Draws(c, m) /\ PlotLegs(moves) = c.legs /\ NominalMetrics(moves) = m
  BY PlotOfProgram
<1>2. c.legs \in Seq(Segments) /\ DOMAIN c.legs = 1..Len(m.legs) /\ Len(c.legs) = Len(m.legs)
  BY <1>1 DEF Draws, Plots
<1>3. \A k \in DOMAIN c.legs : c.legs[k] \in Segments
  BY <1>2
<1> QED BY <1>1, <1>2, <1>3, LegsUnbroken DEF Draws

-----------------------------------------------------------------------------
(* What is written and read again *)

LEMMA RoundDivOf ==
  ASSUME NEW a \in Nat, NEW d \in Nat \ {0}
  PROVE  /\ RoundDiv(a, d) \in Nat
         /\ a >= d => RoundDiv(a, d) > 0
         /\ \A q \in Nat : a = d * q => RoundDiv(a, d) = q
<1> DEFINE q == a \div d
           r == a % d
<1>1. q \in Int /\ r \in 0..(d - 1) /\ a = d * q + r
  BY Division
<1>2. RoundDiv(a, d) = IF 2 * r > d \/ (2 * r = d /\ q % 2 = 1) THEN q + 1 ELSE q
  BY DEF RoundDiv
<1>3. \A p \in Nat : a = d * p => q = p /\ r = 0
  <2> SUFFICES ASSUME NEW p \in Nat, a = d * p PROVE q = p /\ r = 0
    OBVIOUS
  <2>1. 0 \in 0..(d - 1) /\ d * p + 0 = a
    OBVIOUS
  <2>2. (d * p + 0) \div d = p
    BY <2>1, Quotient
  <2>3. q = p
    BY <2>1, <2>2
  <2> HIDE DEF q, r
  <2>4. d * q = d * p
    BY <2>3
  <2>5. d * p \in Int
    OBVIOUS
  <2> QED BY <1>1, <2>3, <2>4, <2>5
<1> HIDE DEF q, r
<1>4. q >= 0
  <2> SUFFICES ASSUME q =< -1 PROVE FALSE
    BY <1>1
  <2>1. d * q =< -d
    BY <1>1
  <2>2. d * q \in Int
    BY <1>1
  <2> QED BY <1>1, <2>1, <2>2
<1>5. a >= d => q >= 1
  <2> SUFFICES ASSUME a >= d, q = 0 PROVE FALSE
    BY <1>1, <1>4
  <2>1. d * q = 0
    OBVIOUS
  <2> QED BY <1>1, <2>1
<1> QED BY <1>1, <1>2, <1>3, <1>4, <1>5

\* Rounding to a digit gives a whole number of them, which is its own rounding.
LEMMA RoundToOf ==
  ASSUME NEW v \in Int, NEW d \in Nat \ {0}
  PROVE  /\ RoundTo(v, d) \in Int
         /\ RoundTo(RoundTo(v, d), d) = RoundTo(v, d)
         /\ RoundTo(0, d) = 0
         /\ v >= d => RoundTo(v, d) > 0
<1>1. ASSUME NEW q \in Nat PROVE RoundTo(d * q, d) = d * q /\ RoundTo(-(d * q), d) = -(d * q)
  <2> DEFINE w == d * q
  <2>1. w \in Nat
    OBVIOUS
  <2>2. RoundDiv(w, d) = q
    BY <2>1, RoundDivOf
  <2> HIDE DEF w
  <2>3. RoundTo(w, d) = d * q
    BY <2>1, <2>2 DEF RoundTo
  <2>4. RoundTo(-w, d) = -w
    <3>1. CASE w =< 0
      <4>1. \A x \in Int : x =< 0 /\ x >= 0 => -x = x
        OBVIOUS
      <4>2. -w = w
        BY <2>1, <3>1, <4>1
      <4>3. RoundTo(-w, d) = w
        BY <2>3, <4>2 DEF w
      <4> QED BY <4>2, <4>3
    <3>2. CASE w > 0
      <4>1. -w < 0 /\ -(-w) = w
        BY <2>1, <3>2
      <4>2. RoundTo(-w, d) = d * (-RoundDiv(w, d))
        BY <4>1 DEF RoundTo
      <4>3. d * (-q) = -(d * q)
        OBVIOUS
      <4> QED BY <2>2, <4>2, <4>3 DEF w
    <3> QED BY <2>1, <3>1, <3>2
  <2> QED BY <2>3, <2>4 DEF w
<1>2. CASE v < 0
  <2> DEFINE q == RoundDiv(-v, d)
  <2>1. q \in Nat
    BY <1>2, RoundDivOf
  <2>2. RoundTo(v, d) = d * (-q)
    BY <1>2 DEF RoundTo
  <2> HIDE DEF q
  <2>3. d * (-q) = -(d * q) /\ -(d * q) \in Int
    BY <2>1
  <2>4. RoundTo(-(d * q), d) = -(d * q)
    BY <1>1, <2>1
  <2>5. RoundTo(0, d) = 0
    <3>1. RoundTo(d * 0, d) = d * 0 /\ d * 0 = 0
      BY <1>1
    <3> QED BY <3>1
  <2> QED BY <1>2, <2>2, <2>3, <2>4, <2>5
<1>3. CASE v >= 0
  <2> DEFINE q == RoundDiv(v, d)
  <2>1. q \in Nat /\ (v >= d => q > 0)
    BY <1>3, RoundDivOf
  <2>2. RoundTo(v, d) = d * q
    BY <1>3 DEF RoundTo
  <2> HIDE DEF q
  <2>3. d * q \in Int /\ (q > 0 => d * q > 0)
    BY <2>1
  <2>4. RoundTo(d * q, d) = d * q
    BY <1>1, <2>1
  <2>5. RoundTo(0, d) = 0
    <3>1. RoundTo(d * 0, d) = d * 0 /\ d * 0 = 0
      BY <1>1
    <3> QED BY <3>1
  <2> QED BY <2>1, <2>2, <2>3, <2>4, <2>5
<1> QED BY <1>2, <1>3

LEMMA PrintedOf ==
  ASSUME NEW t \in Targets
  PROVE  /\ Printed(t) \in Targets /\ Printed(Printed(t)) = Printed(t)
         /\ Printed(NoTargets) = NoTargets /\ Printed(Home) = Home
<1>1. DOMAIN t \subseteq Axis /\ t = [a \in DOMAIN t |-> t[a]] /\ \A a \in DOMAIN t : t[a] \in Int
  BY TargetsMeans
<1>2. Digit \in Nat \ {0}
  BY UnitsAssumption
<1>3. \A a \in DOMAIN t : /\ RoundTo(t[a], Digit) \in Int
                         /\ RoundTo(RoundTo(t[a], Digit), Digit) = RoundTo(t[a], Digit)
  BY <1>1, <1>2, RoundToOf
<1>4. RoundTo(0, Digit) = 0
  <2>1. 0 \in Int
    OBVIOUS
  <2> QED BY <1>2, <2>1, RoundToOf
<1>5. Printed(t) \in Targets
  <2>1. Printed(t) \in [DOMAIN t -> Int]
    BY <1>3 DEF Printed
  <2> QED BY <1>1, <2>1 DEF Targets
<1>6. Printed(Printed(t)) = Printed(t)
  BY <1>3 DEF Printed
<1>7. Printed(NoTargets) = NoTargets /\ Printed(Home) = Home
  BY <1>4 DEF Printed, NoTargets, Home
<1> QED BY <1>5, <1>6, <1>7

\* What the reader makes of a written move.
Reread(move) ==
  CASE move.kind = "comment"      -> Comment
    [] move.kind = "set_feed"     -> IF RoundTo(move.feed, Digit) = 0 THEN Rapid(NoTargets)
                                     ELSE SetFeed(RoundTo(move.feed, Digit))
    [] move.kind = "set_position" -> SetPosition(Printed(move.targets))
    [] move.kind = "rapid"        -> Rapid(Printed(move.targets))

LEMMA MovesMade ==
  ASSUME NEW t \in Targets, NEW f \in Int
  PROVE  /\ Comment \in Moves /\ SetFeed(f) \in Moves
         /\ SetPosition(t) \in Moves /\ Rapid(t) \in Moves
         /\ NoTargets \in Targets /\ Home \in Targets
<1>1. NoTargets \in Targets
  BY TargetsMeans DEF NoTargets
<1>2. Home \in Targets
  BY TargetsMeans DEF Home
<1>3. {"rapid", "set_feed", "set_position", "comment"} = Kinds /\ 0 \in Int
  BY DEF Kinds
<1> QED BY <1>1, <1>2, <1>3 DEF Moves, Comment, SetFeed, SetPosition, Rapid, Kinds

LEMMA WrittenMoveRead ==
  ASSUME NEW move \in Moves
  PROVE  /\ ReadLine(RenderMove(move)) = <<Reread(move)>>
         /\ Reread(move) \in Moves
         /\ RenderMove(Reread(move)) = RenderMove(move)
<1> DEFINE f == RoundTo(move.feed, Digit)
           t == Printed(move.targets)
<1>1. move.kind \in Kinds /\ move.targets \in Targets /\ move.feed \in Int /\ Digit \in Nat \ {0}
  BY UnitsAssumption DEF Moves
<1>2. t \in Targets /\ Printed(t) = t /\ Printed(NoTargets) = NoTargets
  BY <1>1, PrintedOf
<1>3. f \in Int /\ RoundTo(f, Digit) = f
  BY <1>1, RoundToOf
<1> HIDE DEF f, t
<1>4. CASE move.kind = "comment"
  <2>1. RenderMove(move) = CommentLine /\ Reread(move) = Comment
    BY <1>4 DEF RenderMove, Reread
  <2>2. ReadLine(CommentLine) = <<Comment>> /\ RenderMove(Comment) = CommentLine
    BY DEF ReadLine, CommentLine, Line, Header, ModalOpcodes, RenderMove, Comment
  <2> QED BY <1>2, <1>3, <2>1, <2>2, MovesMade
<1>5. CASE move.kind = "set_feed"
  <2>1. RenderMove(move) = Line("G0", NoTargets, f)
    BY <1>5 DEF RenderMove, f
  <2>2. CASE f = 0
    <3>1. Reread(move) = Rapid(NoTargets)
      BY <1>5, <2>2 DEF Reread, f
    <3>2. RenderMove(Rapid(NoTargets)) = Line("G0", NoTargets, 0)
      BY <1>2 DEF RenderMove, Rapid
    <3>3. ReadLine(Line("G0", NoTargets, 0)) = <<Rapid(NoTargets)>>
      <4>1. ReadMotion(Line("G0", NoTargets, 0)) = <<>> \o <<Rapid(NoTargets)>>
        BY DEF ReadMotion, Line
      <4>2. <<>> \o <<Rapid(NoTargets)>> = <<Rapid(NoTargets)>>
        OBVIOUS
      <4> QED BY <4>1, <4>2 DEF ReadLine, Line, Header, ModalOpcodes, CommentLine
    <3> QED BY <1>2, <1>3, <2>1, <2>2, <3>1, <3>2, <3>3, MovesMade
  <2>3. CASE f # 0
    <3>1. Reread(move) = SetFeed(f)
      BY <1>5, <2>3 DEF Reread, f
    <3>2. RenderMove(SetFeed(f)) = Line("G0", NoTargets, f)
      BY <1>3 DEF RenderMove, SetFeed
    <3>3. ReadLine(Line("G0", NoTargets, f)) = <<SetFeed(f)>>
      <4>1. ReadMotion(Line("G0", NoTargets, f)) = <<SetFeed(f)>> \o <<>>
        BY <2>3 DEF ReadMotion, Line
      <4>2. <<SetFeed(f)>> \o <<>> = <<SetFeed(f)>>
        OBVIOUS
      <4> QED BY <4>1, <4>2 DEF ReadLine, Line, Header, ModalOpcodes, CommentLine
    <3> QED BY <1>2, <1>3, <2>1, <3>1, <3>2, <3>3, MovesMade
  <2> QED BY <2>2, <2>3
<1>6. CASE move.kind = "set_position"
  <2>1. RenderMove(move) = Line("G92", t, 0) /\ Reread(move) = SetPosition(t)
    BY <1>6 DEF RenderMove, Reread, t
  <2>2. ReadLine(Line("G92", t, 0)) = <<SetPosition(t)>>
    BY DEF ReadLine, CommentLine, Line, Header, ModalOpcodes
  <2>3. RenderMove(SetPosition(t)) = Line("G92", t, 0)
    BY <1>2 DEF RenderMove, SetPosition
  <2> QED BY <1>2, <1>3, <2>1, <2>2, <2>3, MovesMade
<1>7. CASE move.kind = "rapid"
  <2>1. RenderMove(move) = Line("G0", t, 0) /\ Reread(move) = Rapid(t)
    BY <1>7 DEF RenderMove, Reread, t
  <2>2. ReadLine(Line("G0", t, 0)) = <<Rapid(t)>>
    <3>1. ReadMotion(Line("G0", t, 0)) = <<>> \o <<Rapid(t)>>
      BY DEF ReadMotion, Line
    <3>2. <<>> \o <<Rapid(t)>> = <<Rapid(t)>>
      OBVIOUS
    <3> QED BY <3>1, <3>2 DEF ReadLine, Line, Header, ModalOpcodes, CommentLine
  <2>3. RenderMove(Rapid(t)) = Line("G0", t, 0)
    BY <1>2 DEF RenderMove, Rapid
  <2> QED BY <1>2, <1>3, <2>1, <2>2, <2>3, MovesMade
<1> QED BY <1>1, <1>4, <1>5, <1>6, <1>7 DEF Kinds

\* Sequences end to end, one after the other.
Flattening(g, seqs, S) ==
  /\ g \in [0..Len(seqs) -> Seq(S)] /\ g[0] = <<>>
  /\ \A k \in 1..Len(seqs) : g[k] = g[k - 1] \o seqs[k]

LEMMA FlattenFold ==
  ASSUME NEW S, NEW seqs \in Seq(Seq(S))
  PROVE  \E g : Flattening(g, seqs, S) /\ FlattenSeq(seqs) = g[Len(seqs)]
<1> DEFINE n == Len(seqs)
           step == [p \in (1..n) \X Seq(S) |-> p[2] \o seqs[p[1]]]
           Good(f) == f = [i \in 1..n |-> IF i = 1 THEN seqs[i] ELSE f[i - 1] \o seqs[i]]
           F == CHOOSE f : Good(f)
<1>1. n \in Nat /\ \A k \in 1..n : seqs[k] \in Seq(S)
  OBVIOUS
<1>2. n = 0 => seqs = <<>>
  OBVIOUS
<1> HIDE DEF n
<1>3. /\ step \in [(1..n) \X Seq(S) -> Seq(S)]
      /\ \A k \in 1..n, m \in Seq(S) : step[<<k, m>>] = m \o seqs[k]
  <2>1. \A k \in 1..n, m \in Seq(S) : m \o seqs[k] \in Seq(S)
    BY <1>1, ConcatProperties
  <2> QED BY <2>1
<1> HIDE DEF step
<1>4. PICK g : Recursive(g, n, Seq(S), <<>>, step)
  <2>1. <<>> \in Seq(S)
    OBVIOUS
  <2> QED BY <1>1, <1>3, <2>1, PrimitiveRecursion
<1>5. g \in [0..n -> Seq(S)] /\ g[0] = <<>>
  BY <1>4 DEF Recursive
<1>6. \A k \in 1..n : g[k] = g[k - 1] \o seqs[k]
  <2> SUFFICES ASSUME NEW k \in 1..n PROVE g[k] = g[k - 1] \o seqs[k]
    OBVIOUS
  <2>1. g[k - 1] \in Seq(S)
    BY <1>1, <1>5
  <2>2. g[k] = step[<<k, g[k - 1]>>]
    BY <1>4 DEF Recursive
  <2> QED BY <1>3, <2>1, <2>2
<1>7. Flattening(g, seqs, S)
  BY <1>5, <1>6 DEF Flattening, n
<1>8. CASE n = 0
  <2>1. FlattenSeq(seqs) = <<>>
    BY <1>2, <1>8 DEF FlattenSeq, n
  <2> QED BY <1>5, <1>7, <1>8, <2>1 DEF n
<1>9. CASE n # 0
  <2>1. FlattenSeq(seqs) = F[n]
    BY <1>9 DEF FlattenSeq, n
  <2>2. Good([k \in 1..n |-> g[k]])
    <3> DEFINE f == [k \in 1..n |-> g[k]]
    <3>1. ASSUME NEW i \in 1..n PROVE f[i] = IF i = 1 THEN seqs[i] ELSE f[i - 1] \o seqs[i]
      <4>1. CASE i = 1
        <5>1. g[1] = g[0] \o seqs[1]
          <6>1. 1 \in 1..n /\ 1 - 1 = 0
            BY <4>1
          <6>2. g[1] = g[1 - 1] \o seqs[1]
            BY <1>6, <6>1
          <6> QED BY <6>1, <6>2
        <5>2. <<>> \o seqs[1] = seqs[1]
          BY <1>1, <4>1
        <5> QED BY <1>5, <4>1, <5>1, <5>2
      <4>2. CASE i # 1
        <5>1. i - 1 \in 1..n
          BY <1>1, <4>2
        <5> QED BY <1>6, <4>2, <5>1
      <4> QED BY <4>1, <4>2
    <3>2. f = [k \in 1..n |-> f[k]]
      OBVIOUS
    <3> HIDE DEF f
    <3>3. f = [i \in 1..n |-> IF i = 1 THEN seqs[i] ELSE f[i - 1] \o seqs[i]]
      BY <3>1, <3>2
    <3>4. Good(f)
      BY <3>3
    <3> HIDE DEF Good
    <3> QED BY <3>4 DEF f
  <2>3. Good(F)
    BY <2>2
  <2> HIDE DEF F
  <2>4. \A i \in 1..n : F[i] = IF i = 1 THEN seqs[i] ELSE F[i - 1] \o seqs[i]
    BY <2>3
  <2> DEFINE I == {k \in Nat : k \in 1..n => F[k] = g[k]}
  <2>5. 0 \in I
    OBVIOUS
  <2>6. ASSUME NEW k \in Nat, k \in I PROVE k + 1 \in I
    <3> SUFFICES ASSUME k + 1 =< n PROVE F[k + 1] = g[k + 1]
      OBVIOUS
    <3>1. k + 1 \in 1..n /\ (k + 1) - 1 = k
      BY <1>1
    <3>2. g[k + 1] = g[k] \o seqs[k + 1]
      BY <1>6, <3>1
    <3>3. CASE k = 0
      <4>1. F[1] = seqs[1] /\ seqs[1] \in Seq(S)
        BY <1>1, <2>4, <3>1, <3>3
      <4>2. g[1] = <<>> \o seqs[1]
        <5>1. k + 1 = 1
          BY <3>3
        <5> QED BY <1>5, <3>2, <3>3, <5>1
      <4>3. <<>> \o seqs[1] = seqs[1]
        BY <4>1
      <4> QED BY <3>3, <4>1, <4>2, <4>3
    <3>4. CASE k # 0
      <4>1. k + 1 # 1 /\ k \in 1..n
        BY <1>1, <3>1, <3>4
      <4>2. F[k + 1] = F[(k + 1) - 1] \o seqs[k + 1]
        BY <2>4, <3>1, <4>1
      <4> QED BY <2>6, <3>1, <3>2, <4>1, <4>2
    <3> QED BY <3>3, <3>4
  <2> HIDE DEF I
  <2>7. Nat \subseteq I
    BY <2>5, <2>6, SetInduction
  <2>8. F[n] = g[n]
    BY <1>1, <1>9, <2>7 DEF I
  <2> QED BY <1>7, <2>1, <2>8 DEF n
<1> QED BY <1>8, <1>9

\* z is x, and then y.
Joined(z, x, y) == z = x \o y

LEMMA Associates ==
  ASSUME NEW S, NEW x \in Seq(S), NEW u \in Seq(S), NEW v \in Seq(S),
         NEW xu, Joined(xu, x, u), NEW uv, Joined(uv, u, v),
         NEW a, Joined(a, xu, v), NEW b, Joined(b, x, uv)
  PROVE  a = b
<1>1. /\ xu \in Seq(S) /\ Len(xu) = Len(x) + Len(u)
      /\ \A i \in 1..Len(xu) : xu[i] = IF i <= Len(x) THEN x[i] ELSE u[i - Len(x)]
  BY ConcatProperties DEF Joined
<1>2. /\ uv \in Seq(S) /\ Len(uv) = Len(u) + Len(v)
      /\ \A i \in 1..Len(uv) : uv[i] = IF i <= Len(u) THEN u[i] ELSE v[i - Len(u)]
  BY ConcatProperties DEF Joined
<1>3. Len(x) \in Nat /\ Len(u) \in Nat /\ Len(v) \in Nat
  OBVIOUS
<1>4. a = xu \o v /\ b = x \o uv
  BY DEF Joined
<1>5. /\ a \in Seq(S) /\ Len(a) = Len(xu) + Len(v)
      /\ \A i \in 1..Len(a) : a[i] = IF i <= Len(xu) THEN xu[i] ELSE v[i - Len(xu)]
  <2>1. xu \in Seq(S) /\ a = xu \o v
    BY <1>1, <1>4
  <2> QED BY <2>1, ConcatProperties
<1>6. /\ b \in Seq(S) /\ Len(b) = Len(x) + Len(uv)
      /\ \A i \in 1..Len(b) : b[i] = IF i <= Len(x) THEN x[i] ELSE uv[i - Len(x)]
  <2>1. uv \in Seq(S) /\ b = x \o uv
    BY <1>2, <1>4
  <2> QED BY <2>1, ConcatProperties
<1>7. Len(a) = Len(b)
  BY <1>1, <1>2, <1>3, <1>5, <1>6
<1>8. ASSUME NEW i \in 1..Len(a) PROVE a[i] = b[i]
  <2> DEFINE k == Len(x)
             l == Len(u)
             m == Len(v)
  <2>1. k \in Nat /\ l \in Nat /\ m \in Nat /\ i \in 1..(k + l + m)
        /\ Len(xu) = k + l /\ Len(uv) = l + m /\ Len(a) = k + l + m /\ Len(b) = k + l + m
    BY <1>1, <1>2, <1>3, <1>5, <1>6
  <2>2. a[i] = IF i <= k + l THEN xu[i] ELSE v[i - (k + l)]
    BY <1>5, <2>1
  <2>3. b[i] = IF i <= k THEN x[i] ELSE uv[i - k]
    BY <1>6, <2>1
  <2>4. i <= k + l => xu[i] = IF i <= k THEN x[i] ELSE u[i - k]
    BY <1>1, <2>1
  <2>5. i > k => uv[i - k] = IF i - k <= l THEN u[i - k] ELSE v[(i - k) - l]
    BY <1>2, <2>1
  <2> HIDE DEF k, l, m
  <2>6. (i - k) - l = i - (k + l) /\ (i - k <= l <=> i <= k + l)
    BY <2>1
  <2>7. CASE i <= k
    BY <2>1, <2>2, <2>3, <2>4, <2>7
  <2>8. CASE i > k /\ i <= k + l
    BY <2>1, <2>2, <2>3, <2>4, <2>5, <2>6, <2>8
  <2>9. CASE i > k + l
    BY <2>1, <2>2, <2>3, <2>5, <2>6, <2>9
  <2> QED BY <2>1, <2>7, <2>8, <2>9
<1> QED BY <1>5, <1>6, <1>7, <1>8, SeqEqual

LEMMA FlattenMore ==
  ASSUME NEW S, NEW x \in Seq(S), NEW seqs \in Seq(Seq(S))
  PROVE  FlattenSeq(<<x>> \o seqs) = x \o FlattenSeq(seqs) /\ FlattenSeq(seqs) \in Seq(S)
<1> DEFINE more == <<x>> \o seqs
<1>1. /\ more \in Seq(Seq(S)) /\ Len(more) = Len(seqs) + 1 /\ more[1] = x /\ Len(seqs) \in Nat
      /\ \A k \in 1..Len(seqs) : more[k + 1] = seqs[k] /\ seqs[k] \in Seq(S)
  OBVIOUS
<1> HIDE DEF more
<1>2. PICK g : Flattening(g, seqs, S) /\ FlattenSeq(seqs) = g[Len(seqs)]
  BY FlattenFold
<1>3. PICK h : Flattening(h, more, S) /\ FlattenSeq(more) = h[Len(more)]
  BY <1>1, FlattenFold
<1> DEFINE I == {k \in Nat : k =< Len(seqs) => h[k + 1] = x \o g[k]}
<1>4. 0 \in I
  <2>1. h[1] = h[1 - 1] \o more[1] /\ h[0] = <<>> /\ g[0] = <<>> /\ 1 - 1 = 0
    BY <1>1, <1>2, <1>3 DEF Flattening
  <2>2. <<>> \o x = x /\ x \o <<>> = x
    OBVIOUS
  <2>3. more[1] = x /\ 0 + 1 = 1
    BY <1>1
  <2>4. h[0 + 1] = x \o g[0]
    BY <2>1, <2>2, <2>3
  <2> QED BY <2>4
<1>5. ASSUME NEW k \in Nat, k \in I PROVE k + 1 \in I
  <2> SUFFICES ASSUME k + 1 =< Len(seqs) PROVE h[(k + 1) + 1] = x \o g[k + 1]
    OBVIOUS
  <2> DEFINE n == Len(seqs)
  <2>1. n \in Nat /\ k + 1 =< n /\ Len(more) = n + 1
    BY <1>1
  <2>2. h[k + 1] = x \o g[k]
    BY <1>5, <2>1
  <2> HIDE DEF n
  <2>3. k + 1 \in 1..n /\ (k + 1) - 1 = k /\ (k + 1) + 1 \in 1..(n + 1)
        /\ ((k + 1) + 1) - 1 = k + 1 /\ k \in 0..n
    BY <2>1
  <2>4. g[k + 1] = g[k] \o seqs[k + 1]
    BY <1>2, <2>3 DEF Flattening, n
  <2>5. h[(k + 1) + 1] = h[k + 1] \o seqs[k + 1]
    BY <1>1, <1>3, <2>1, <2>3 DEF Flattening, n
  <2>6. g[k] \in Seq(S) /\ seqs[k + 1] \in Seq(S)
    BY <1>1, <1>2, <2>3 DEF Flattening, n
  <2>7. (x \o g[k]) \o seqs[k + 1] = x \o (g[k] \o seqs[k + 1])
    <3> DEFINE u == g[k]
               v == seqs[k + 1]
    <3>1. u \in Seq(S) /\ v \in Seq(S)
      BY <2>6
    <3> DEFINE xu == x \o u
               uv == u \o v
               a == xu \o v
               b == x \o uv
    <3>2. Joined(xu, x, u) /\ Joined(uv, u, v) /\ Joined(a, xu, v) /\ Joined(b, x, uv)
      BY DEF Joined
    <3> HIDE DEF u, v, xu, uv, a, b
    <3>3. a = b
      BY <3>1, <3>2, Associates
    <3> QED BY <3>3 DEF u, v, xu, uv, a, b
  <2> QED BY <2>2, <2>4, <2>5, <2>7
<1> HIDE DEF I
<1>6. Nat \subseteq I
  BY <1>4, <1>5, SetInduction
<1>7. h[Len(seqs) + 1] = x \o g[Len(seqs)]
  BY <1>1, <1>6 DEF I
<1>8. g[Len(seqs)] \in Seq(S)
  <2>1. Len(seqs) \in 0..Len(seqs)
    BY <1>1
  <2> QED BY <1>2, <2>1 DEF Flattening
<1> QED BY <1>1, <1>2, <1>3, <1>7, <1>8 DEF more

\* Of sequences of one element each.
LEMMA FlattenSingles ==
  ASSUME NEW S, NEW f \in Seq(S)
  PROVE  FlattenSeq([k \in 1..Len(f) |-> <<f[k]>>]) = f
<1> DEFINE n == Len(f)
           seqs == [k \in 1..n |-> <<f[k]>>]
<1>1. n \in Nat /\ \A k \in 1..n : f[k] \in S
  OBVIOUS
<1>2. seqs \in Seq(Seq(S)) /\ Len(seqs) = n /\ \A k \in 1..n : seqs[k] = <<f[k]>>
  <2> HIDE DEF n
  <2> QED BY <1>1
<1> HIDE DEF n, seqs
<1>3. PICK g : Flattening(g, seqs, S) /\ FlattenSeq(seqs) = g[Len(seqs)]
  BY <1>2, FlattenFold
<1>4. g \in [0..n -> Seq(S)] /\ g[0] = <<>> /\ \A k \in 1..n : g[k] = g[k - 1] \o seqs[k]
  BY <1>2, <1>3 DEF Flattening
<1> DEFINE I == {k \in Nat : k =< n => Len(g[k]) = k /\ \A i \in 1..k : g[k][i] = f[i]}
<1>5. 0 \in I
  BY <1>4
<1>6. ASSUME NEW k \in Nat, k \in I PROVE k + 1 \in I
  <2> SUFFICES ASSUME k + 1 =< n
               PROVE  Len(g[k + 1]) = k + 1 /\ \A i \in 1..(k + 1) : g[k + 1][i] = f[i]
    OBVIOUS
  <2>1. k + 1 \in 1..n /\ k \in 0..n /\ (k + 1) - 1 = k
    BY <1>1
  <2>2. g[k + 1] = g[k] \o <<f[k + 1]>>
    BY <1>2, <1>4, <2>1
  <2>3. g[k] \in Seq(S) /\ Len(g[k]) = k /\ \A i \in 1..k : g[k][i] = f[i]
    BY <1>1, <1>4, <1>6, <2>1
  <2> QED BY <2>2, <2>3
<1> HIDE DEF I
<1>7. Nat \subseteq I
  BY <1>5, <1>6, SetInduction
<1>8. Len(g[n]) = n /\ \A i \in 1..n : g[n][i] = f[i]
  BY <1>1, <1>7 DEF I
<1>9. g[n] \in Seq(S)
  BY <1>1, <1>4
<1>10. g[n] = f
  BY <1>8, <1>9, SeqEqual DEF n
<1> QED BY <1>2, <1>3, <1>10 DEF seqs, n

\* The lines of a text, and those the reader accepts.
Opcodes == ModalOpcodes \cup {Header.op, CommentLine.op, "G0", "G1", "G92"}
TextLines == Lines \cup [op : Opcodes, targets : Targets, feed : Int]
LegibleLines == {l \in TextLines : l.op \in Opcodes}

LEMMA LineMeans ==
  ASSUME NEW l \in LegibleLines
  PROVE  l.op \in Opcodes /\ l.targets \in Targets /\ l.feed \in Int /\ ReadLine(l) \in Seq(Moves)
<1>1. l.op \in Opcodes /\ l.targets \in Targets /\ l.feed \in Int
  <2>1. CASE l \in Lines
    BY <2>1, ToolpathAssumption, TargetsMeans DEF LegibleLines
  <2>2. CASE l \in [op : Opcodes, targets : Targets, feed : Int]
    BY <2>2
  <2> QED BY <2>1, <2>2 DEF LegibleLines, TextLines
<1>2. Comment \in Moves /\ SetFeed(l.feed) \in Moves /\ SetPosition(l.targets) \in Moves
      /\ Rapid(l.targets) \in Moves
  BY <1>1, MovesMade
<1>3. ReadMotion(l) \in Seq(Moves)
  <2> DEFINE a == IF l.feed # 0 THEN <<SetFeed(l.feed)>> ELSE <<>>
             b == IF l.targets # NoTargets \/ l.feed = 0 THEN <<Rapid(l.targets)>> ELSE <<>>
  <2>1. a \in Seq(Moves) /\ b \in Seq(Moves)
    BY <1>2
  <2>2. ReadMotion(l) = a \o b
    BY DEF ReadMotion
  <2> HIDE DEF a, b
  <2> QED BY <2>1, <2>2, ConcatProperties
<1>4. CASE l.op = Header.op \/ l.op \in ModalOpcodes
  <2>1. ReadLine(l) = <<>>
    BY <1>4 DEF ReadLine, Header, CommentLine, Line, ModalOpcodes
  <2> QED BY <1>1, <2>1
<1>5. CASE l.op = CommentLine.op
  <2>1. ReadLine(l) = <<Comment>>
    BY <1>5 DEF ReadLine, Header, CommentLine, Line, ModalOpcodes
  <2> QED BY <1>1, <1>2, <2>1
<1>6. CASE l.op = "G92"
  <2>1. ReadLine(l) = <<SetPosition(l.targets)>>
    BY <1>6 DEF ReadLine, Header, CommentLine, Line, ModalOpcodes
  <2> QED BY <1>1, <1>2, <2>1
<1>7. CASE l.op \in {"G0", "G1"}
  <2>1. ReadLine(l) = ReadMotion(l)
    BY <1>7 DEF ReadLine, Header, CommentLine, Line, ModalOpcodes
  <2> QED BY <1>1, <1>3, <2>1
<1> QED BY <1>1, <1>4, <1>5, <1>6, <1>7 DEF Opcodes

LEMMA ReadMore ==
  ASSUME NEW l \in LegibleLines, NEW t \in Seq(LegibleLines)
  PROVE  /\ ReadProgram(<<l>> \o t) = ReadLine(l) \o ReadProgram(t)
         /\ ReadProgram(t) \in Seq(Moves)
<1> DEFINE more == <<l>> \o t
           n == Len(t)
           seqs == [k \in DOMAIN t |-> ReadLine(t[k])]
           all == [k \in DOMAIN more |-> ReadLine(more[k])]
           x == ReadLine(l)
           longer == <<x>> \o seqs
<1>1. /\ more \in Seq(LegibleLines) /\ Len(more) = n + 1 /\ more[1] = l /\ n \in Nat
      /\ \A k \in 1..n : more[k + 1] = t[k]
      /\ DOMAIN t = 1..n /\ DOMAIN more = 1..(n + 1)
  OBVIOUS
<1>2. seqs \in Seq(Seq(Moves)) /\ Len(seqs) = n /\ \A k \in 1..n : seqs[k] = ReadLine(t[k])
  <2>1. \A k \in 1..n : ReadLine(t[k]) \in Seq(Moves)
    BY LineMeans
  <2> QED BY <1>1, <2>1
<1>3. x \in Seq(Moves)
  BY LineMeans
<1>4. ReadProgram(t) = FlattenSeq(seqs)
  BY DEF ReadProgram
<1>5. ReadProgram(more) = FlattenSeq(all)
  BY DEF ReadProgram
<1>6. all \in Seq(Seq(Moves)) /\ Len(all) = n + 1 /\ \A k \in 1..(n + 1) : all[k] = ReadLine(more[k])
  <2> HIDE DEF more
  <2>1. \A k \in 1..(n + 1) : ReadLine(more[k]) \in Seq(Moves)
    BY <1>1, LineMeans
  <2> QED BY <1>1, <2>1
<1> HIDE DEF more, n, seqs, all, x
<1>7. /\ longer \in Seq(Seq(Moves)) /\ Len(longer) = n + 1 /\ longer[1] = x
      /\ \A k \in 1..n : longer[k + 1] = seqs[k]
  BY <1>1, <1>2, <1>3
<1> HIDE DEF longer
<1>8. ASSUME NEW k \in 1..(n + 1) PROVE all[k] = longer[k]
  <2>1. CASE k = 1
    BY <1>1, <1>6, <1>7, <2>1 DEF x
  <2>2. CASE k # 1
    <3>1. k - 1 \in 1..n /\ (k - 1) + 1 = k
      BY <1>1, <2>2
    <3>2. longer[k] = seqs[k - 1] /\ more[k] = t[k - 1]
      BY <1>1, <1>7, <3>1
    <3> QED BY <1>2, <1>6, <3>1, <3>2
  <2> QED BY <2>1, <2>2
<1>9. all = longer
  BY <1>6, <1>7, <1>8, SeqEqual
<1>10. FlattenSeq(longer) = x \o FlattenSeq(seqs) /\ FlattenSeq(seqs) \in Seq(Moves)
  BY <1>2, <1>3, FlattenMore DEF longer
<1> QED BY <1>4, <1>5, <1>9, <1>10 DEF more, x

LEMMA FourFirst ==
  ASSUME NEW S, NEW a \in S, NEW b \in S, NEW c \in S, NEW d \in S, NEW s \in Seq(S),
         NEW head, Joined(head, <<a>>, <<b, c, d>>), NEW t, Joined(t, head, s),
         NEW s4, Joined(s4, <<d>>, s), NEW s3, Joined(s3, <<c>>, s4),
         NEW s2, Joined(s2, <<b>>, s3), NEW s1, Joined(s1, <<a>>, s2)
  PROVE  t = s1
<1> DEFINE n == Len(s)
<1>1. n \in Nat
  OBVIOUS
<1>2. /\ head \in Seq(S) /\ Len(head) = 4
      /\ head[1] = a /\ head[2] = b /\ head[3] = c /\ head[4] = d
  BY DEF Joined
<1>3. /\ t \in Seq(S) /\ Len(t) = n + 4 /\ t[1] = a /\ t[2] = b /\ t[3] = c /\ t[4] = d
      /\ \A k \in 1..n : t[k + 4] = s[k]
  <2>1. /\ t \in Seq(S) /\ Len(t) = Len(head) + Len(s)
        /\ \A i \in 1..(Len(head) + Len(s)) : t[i] = IF i <= Len(head) THEN head[i]
                                                    ELSE s[i - Len(head)]
    BY <1>2, ConcatProperties DEF Joined
  <2> HIDE DEF n
  <2>2. Len(t) = n + 4 /\ \A i \in 1..(n + 4) : t[i] = IF i <= 4 THEN head[i] ELSE s[i - 4]
    BY <1>1, <1>2, <2>1 DEF n
  <2>3. t[1] = head[1] /\ t[2] = head[2] /\ t[3] = head[3] /\ t[4] = head[4]
    BY <1>1, <2>2
  <2>4. ASSUME NEW k \in 1..n PROVE t[k + 4] = s[k]
    <3>1. k + 4 \in 1..(n + 4) /\ ~(k + 4 <= 4) /\ (k + 4) - 4 = k
      BY <1>1
    <3> QED BY <2>2, <3>1
  <2> QED BY <1>2, <2>1, <2>2, <2>3, <2>4
<1>4. s4 \in Seq(S) /\ Len(s4) = n + 1 /\ s4[1] = d /\ \A k \in 1..n : s4[k + 1] = s[k]
  BY DEF Joined
<1> HIDE DEF n
<1>5. s3 \in Seq(S) /\ Len(s3) = n + 2 /\ s3[1] = c /\ \A k \in 1..(n + 1) : s3[k + 1] = s4[k]
  BY <1>1, <1>4 DEF Joined
<1>6. s2 \in Seq(S) /\ Len(s2) = n + 3 /\ s2[1] = b /\ \A k \in 1..(n + 2) : s2[k + 1] = s3[k]
  BY <1>1, <1>5 DEF Joined
<1>7. s1 \in Seq(S) /\ Len(s1) = n + 4 /\ s1[1] = a /\ \A k \in 1..(n + 3) : s1[k + 1] = s2[k]
  BY <1>1, <1>6 DEF Joined
<1>8. s1[2] = b /\ s1[3] = c /\ s1[4] = d
  <2>1. /\ 1 \in 1..(n + 1) /\ 1 \in 1..(n + 2) /\ 1 \in 1..(n + 3)
        /\ 2 \in 1..(n + 2) /\ 2 \in 1..(n + 3) /\ 3 \in 1..(n + 3)
    BY <1>1
  <2>2. s3[1 + 1] = s4[1] /\ s2[1 + 1] = s3[1] /\ s2[2 + 1] = s3[2]
    BY <1>5, <1>6, <2>1
  <2>3. s1[1 + 1] = s2[1] /\ s1[2 + 1] = s2[2] /\ s1[3 + 1] = s2[3]
    BY <1>7, <2>1
  <2>4. 1 + 1 = 2 /\ 2 + 1 = 3 /\ 3 + 1 = 4
    OBVIOUS
  <2> QED BY <1>4, <1>5, <1>6, <2>2, <2>3, <2>4
<1>9. ASSUME NEW k \in 1..n PROVE s1[k + 4] = s[k]
  <2>1. /\ k + 1 \in 1..(n + 1) /\ k + 2 \in 1..(n + 2) /\ k + 3 \in 1..(n + 3)
        /\ (k + 1) + 1 = k + 2 /\ (k + 2) + 1 = k + 3 /\ (k + 3) + 1 = k + 4
    BY <1>1
  <2>2. s3[(k + 1) + 1] = s4[k + 1] /\ s4[k + 1] = s[k]
    BY <1>4, <1>5, <2>1
  <2>3. s2[(k + 2) + 1] = s3[k + 2] /\ s1[(k + 3) + 1] = s2[k + 3]
    BY <1>6, <1>7, <2>1
  <2> QED BY <2>1, <2>2, <2>3
<1>10. ASSUME NEW k \in 1..(n + 4) PROVE t[k] = s1[k]
  <2>1. CASE k \in 1..4
    BY <1>3, <1>7, <1>8, <2>1
  <2>2. CASE k > 4
    <3>1. k - 4 \in 1..n /\ (k - 4) + 4 = k
      BY <1>1, <2>2
    <3> QED BY <1>3, <1>9, <3>1
  <2> QED BY <1>1, <2>1, <2>2
<1> QED BY <1>3, <1>7, <1>10, SeqEqual

RereadAll(moves) == [k \in 1..Len(moves) |-> Reread(moves[k])]

LEMMA LineMade ==
  ASSUME NEW op \in Opcodes, NEW t \in Targets, NEW v \in Int
  PROVE  Line(op, t, v) \in LegibleLines
BY DEF LegibleLines, TextLines, Line

LEMMA SingleLines ==
  ASSUME NEW moves \in Seq(Moves)
  PROVE  LET body == [k \in DOMAIN moves |-> RenderMove(moves[k])]
         IN /\ body \in Seq(LegibleLines) /\ ReadProgram(body) = RereadAll(moves)
            /\ RereadAll(moves) \in Seq(Moves)
<1> DEFINE n == Len(moves)
           body == [k \in DOMAIN moves |-> RenderMove(moves[k])]
           f == RereadAll(moves)
<1>1. n \in Nat /\ DOMAIN moves = 1..n /\ \A k \in 1..n : moves[k] \in Moves
  OBVIOUS
<1>2. \A k \in 1..n : /\ ReadLine(RenderMove(moves[k])) = <<Reread(moves[k])>>
                     /\ Reread(moves[k]) \in Moves
  BY <1>1, WrittenMoveRead
<1>3. f \in Seq(Moves) /\ Len(f) = n /\ \A k \in 1..n : f[k] = Reread(moves[k])
  BY <1>1, <1>2 DEF RereadAll
<1>4. ASSUME NEW m \in Moves PROVE RenderMove(m) \in LegibleLines
  <2>1. /\ m.kind \in Kinds /\ m.targets \in Targets /\ m.feed \in Int
        /\ Printed(m.targets) \in Targets /\ NoTargets \in Targets
    BY PrintedOf, MovesMade DEF Moves
  <2>2. RoundTo(m.feed, Digit) \in Int
    <3>1. Digit \in Nat \ {0} /\ m.feed \in Int
      BY <2>1, UnitsAssumption
    <3> QED BY <3>1, RoundToOf
  <2>3. ASSUME NEW op \in Opcodes, NEW t \in Targets, NEW v \in Int
        PROVE  Line(op, t, v) \in LegibleLines
    BY LineMade
  <2>4. "G0" \in Opcodes /\ "G92" \in Opcodes /\ ";" \in Opcodes
    BY DEF Opcodes, CommentLine, Line
  <2>5. 0 \in Int
    OBVIOUS
  <2>6. CASE m.kind = "comment"
    <3>1. RenderMove(m) = Line(";", NoTargets, 0)
      BY <2>6 DEF RenderMove, CommentLine
    <3> QED BY <2>1, <2>3, <2>4, <2>5, <3>1
  <2>7. CASE m.kind = "set_feed"
    <3>1. RenderMove(m) = Line("G0", NoTargets, RoundTo(m.feed, Digit))
      BY <2>7 DEF RenderMove
    <3> QED BY <2>1, <2>2, <2>3, <2>4, <3>1
  <2>8. CASE m.kind = "set_position"
    <3>1. RenderMove(m) = Line("G92", Printed(m.targets), 0)
      BY <2>8 DEF RenderMove
    <3> QED BY <2>1, <2>3, <2>4, <2>5, <3>1
  <2>9. CASE m.kind = "rapid"
    <3>1. RenderMove(m) = Line("G0", Printed(m.targets), 0)
      BY <2>9 DEF RenderMove
    <3> QED BY <2>1, <2>3, <2>4, <2>5, <3>1
  <2> QED BY <2>1, <2>6, <2>7, <2>8, <2>9 DEF Kinds
<1>5. body \in Seq(LegibleLines) /\ Len(body) = n /\ \A k \in 1..n : body[k] = RenderMove(moves[k])
  BY <1>1, <1>4
<1>6. [k \in DOMAIN body |-> ReadLine(body[k])] = [k \in 1..n |-> <<f[k]>>]
  <2>1. \A k \in 1..n : ReadLine(body[k]) = <<f[k]>>
    BY <1>2, <1>3, <1>5
  <2>2. DOMAIN body = 1..n
    BY <1>1
  <2> HIDE DEF body, f, n
  <2> QED BY <2>1, <2>2
<1>7. ReadProgram(body) = FlattenSeq([k \in 1..n |-> <<f[k]>>])
  BY <1>6 DEF ReadProgram
<1> HIDE DEF f, n, body
<1>8. ReadProgram(body) = f
  BY <1>3, <1>7, FlattenSingles
<1> QED BY <1>3, <1>5, <1>8 DEF f, body

\* What is read of a written program: its moves, printed.
LEMMA WrittenRead ==
  ASSUME NEW moves \in Seq(Moves)
  PROVE  /\ Serialize(moves) \in Seq(LegibleLines)
         /\ ReadProgram(Serialize(moves)) = RereadAll(moves)
         /\ RereadAll(moves) \in Seq(Moves)
         /\ Serialize(RereadAll(moves)) = Serialize(moves)
<1> DEFINE body == [k \in DOMAIN moves |-> RenderMove(moves[k])]
           g21 == Modal("G21")
           g90 == Modal("G90")
           g94 == Modal("G94")
<1>1. body \in Seq(LegibleLines) /\ ReadProgram(body) = RereadAll(moves) /\ RereadAll(moves) \in Seq(Moves)
  BY SingleLines
<1>2. Serialize(moves) = <<Header>> \o <<g21, g90, g94>> \o body
  BY DEF Serialize, Prologue
<1>3. /\ Header \in LegibleLines /\ g21 \in LegibleLines /\ g90 \in LegibleLines
      /\ g94 \in LegibleLines
  <2>1. NoTargets \in Targets
    BY TargetsMeans DEF NoTargets
  <2>2. ASSUME NEW op \in Opcodes PROVE Line(op, NoTargets, 0) \in LegibleLines
    BY <2>1, LineMade
  <2>3. "; Parameters" \in Opcodes /\ "G21" \in Opcodes /\ "G90" \in Opcodes /\ "G94" \in Opcodes
    BY DEF Opcodes, ModalOpcodes, Header, Line
  <2> QED BY <2>2, <2>3 DEF Header, Modal
<1>4. /\ ReadLine(Header) = <<>> /\ ReadLine(g21) = <<>> /\ ReadLine(g90) = <<>>
      /\ ReadLine(g94) = <<>>
  <2>1. \A l : l.op = Header.op \/ l.op \in ModalOpcodes => ReadLine(l) = <<>>
    BY DEF ReadLine, Header, CommentLine, Line, ModalOpcodes
  <2>2. g21.op = "G21" /\ g90.op = "G90" /\ g94.op = "G94"
    BY DEF Modal, Line
  <2> QED BY <2>1, <2>2 DEF ModalOpcodes
<1> HIDE DEF body, g21, g90, g94
<1> DEFINE s4 == <<g94>> \o body
           s3 == <<g90>> \o s4
           s2 == <<g21>> \o s3
           s1 == <<Header>> \o s2
<1>5. Serialize(moves) = s1
  <2> DEFINE head == <<Header>> \o <<g21, g90, g94>>
             t == Serialize(moves)
  <2>1. /\ Joined(head, <<Header>>, <<g21, g90, g94>>) /\ Joined(t, head, body)
        /\ Joined(s4, <<g94>>, body) /\ Joined(s3, <<g90>>, s4)
        /\ Joined(s2, <<g21>>, s3) /\ Joined(s1, <<Header>>, s2)
    BY <1>2 DEF Joined
  <2> HIDE DEF head, t, s1, s2, s3, s4
  <2>2. t = s1
    BY <1>1, <1>3, <2>1, FourFirst
  <2> QED BY <2>2 DEF t
<1>6. ASSUME NEW s \in Seq(LegibleLines), NEW l \in LegibleLines, ReadLine(l) = <<>>
      PROVE  <<l>> \o s \in Seq(LegibleLines) /\ ReadProgram(<<l>> \o s) = ReadProgram(s)
  <2>1. ReadProgram(<<l>> \o s) = ReadLine(l) \o ReadProgram(s) /\ ReadProgram(s) \in Seq(Moves)
    BY ReadMore
  <2>2. \A x \in Seq(Moves) : <<>> \o x = x
    OBVIOUS
  <2>3. ReadProgram(<<l>> \o s) = ReadProgram(s)
    BY <1>6, <2>1, <2>2
  <2> QED BY <2>3
<1>7. s4 \in Seq(LegibleLines) /\ ReadProgram(s4) = RereadAll(moves)
  BY <1>1, <1>3, <1>4, <1>6
<1> HIDE DEF s4
<1>8. s3 \in Seq(LegibleLines) /\ ReadProgram(s3) = RereadAll(moves)
  BY <1>3, <1>4, <1>6, <1>7
<1> HIDE DEF s3
<1>9. s2 \in Seq(LegibleLines) /\ ReadProgram(s2) = RereadAll(moves)
  BY <1>3, <1>4, <1>6, <1>8
<1> HIDE DEF s2
<1>10. s1 \in Seq(LegibleLines) /\ ReadProgram(s1) = RereadAll(moves)
  BY <1>3, <1>4, <1>6, <1>9
<1> HIDE DEF s1
<1>11. Serialize(RereadAll(moves)) = Serialize(moves)
  <2> DEFINE f == RereadAll(moves)
             again == [k \in DOMAIN f |-> RenderMove(f[k])]
  <2>1. DOMAIN f = DOMAIN moves /\ \A k \in DOMAIN moves : f[k] = Reread(moves[k])
    BY DEF RereadAll
  <2>2. \A k \in DOMAIN moves : RenderMove(Reread(moves[k])) = RenderMove(moves[k])
    BY WrittenMoveRead
  <2>3. Serialize(f) = <<Header>> \o Prologue \o again
    BY DEF Serialize
  <2> HIDE DEF f
  <2>4. again = body
    BY <2>1, <2>2 DEF body
  <2> HIDE DEF again
  <2>5. Serialize(moves) = <<Header>> \o Prologue \o body
    BY DEF Serialize, body
  <2> QED BY <2>3, <2>4, <2>5 DEF f
<1> QED BY <1>1, <1>5, <1>10, <1>11

-----------------------------------------------------------------------------
(* What the machine records *)

Recorded ==
  {m \in Moves : /\ m.kind \in {"rapid", "set_position"} => m.feed = 0
                 /\ m.kind = "comment" => m = Comment
                 /\ m.kind = "set_feed" => m.targets = NoTargets /\ m.feed >= Digit}
Machines == [last : Position6, moves : Seq(Recorded), verbose : BOOLEAN]

\* v is w, some moves later.
Grown(w, v) ==
  /\ v \in Machines /\ v.verbose = w.verbose
  /\ Len(v.moves) >= Len(w.moves)
  /\ \A k \in 1..Len(w.moves) : v.moves[k] = w.moves[k]

LEMMA RecordedMade ==
  ASSUME NEW t \in Targets
  PROVE  Comment \in Recorded /\ Rapid(t) \in Recorded /\ SetPosition(t) \in Recorded
<1>1. Comment \in Moves /\ Rapid(t) \in Moves /\ SetPosition(t) \in Moves
  <2>1. 0 \in Int
    OBVIOUS
  <2> QED BY <2>1, MovesMade
<1> QED BY <1>1 DEF Recorded, Comment, Rapid, SetPosition

LEMMA GrowsOn ==
  ASSUME NEW u, NEW v, NEW w, u \in Machines, Grown(u, v), Grown(v, w)
  PROVE  Grown(u, w)
<1>1. Len(u.moves) \in Nat /\ Len(v.moves) \in Nat /\ Len(w.moves) \in Nat
  BY DEF Machines, Grown
<1> QED BY <1>1 DEF Grown

\* The moves s later, at p.
Moving(v, w, s, p) == v = [w EXCEPT !.moves = @ \o s, !.last = p]

LEMMA MachineGrows ==
  ASSUME NEW w \in Machines, NEW s \in Seq(Recorded), NEW p \in Position6,
         NEW v, Moving(v, w, s, p)
  PROVE  Grown(w, v)
<1> DEFINE ms == w.moves
           all == ms \o s
<1>1. /\ ms \in Seq(Recorded) /\ w.verbose \in BOOLEAN
      /\ w = [last |-> w.last, moves |-> ms, verbose |-> w.verbose]
  BY DEF Machines
<1>2. v = [last |-> p, moves |-> all, verbose |-> w.verbose]
  <2>1. v = [w EXCEPT !.moves = all, !.last = p]
    BY DEF Moving
  <2> HIDE DEF all, ms
  <2> QED BY <1>1, <2>1
<1> HIDE DEF ms
<1>3. /\ all \in Seq(Recorded) /\ Len(all) = Len(ms) + Len(s)
      /\ \A k \in 1..(Len(ms) + Len(s)) : all[k] = IF k <= Len(ms) THEN ms[k] ELSE s[k - Len(ms)]
  BY <1>1, ConcatProperties
<1>4. Len(ms) \in Nat /\ Len(s) \in Nat
  BY <1>1
<1> HIDE DEF all
<1>5. Len(all) >= Len(ms) /\ \A k \in 1..Len(ms) : all[k] = ms[k]
  BY <1>3, <1>4
<1>6. v \in Machines
  BY <1>1, <1>2, <1>3 DEF Machines
<1> QED BY <1>2, <1>5, <1>6 DEF Grown, ms

LEMMA CommentedGrows == ASSUME NEW w \in Machines PROVE Grown(w, Commented(w))
<1> DEFINE one == <<Comment>>
<1>1. /\ w.moves \in Seq(Recorded) /\ w.last \in Position6
      /\ w = [last |-> w.last, moves |-> w.moves, verbose |-> w.verbose]
  BY DEF Machines
<1>2. Comment \in Recorded
  BY MovesMade, RecordedMade, TargetsMeans DEF Home
<1>3. one \in Seq(Recorded) /\ Append(w.moves, Comment) = w.moves \o one
  BY <1>1, <1>2
<1>4. Moving(Commented(w), w, one, w.last)
  BY <1>1, <1>3 DEF Commented, Moving
<1> HIDE DEF one
<1> QED BY <1>1, <1>3, <1>4, MachineGrows

LEMMA PositionedGrows ==
  ASSUME NEW w \in Machines, NEW t \in Targets PROVE Grown(w, Positioned(w, t))
<1> DEFINE e == SetPosition(t)
           one == <<e>>
           p == Completed(t, w.last)
<1>1. /\ w.moves \in Seq(Recorded) /\ w.last \in Position6
      /\ w = [last |-> w.last, moves |-> w.moves, verbose |-> w.verbose]
  BY DEF Machines
<1>2. p \in Position6
  BY <1>1, CompletedType
<1>3. e \in Recorded
  BY RecordedMade
<1> HIDE DEF e, p
<1>4. one \in Seq(Recorded) /\ Append(w.moves, e) = w.moves \o one
  BY <1>1, <1>3
<1>5. Moving(Positioned(w, t), w, one, p)
  BY <1>1, <1>4 DEF Positioned, Moving, e, p
<1> HIDE DEF one
<1> QED BY <1>2, <1>4, <1>5, MachineGrows

LEMMA PointsType ==
  ASSUME NEW from \in Position6, NEW to \in Position6, NEW n \in Nat \ {0}
  PROVE  Interpolate(from, to, n) \in Seq(Position6) /\ Len(Interpolate(from, to, n)) = n
<1>1. CASE n = 1
  BY <1>1 DEF Interpolate
<1>2. CASE n # 1
  <2> DEFINE at(k) == [a \in Axis |-> from[a] + ((k - 1) * (to[a] - from[a])) \div (n - 1)]
             s == [k \in 1..n |-> at(k)]
  <2>1. ASSUME NEW k \in 1..n PROVE at(k) \in Position6
    <3> SUFFICES ASSUME NEW a \in Axis
                 PROVE  from[a] + ((k - 1) * (to[a] - from[a])) \div (n - 1) \in Int
      BY DEF Position6
    <3> DEFINE x == (k - 1) * (to[a] - from[a])
               m == n - 1
    <3>1. from[a] \in Int /\ to[a] \in Int /\ k - 1 \in Int
      BY DEF Position6
    <3>2. x \in Int /\ m \in Nat \ {0}
      <4>1. \A i, j \in Int : i * j \in Int
        OBVIOUS
      <4>2. to[a] - from[a] \in Int
        BY <3>1
      <4> QED BY <1>2, <3>1, <4>1, <4>2
    <3> HIDE DEF x, m
    <3>3. x \div m \in Int
      BY <3>2, Division
    <3>4. from[a] + (x \div m) \in Int
      BY <3>1, <3>3
    <3> QED BY <3>4 DEF x, m
  <2>2. Interpolate(from, to, n) = s
    BY <1>2 DEF Interpolate
  <2> HIDE DEF at
  <2>3. s \in Seq(Position6) /\ Len(s) = n
    BY <2>1
  <2> QED BY <2>2, <2>3
<1> QED BY <1>1, <1>2

LEMMA MovedGrows ==
  ASSUME NEW w \in Machines, NEW t \in Targets PROVE Grown(w, Moved(w, t))
<1> DEFINE to == Completed(t, w.last)
           run == Length(w.last.carriage, to.carriage)
           points == IF run <= Digit THEN <<to>>
                     ELSE Interpolate(w.last, to, RoundDiv(run, Millimetre) + 1)
           told == IF w.verbose THEN Commented(w) ELSE w
           rapids == [k \in DOMAIN points |-> Rapid(points[k])]
           end == points[Len(points)]
<1>1. w.last \in Position6 /\ to \in Position6
  BY CompletedType DEF Machines
<1>2. run \in Nat
  <2>1. w.last.carriage \in Int /\ to.carriage \in Int
    <3> HIDE DEF to
    <3> QED BY <1>1 DEF Position6, Axis
  <2> HIDE DEF to
  <2> QED BY <2>1 DEF Length
<1> HIDE DEF to, run
<1>3. points \in Seq(Position6) /\ Len(points) \in Nat \ {0}
  <2>1. Millimetre \in Nat \ {0}
    BY UnitsAssumption
  <2>2. RoundDiv(run, Millimetre) + 1 \in Nat \ {0}
    <3>1. RoundDiv(run, Millimetre) \in Nat
      BY <1>2, <2>1, RoundDivOf
    <3> QED BY <3>1
  <2> DEFINE n == RoundDiv(run, Millimetre) + 1
             inner == Interpolate(w.last, to, n)
  <2>3. inner \in Seq(Position6) /\ Len(inner) = n
    <3> HIDE DEF n
    <3> QED BY <1>1, <2>2, PointsType DEF n
  <2>4. <<to>> \in Seq(Position6) /\ Len(<<to>>) = 1
    BY <1>1
  <2>5. points = IF run <= Digit THEN <<to>> ELSE inner
    OBVIOUS
  <2> HIDE DEF inner, n, points
  <2> QED BY <2>2, <2>3, <2>4, <2>5 DEF n
<1>4. Moving(Moved(w, t), told, rapids, end)
  BY DEF Moved, Moving, to, run
<1> HIDE DEF points
<1>5. end \in Position6 /\ DOMAIN points = 1..Len(points) /\ \A k \in DOMAIN points : points[k] \in Targets
  <2>1. Position6 \subseteq Targets
    BY DEF Position6, Targets
  <2> QED BY <1>3, <2>1
<1>6. rapids \in Seq(Recorded)
  <2>1. \A k \in DOMAIN points : Rapid(points[k]) \in Recorded
    BY <1>5, RecordedMade
  <2> QED BY <1>3, <1>5, <2>1
<1> HIDE DEF rapids, end
<1>7. told \in Machines /\ Grown(w, told)
  <2>1. Grown(w, Commented(w))
    BY CommentedGrows
  <2>2. Grown(w, w)
    <3>1. Len(w.moves) \in Nat
      BY DEF Machines
    <3> QED BY <3>1 DEF Grown
  <2>3. told = w \/ told = Commented(w)
    OBVIOUS
  <2> HIDE DEF told
  <2> QED BY <2>1, <2>2, <2>3 DEF Grown
<1> HIDE DEF told
<1>8. Grown(told, Moved(w, t))
  BY <1>4, <1>5, <1>6, <1>7, MachineGrows
<1> QED BY <1>7, <1>8, GrowsOn

LEMMA ZeroedGrows ==
  ASSUME NEW w \in Machines, NEW turn \in Int PROVE Grown(w, Zeroed(w, turn))
<1> DEFINE home == [Home EXCEPT !["mandrel"] = turn % Revolution]
           full == [a \in {"mandrel"} |-> Revolution]
           none == [a \in {"mandrel"} |-> 0]
           parked == Positioned(w, home)
           turned == Moved(parked, full)
<1>1. home \in Targets /\ full \in Targets /\ none \in Targets
  <2>1. Revolution \in Nat \ {0} /\ turn % Revolution \in Int
    <3>1. Revolution \in Nat \ {0}
      BY UnitsAssumption
    <3> QED BY <3>1, Division
  <2> QED BY <2>1, TargetsMeans DEF Home, Axis
<1>2. Zeroed(w, turn) = Positioned(turned, none)
  BY DEF Zeroed
<1> HIDE DEF home, full, none
<1>3. Grown(w, parked)
  BY <1>1, PositionedGrows
<1>4. parked \in Machines
  BY <1>3 DEF Grown
<1> HIDE DEF parked
<1>5. Grown(parked, turned)
  BY <1>1, <1>4, MovedGrows
<1>6. turned \in Machines
  BY <1>5 DEF Grown
<1> HIDE DEF turned
<1>7. Grown(turned, Positioned(turned, none))
  BY <1>1, <1>6, PositionedGrows
<1>8. Grown(w, turned)
  BY <1>3, <1>5, GrowsOn
<1> QED BY <1>2, <1>7, <1>8, GrowsOn

-----------------------------------------------------------------------------
(* The inductive invariant of the toolpath *)

Stages == {"between", "layer", "written", "authored", "read", "refused"}
Written ==
  (IF machine.verbose THEN <<CommentLine>> ELSE <<>>) \o Serialize(PlannedProgram)

\* The machine starts with a feed rate, and only records what it can.
MachineOK ==
  machine \in Machines /\ Len(machine.moves) >= 1 /\ machine.moves[1].kind = "set_feed"

\* Layers end one after the other, the last of them with the machine's last move.
Ended(i) == i < Len(records) \/ stage # "layer"
LayersOK ==
  /\ records \in Seq([before : Nat, after : Nat]) /\ Len(records) <= MaxLayers
  /\ stage = "layer" => records # <<>>
  /\ \A i \in 1..Len(records) : Ended(i) =>
       /\ records[i].after =< Len(machine.moves)
       /\ i > 1 => records[i - 1].after =< records[i].after
  /\ stage # "layer" /\ records # <<>> => records[Len(records)].after = Len(machine.moves)

\* The text of a plan is what was written, and a program what was read.
TextOK ==
  /\ stage \in Stages /\ calls \in 0..MaxCalls
  /\ text \in Seq(TextLines)
  /\ stage = "authored" => records = <<>>
  /\ stage \in {"written", "read", "refused"} /\ records # <<>> => text = Written
  /\ stage = "read" => text \in Seq(LegibleLines) /\ program = ReadProgram(text)

PathInv == MachineOK /\ LayersOK /\ TextOK

LEMMA PathInvInit == PathInit => PathInv
<1> SUFFICES ASSUME PathInit PROVE PathInv
  OBVIOUS
<1>1. PICK f \in FeedRates, v \in BOOLEAN : machine = NewMachine(f, v)
  BY DEF PathInit
<1>2. f \in Int /\ f >= Digit /\ NoTargets \in Targets
  <2>1. f \in Int /\ f >= Digit
    BY ToolpathAssumption
  <2>2. NoTargets \in Targets
    BY TargetsMeans DEF NoTargets
  <2> QED BY <2>1, <2>2
<1> DEFINE e == SetFeed(f)
<1>3. e \in Recorded /\ e.kind = "set_feed"
  <2>1. e = [kind |-> "set_feed", targets |-> NoTargets, feed |-> f]
    BY DEF SetFeed
  <2> QED BY <1>2, <2>1 DEF Recorded, Moves, Kinds
<1>4. machine = [last |-> Home, moves |-> <<e>>, verbose |-> v]
  BY <1>1 DEF NewMachine
<1> HIDE DEF e
<1>5. MachineOK
  <2>1. Home \in Position6
    BY DEF Home, Position6
  <2>2. <<e>> \in Seq(Recorded) /\ Len(<<e>>) = 1 /\ <<e>>[1] = e
    BY <1>3
  <2> DEFINE ms == <<e>>
  <2> HIDE DEF ms
  <2>3. machine = [last |-> Home, moves |-> ms, verbose |-> v]
    BY <1>4 DEF ms
  <2>4. ms \in Seq(Recorded) /\ Len(ms) = 1 /\ ms[1] = e
    BY <2>2 DEF ms
  <2> QED BY <1>3, <2>1, <2>3, <2>4 DEF MachineOK, Machines
<1>6. /\ stage \in {"between", "authored"} /\ records = <<>> /\ text = <<>> /\ calls = 0
  BY DEF PathInit
<1>7. LayersOK
  <2>1. records \in Seq([before : Nat, after : Nat]) /\ Len(records) = 0 /\ MaxLayers \in Nat
    BY <1>6, ToolpathAssumption
  <2> QED BY <1>6, <2>1 DEF LayersOK
<1>8. TextOK
  <2>1. text \in Seq(TextLines) /\ calls \in 0..MaxCalls
    BY <1>6, ToolpathAssumption
  <2> QED BY <1>6, <2>1 DEF TextOK, Stages
<1> QED BY <1>5, <1>7, <1>8 DEF PathInv

LEMMA StaysAsItIs == ASSUME NEW w \in Machines PROVE Grown(w, w)
<1>1. Len(w.moves) \in Nat
  BY DEF Machines
<1> QED BY <1>1 DEF Grown

\* Whatever is done, the machine only grows.
LEMMA MachineStep ==
  ASSUME MachineOK, [PathNext]_pathVars
  PROVE  Grown(machine, machine') /\ MachineOK'
<1>1. machine \in Machines
  BY DEF MachineOK
<1>2. SUFFICES Grown(machine, machine')
  <2>1. Len(machine.moves) \in Nat /\ Len(machine'.moves) \in Nat
    BY <1>1, <1>2 DEF Machines, Grown
  <2>2. Len(machine'.moves) >= 1 /\ machine'.moves[1] = machine.moves[1]
    BY <1>2, <2>1 DEF Grown, MachineOK
  <2> QED BY <1>2, <2>2 DEF Grown, MachineOK
<1>3. Grown(machine, Commented(machine)) /\ Commented(machine) \in Machines
  BY <1>1, CommentedGrows DEF Grown
<1>4. ASSUME NEW t \in Waypoints PROVE t \in Targets
  BY ToolpathAssumption, TargetsMeans
<1>5. CASE machine' = machine
  BY <1>1, <1>5, StaysAsItIs
<1>6. CASE BeginLayer
  BY <1>3, <1>6 DEF BeginLayer
<1>7. CASE NearLock
  <2>1. PICK t \in Waypoints :
          LET locked == Moved(machine, [Home EXCEPT !["mandrel"] = Completed(t, Home).mandrel])
          IN machine' = locked \/ machine' = Positioned(locked, [a \in {"mandrel"} |-> 0])
    BY <1>7 DEF NearLock, Call
  <2> DEFINE to == [Home EXCEPT !["mandrel"] = Completed(t, Home).mandrel]
             none == [a \in {"mandrel"} |-> 0]
             locked == Moved(machine, to)
  <2>2. to \in Targets /\ none \in Targets
    <3>1. Home \in Position6
      BY DEF Home, Position6
    <3>2. Completed(t, Home) \in Position6
      BY <1>4, <3>1, CompletedType
    <3>3. Completed(t, Home).mandrel \in Int
      BY <3>2 DEF Position6, Axis
    <3> QED BY <3>3, TargetsMeans DEF Home, Axis
  <2>3. machine' = locked \/ machine' = Positioned(locked, none)
    BY <2>1
  <2> HIDE DEF to, none
  <2>4. Grown(machine, locked)
    BY <1>1, <2>2, MovedGrows
  <2>5. locked \in Machines
    BY <2>4 DEF Grown
  <2> HIDE DEF locked
  <2>6. Grown(locked, Positioned(locked, none))
    BY <2>2, <2>5, PositionedGrows
  <2>7. Grown(machine, Positioned(locked, none))
    BY <1>1, <2>4, <2>6, GrowsOn
  <2> QED BY <2>3, <2>4, <2>7 DEF MachineOK
<1>8. CASE Waypoint
  <2>1. PICK t \in Waypoints : machine' = Moved(machine, t) \/ machine' = Moved(Commented(machine), t)
    BY <1>8 DEF Waypoint, Call
  <2>2. t \in Targets
    BY <1>4
  <2>3. Grown(machine, Moved(machine, t))
    BY <1>1, <2>2, MovedGrows
  <2>4. Grown(Commented(machine), Moved(Commented(machine), t))
    BY <1>3, <2>2, MovedGrows
  <2>5. Grown(machine, Moved(Commented(machine), t))
    BY <1>1, <1>3, <2>4, GrowsOn
  <2> QED BY <2>1, <2>3, <2>5
<1>9. CASE EndLayer
  <2>1. machine' = machine \/ machine' = Zeroed(machine, machine.last.mandrel)
    BY <1>9 DEF EndLayer
  <2>2. machine.last.mandrel \in Int
    <3>1. machine.last \in Position6
      BY <1>1 DEF Machines
    <3> QED BY <3>1 DEF Position6, Axis
  <2>3. Grown(machine, Zeroed(machine, machine.last.mandrel))
    BY <1>1, <2>2, ZeroedGrows
  <2> QED BY <1>1, <2>1, <2>3, StaysAsItIs
<1> QED BY <1>5, <1>6, <1>7, <1>8, <1>9 DEF PathNext, pathVars, Write, Author, Read

LEMMA LayersStep ==
  ASSUME PathInv, [PathNext]_pathVars
  PROVE  LayersOK'
<1> DEFINE n == Len(records)
           R == [before : Nat, after : Nat]
<1>1. /\ machine \in Machines /\ machine' \in Machines
      /\ Len(machine.moves) \in Nat /\ Len(machine'.moves) \in Nat
      /\ Len(machine.moves) =< Len(machine'.moves)
  BY MachineStep DEF PathInv, MachineOK, Grown, Machines
<1>2. /\ records \in Seq(R) /\ n \in Nat /\ n <= MaxLayers /\ MaxLayers \in Nat
      /\ \A i \in 1..n : records[i].after \in Nat
  <2>1. records \in Seq(R) /\ n <= MaxLayers /\ MaxLayers \in Nat
    BY ToolpathAssumption DEF PathInv, LayersOK
  <2>2. n \in Nat /\ \A i \in 1..n : records[i] \in R
    <3> HIDE DEF R
    <3> QED BY <2>1
  <2> QED BY <2>1, <2>2
<1>3. ASSUME NEW i \in 1..n, Ended(i)
      PROVE  /\ records[i].after =< Len(machine.moves) /\ records[i].after =< Len(machine'.moves)
             /\ i > 1 => i - 1 \in 1..n /\ records[i - 1].after =< records[i].after
  <2>1. /\ records[i].after =< Len(machine.moves)
        /\ i > 1 => records[i - 1].after =< records[i].after
    BY <1>3 DEF PathInv, LayersOK
  <2>2. records[i].after \in Nat /\ (i > 1 => i - 1 \in 1..n)
    BY <1>2
  <2> QED BY <1>1, <2>1, <2>2
<1>4. CASE BeginLayer
  <2> DEFINE e == [before |-> Len(machine'.moves), after |-> 0]
             rs == Append(records, e)
  <2>1. stage = "between" /\ n < MaxLayers /\ stage' = "layer" /\ records' = rs
    BY <1>4 DEF BeginLayer
  <2>2. e \in R
    BY <1>1
  <2> HIDE DEF e
  <2>3. rs \in Seq(R) /\ Len(rs) = n + 1 /\ \A i \in 1..n : rs[i] = records[i]
    BY <1>2, <2>2
  <2> HIDE DEF rs, R
  <2>4. ASSUME NEW i \in 1..n
        PROVE  /\ rs[i].after =< Len(machine'.moves)
               /\ i > 1 => rs[i - 1].after =< rs[i].after
    <3>1. Ended(i)
      BY <2>1 DEF Ended
    <3> QED BY <1>3, <2>3, <3>1
  <2>5. \A i \in 1..Len(rs) : i < Len(rs) => i \in 1..n
    BY <1>2, <2>3
  <2>6. rs # <<>> /\ Len(rs) <= MaxLayers
    BY <1>2, <2>1, <2>3
  <2> QED BY <2>1, <2>3, <2>4, <2>5, <2>6 DEF LayersOK, Ended, R
<1>5. CASE EndLayer
  <2> DEFINE l == Len(machine'.moves)
             rs == [records EXCEPT ![n].after = l]
  <2>1. stage = "layer" /\ stage' = "between" /\ records' = rs /\ records # <<>>
    BY <1>5 DEF EndLayer, PathInv, LayersOK
  <2>2. n >= 1
    BY <1>2, <2>1
  <2>3. /\ rs \in Seq(R) /\ Len(rs) = n /\ rs[n].after = l
        /\ \A i \in 1..(n - 1) : rs[i] = records[i]
    <3>1. records[n] \in R
      <4>1. n \in 1..Len(records)
        BY <1>2, <2>2
      <4> QED BY <1>2, <4>1, ElementOfSeq
    <3>2. [records[n] EXCEPT !.after = l] \in R /\ [records[n] EXCEPT !.after = l].after = l
      BY <1>1, <3>1
    <3> DEFINE e == [records[n] EXCEPT !.after = l]
    <3>3. rs = [records EXCEPT ![n] = e]
      BY <1>2, <2>2
    <3> HIDE DEF e, rs
    <3>4. e \in R /\ e.after = l
      BY <3>2 DEF e
    <3> QED BY <1>2, <2>2, <3>3, <3>4, ExceptSeq
  <2> HIDE DEF rs, R
  <2>4. ASSUME NEW i \in 1..n
        PROVE  /\ rs[i].after =< l
               /\ i > 1 => rs[i - 1].after =< rs[i].after
    <3>1. i > 1 => i - 1 \in 1..(n - 1) /\ i - 1 \in 1..n /\ i - 1 < n
      BY <1>2
    <3>2. i > 1 => records[i - 1].after =< l
      <4>1. i > 1 => Ended(i - 1)
        BY <3>1 DEF Ended
      <4> QED BY <1>3, <3>1, <4>1
    <3>3. CASE i = n
      BY <1>1, <2>3, <3>1, <3>2, <3>3
    <3>4. CASE i # n
      <4>1. i \in 1..(n - 1) /\ Ended(i)
        BY <1>2, <3>4 DEF Ended
      <4> QED BY <1>3, <2>3, <3>1, <4>1
    <3> QED BY <3>3, <3>4
  <2> QED BY <1>2, <2>1, <2>3, <2>4 DEF LayersOK, Ended, R
<1>6. CASE Write \/ Read
  <2>1. /\ records' = records /\ machine' = machine /\ stage # "layer" /\ stage' # "layer"
    BY <1>6 DEF Write, Read
  <2> QED BY <2>1 DEF PathInv, LayersOK, Ended
<1>7. CASE NearLock \/ Waypoint
  <2>1. stage = "layer" /\ stage' = stage /\ records' = records
    BY <1>7 DEF NearLock, Waypoint
  <2>2. \A i \in 1..n : Ended(i)' <=> Ended(i)
    BY <2>1 DEF Ended
  <2> QED BY <1>3, <2>1, <2>2 DEF PathInv, LayersOK
<1>8. CASE Author \/ UNCHANGED pathVars
  <2>1. stage' = stage /\ records' = records /\ machine' = machine
    BY <1>8 DEF Author, pathVars
  <2> QED BY <2>1 DEF PathInv, LayersOK, Ended
<1> QED BY <1>4, <1>5, <1>6, <1>7, <1>8 DEF PathNext

LEMMA WrittenType == ASSUME MachineOK PROVE PlannedProgram \in Seq(Moves) /\ Written \in Seq(LegibleLines)
<1>1. machine.moves \in Seq(Moves) /\ machine.verbose \in BOOLEAN
  <2>1. Recorded \subseteq Moves
    BY DEF Recorded
  <2>2. machine.moves \in Seq(Recorded)
    BY DEF MachineOK, Machines
  <2> QED BY <2>1, <2>2, SeqMonotonic DEF MachineOK, Machines
<1> DEFINE e == Rapid(Home)
           ms == machine.moves
<1>2. e \in Moves
  <2>1. Home \in Targets
    BY TargetsMeans DEF Home
  <2>2. 0 \in Int
    OBVIOUS
  <2> QED BY <2>1, <2>2, MovesMade
<1>3. <<e>> \in Seq(Moves) /\ PlannedProgram = <<e>> \o ms
  BY <1>2 DEF PlannedProgram
<1>4. PlannedProgram \in Seq(Moves)
  <2>1. ms \in Seq(Moves)
    BY <1>1
  <2> HIDE DEF e, ms
  <2> QED BY <1>3, <2>1, ConcatProperties
<1>5. Serialize(PlannedProgram) \in Seq(LegibleLines)
  BY <1>4, WrittenRead
<1>6. CommentLine \in LegibleLines
  <2>1. NoTargets \in Targets
    BY TargetsMeans DEF NoTargets
  <2>2. ";" \in Opcodes
    BY DEF Opcodes, CommentLine, Line
  <2>3. Line(";", NoTargets, 0) \in LegibleLines
    <3>1. 0 \in Int
      OBVIOUS
    <3> QED BY <2>1, <2>2, <3>1, LineMade
  <2> QED BY <2>3 DEF CommentLine
<1> DEFINE first == IF machine.verbose THEN <<CommentLine>> ELSE <<>>
<1>7. first \in Seq(LegibleLines) /\ Written = first \o Serialize(PlannedProgram)
  BY <1>6 DEF Written
<1>8. Written \in Seq(LegibleLines)
  <2> HIDE DEF first
  <2> QED BY <1>5, <1>7, ConcatProperties
<1> QED BY <1>4, <1>8

LEMMA TextStep ==
  ASSUME PathInv, [PathNext]_pathVars
  PROVE  TextOK'
<1>1. text \in Seq(TextLines) /\ stage \in Stages /\ calls \in 0..MaxCalls /\ MaxCalls \in Nat
  BY ToolpathAssumption DEF PathInv, TextOK
<1>2. CASE BeginLayer \/ NearLock \/ Waypoint \/ EndLayer
  <2>1. text' = text /\ stage' \in {"between", "layer"}
    BY <1>2 DEF BeginLayer, NearLock, Waypoint, EndLayer
  <2>2. calls' = calls \/ (calls < MaxCalls /\ calls' = calls + 1)
    <3>1. CASE BeginLayer \/ EndLayer
      BY <3>1 DEF BeginLayer, EndLayer
    <3>2. CASE NearLock
      BY <3>2 DEF NearLock, Call
    <3>3. CASE Waypoint
      BY <3>3 DEF Waypoint, Call
    <3> QED BY <1>2, <3>1, <3>2, <3>3
  <2>3. calls' \in 0..MaxCalls
    BY <1>1, <2>2
  <2> QED BY <1>1, <2>1, <2>3 DEF TextOK, Stages
<1>3. CASE Write
  <2>1. text' = Written /\ stage' = "written" /\ calls' = calls /\ machine' = machine /\ records' = records
    BY <1>3 DEF Write, Written
  <2>2. Written \in Seq(LegibleLines)
    BY WrittenType DEF PathInv
  <2>3. Written \in Seq(TextLines)
    <3>1. LegibleLines \subseteq TextLines
      BY DEF LegibleLines
    <3> QED BY <2>2, <3>1, SeqMonotonic
  <2>4. Written' = Written
    BY <2>1 DEF Written, PlannedProgram
  <2> QED BY <1>1, <2>1, <2>3, <2>4 DEF TextOK, Stages
<1>4. CASE Author
  <2>1. PICK l \in Lines : text' = Append(text, l)
    BY <1>4 DEF Author
  <2>2. stage' = "authored" /\ stage = "authored" /\ calls' = calls /\ records' = records
    BY <1>4 DEF Author
  <2>3. text' \in Seq(TextLines)
    <3>1. l \in TextLines
      BY DEF TextLines
    <3> QED BY <1>1, <2>1, <3>1
  <2> QED BY <1>1, <2>2, <2>3 DEF PathInv, TextOK, Stages
<1>5. CASE Read
  <2>1. /\ stage \in {"written", "authored"} /\ text' = text /\ calls' = calls
        /\ machine' = machine /\ records' = records
        /\ stage' = IF Readable(text) THEN "read" ELSE "refused"
        /\ program' = IF Readable(text) THEN ReadProgram(text) ELSE program
    BY <1>5 DEF Read
  <2>2. Written' = Written
    BY <2>1 DEF Written, PlannedProgram
  <2>3. records # <<>> => text = Written
    BY <2>1 DEF PathInv, TextOK
  <2>4. Readable(text) => text \in Seq(LegibleLines)
    <3> SUFFICES ASSUME Readable(text) PROVE text \in Seq(LegibleLines)
      OBVIOUS
    <3>1. \A k \in 1..Len(text) : text[k] \in TextLines /\ text[k].op \in Opcodes
      BY <1>1 DEF Readable, Opcodes
    <3>2. \A k \in 1..Len(text) : text[k] \in LegibleLines
      BY <3>1 DEF LegibleLines
    <3>3. text = [k \in 1..Len(text) |-> text[k]] /\ Len(text) \in Nat
      BY <1>1
    <3> QED BY <3>2, <3>3
  <2> QED BY <1>1, <2>1, <2>2, <2>3, <2>4 DEF TextOK, Stages
<1>6. CASE UNCHANGED pathVars
  <2>1. Written' = Written
    BY <1>6 DEF Written, PlannedProgram, pathVars
  <2> QED BY <1>6, <2>1 DEF PathInv, TextOK, pathVars
<1> QED BY <1>2, <1>3, <1>4, <1>5, <1>6 DEF PathNext

LEMMA PathInvHolds == PathSpec => []PathInv
<1>1. PathInv /\ [PathNext]_pathVars => PathInv'
  BY MachineStep, LayersStep, TextStep DEF PathInv
<1> QED BY PathInvInit, <1>1, PTL DEF PathSpec

\* Whatever is read is moves.
LEMMA ProgramType == ASSUME PathInv, stage = "read" PROVE program \in Seq(Moves)
<1>1. text \in Seq(LegibleLines) /\ program = ReadProgram(text)
  BY DEF PathInv, TextOK
<1>2. Header \in LegibleLines
  <2>1. "; Parameters" \in Opcodes /\ NoTargets \in Targets
    BY TargetsMeans DEF Opcodes, Header, Line, NoTargets
  <2>2. 0 \in Int
    OBVIOUS
  <2> QED BY <2>1, <2>2, LineMade DEF Header
<1> QED BY <1>1, <1>2, ReadMore

-----------------------------------------------------------------------------
(* The program that is read has the metrics of the plan *)

LEMMA RecordedPrinted ==
  ASSUME NEW m \in Recorded
  PROVE  /\ Reread(m) = PrintedMove(m) /\ PrintedMove(m) \in Moves
         /\ PrintedMove(m).kind = m.kind
         /\ m.kind = "set_feed" => PrintedMove(m).feed > 0
<1> DEFINE t == Printed(m.targets)
           f == RoundTo(m.feed, Digit)
<1>1. /\ m \in Moves /\ m.kind \in Kinds /\ m.targets \in Targets /\ m.feed \in Int
      /\ m = [kind |-> m.kind, targets |-> m.targets, feed |-> m.feed]
      /\ m.kind \in {"rapid", "set_position"} => m.feed = 0
      /\ m.kind = "comment" => m = Comment
      /\ m.kind = "set_feed" => m.targets = NoTargets /\ m.feed >= Digit
  BY DEF Recorded, Moves
<1>2. Digit \in Nat \ {0}
  BY UnitsAssumption
<1>3. t \in Targets /\ Printed(NoTargets) = NoTargets
  BY <1>1, PrintedOf
<1>4. f \in Int /\ (m.feed >= Digit => f > 0) /\ RoundTo(0, Digit) = 0
  BY <1>1, <1>2, RoundToOf
<1>5. PrintedMove(m) = [kind |-> m.kind, targets |-> t, feed |-> f]
  <2>1. PrintedMove(m) = [m EXCEPT !.targets = t, !.feed = f]
    BY DEF PrintedMove
  <2> HIDE DEF t, f
  <2> QED BY <1>1, <2>1
<1>6. PrintedMove(m) \in Moves /\ PrintedMove(m).kind = m.kind
  <2> HIDE DEF t, f
  <2> QED BY <1>1, <1>3, <1>4, <1>5 DEF Moves
<1>7. CASE m.kind = "comment"
  <2>1. m.targets = NoTargets /\ m.feed = 0 /\ Reread(m) = Comment
    BY <1>1, <1>7 DEF Comment, Reread
  <2>2. t = NoTargets /\ f = 0
    BY <1>3, <1>4, <2>1
  <2> QED BY <1>5, <1>6, <1>7, <2>1, <2>2 DEF Comment
<1>8. CASE m.kind = "set_feed"
  <2>1. t = NoTargets /\ f > 0
    BY <1>1, <1>3, <1>4, <1>8
  <2>2. Reread(m) = SetFeed(f)
    BY <1>4, <1>8, <2>1 DEF Reread
  <2> HIDE DEF t, f
  <2> QED BY <1>5, <1>6, <1>8, <2>1, <2>2 DEF SetFeed
<1>9. CASE m.kind = "set_position"
  <2>1. f = 0 /\ Reread(m) = SetPosition(t)
    BY <1>1, <1>4, <1>9 DEF Reread
  <2> HIDE DEF t, f
  <2> QED BY <1>5, <1>6, <1>9, <2>1 DEF SetPosition
<1>10. CASE m.kind = "rapid"
  <2>1. f = 0 /\ Reread(m) = Rapid(t)
    BY <1>1, <1>4, <1>10 DEF Reread
  <2> HIDE DEF t, f
  <2> QED BY <1>5, <1>6, <1>10, <2>1 DEF Rapid
<1> QED BY <1>1, <1>7, <1>8, <1>9, <1>10 DEF Kinds

\* The text of a plan is read as its printed moves, after a prefix that measures
\* nothing.
LEMMA PlanRead ==
  ASSUME MachineOK
  PROVE  LET n == Len(machine.moves)
             read == RereadAll(PlannedProgram)
         IN /\ PrintedMoves \in Seq(Moves) /\ Len(PrintedMoves) = n /\ n \in Nat \ {0}
            /\ read \in Seq(Moves) /\ Len(read) = n + 1 /\ read[1] = Rapid(Home)
            /\ \A k \in 1..n : /\ read[k + 1] = PrintedMoves[k]
                               /\ PrintedMoves[k] = PrintedMove(machine.moves[k])
<1> DEFINE ms == machine.moves
           n == Len(ms)
           e == Rapid(Home)
           plan == PlannedProgram
           read == RereadAll(plan)
           ps == PrintedMoves
<1>1. ms \in Seq(Recorded) /\ n \in Nat \ {0} /\ DOMAIN ms = 1..n
  BY DEF MachineOK, Machines
<1>2. \A k \in 1..n : ms[k] \in Recorded
  BY <1>1, ElementOfSeq
<1>3. ps \in Seq(Moves) /\ Len(ps) = n /\ \A k \in 1..n : ps[k] = PrintedMove(ms[k])
  <2>1. \A k \in 1..n : PrintedMove(ms[k]) \in Moves
    BY <1>2, RecordedPrinted
  <2>2. ps = [k \in 1..n |-> PrintedMove(ms[k])]
    BY <1>1 DEF PrintedMoves
  <2> HIDE DEF ps, n
  <2> QED BY <1>1, <2>1, <2>2
<1>4. plan \in Seq(Moves) /\ read \in Seq(Moves)
  BY WrittenType, WrittenRead
<1>5. e \in Moves /\ plan = <<e>> \o ms
  <2>1. Home \in Targets
    BY TargetsMeans DEF Home
  <2>2. 0 \in Int
    OBVIOUS
  <2> QED BY <2>1, <2>2, MovesMade DEF PlannedProgram
<1> HIDE DEF plan
<1>6. Len(plan) = n + 1 /\ plan[1] = e /\ \A k \in 1..n : plan[k + 1] = ms[k]
  <2> HIDE DEF e, ms
  <2> QED BY <1>1, <1>5
<1>7. Len(read) = n + 1 /\ \A k \in 1..(n + 1) : read[k] = Reread(plan[k])
  BY <1>1, <1>6 DEF RereadAll
<1>8. read[1] = e
  <2>1. read[1] = Reread(e)
    BY <1>1, <1>6, <1>7
  <2>2. Printed(Home) = Home
    BY PrintedOf, TargetsMeans DEF Home
  <2> QED BY <2>1, <2>2 DEF Reread, Rapid
<1>9. ASSUME NEW k \in 1..n PROVE read[k + 1] = ps[k]
  <2>1. k + 1 \in 1..(n + 1) /\ plan[k + 1] = ms[k] /\ ms[k] \in Recorded
    BY <1>1, <1>2, <1>6
  <2>2. read[k + 1] = Reread(ms[k])
    BY <1>7, <2>1
  <2> QED BY <1>3, <2>1, <2>2, RecordedPrinted
<1> QED BY <1>1, <1>3, <1>4, <1>7, <1>8, <1>9 DEF plan

\* Neither the comment nor the init move is measured.
LEMMA PrefixUnmeasured ==
  Measured(Unmeasured, Comment) = Unmeasured /\ Measured(Unmeasured, Rapid(Home)) = Unmeasured
<1>1. Measured(Unmeasured, Comment) = Unmeasured
  BY DEF Measured, Comment
<1>2. Measured(Unmeasured, Rapid(Home)) = Unmeasured
  <2> DEFINE to == Completed(Home, Home)
  <2>1. to = Home
    BY DEF Completed, Home
  <2>2. Leg(Home, Home, 0) = [feed |-> 0, carriage |-> 0, mandrel |-> 0]
    BY DEF Leg, Home, Axis
  <2> DEFINE m == Unmeasured
             move == Rapid(Home)
             leg == Leg(m.last, to, m.feed)
             moving == leg.carriage # 0 \/ leg.mandrel # 0
             moved == [m EXCEPT !.last = to, !.legs = IF moving THEN Append(@, leg) ELSE @,
                                !.ok = @ /\ (moving => m.feed > 0)]
  <2>3. /\ m = [last |-> m.last, feed |-> m.feed, legs |-> m.legs, ok |-> m.ok]
        /\ m.last = Home /\ m.feed = 0 /\ m.ok
    BY DEF Unmeasured
  <2>4. Measured(m, move) = moved
    BY <2>3 DEF Measured, Rapid
  <2>5. ~moving
    BY <2>1, <2>2, <2>3
  <2> DEFINE legs == IF moving THEN Append(m.legs, leg) ELSE m.legs
             ok == m.ok /\ (moving => m.feed > 0)
  <2>6. legs = m.legs /\ ok = TRUE /\ m.ok = TRUE
    <3> HIDE DEF moving, leg
    <3> QED BY <2>5 DEF Unmeasured
  <2>7. moved = [m EXCEPT !.last = to, !.legs = legs, !.ok = ok]
    OBVIOUS
  <2> HIDE DEF legs, ok, to, m, moved
  <2>8. Measured(m, move) = m
    BY <2>1, <2>3, <2>4, <2>6, <2>7
  <2> QED BY <2>8 DEF m
<1> QED BY <1>1, <1>2

\* Behind such a prefix the metrics are those of the printed moves.
LEMMA SameMetrics ==
  ASSUME NEW moves \in Seq(Moves), NEW others \in Seq(Moves), NEW c \in Nat,
         Len(moves) = c + Len(others), \A k \in 1..Len(others) : moves[c + k] = others[k],
         \A k \in 1..c : moves[k] = Comment \/ moves[k] = Rapid(Home)
  PROVE  NominalMetrics(moves) = NominalMetrics(others)
<1> DEFINE n == Len(others)
<1>1. n \in Nat
  OBVIOUS
<1>2. PICK g : Metering(g, moves) /\ NominalMetrics(moves) = g[Len(moves)]
  BY MetricsFold
<1>3. PICK h : Metering(h, others) /\ NominalMetrics(others) = h[n]
  BY MetricsFold
<1> DEFINE I == {k \in Nat : k =< c => g[k] = Unmeasured}
<1>4. 0 \in I
  BY <1>2 DEF Metering
<1>5. ASSUME NEW k \in Nat, k \in I PROVE k + 1 \in I
  <2> SUFFICES ASSUME k + 1 =< c PROVE g[k + 1] = Unmeasured
    OBVIOUS
  <2>1. k + 1 \in 1..c /\ k + 1 \in 1..Len(moves) /\ (k + 1) - 1 = k /\ g[k] = Unmeasured
    BY <1>1, <1>5
  <2>2. g[k + 1] = Measured(g[k], moves[k + 1])
    BY <1>2, <2>1 DEF Metering
  <2> QED BY <2>1, <2>2, PrefixUnmeasured
<1> HIDE DEF I
<1>6. Nat \subseteq I
  BY <1>4, <1>5, SetInduction
<1>7. g[c] = Unmeasured
  BY <1>6 DEF I
<1>8. \A k \in 0..n : g[c + k] = h[k]
  <2>1. c + n =< Len(moves) /\ n =< Len(others) /\ Agree(moves, others, c, n)
    BY <1>1 DEF Agree
  <2> HIDE DEF n
  <2> QED BY <1>1, <1>2, <1>3, <1>7, <2>1, MeteringAgrees
<1> QED BY <1>1, <1>2, <1>3, <1>8

\* With its feed rate first, every motion of a plan has one.
LEMMA PlanIsMeasured ==
  ASSUME MachineOK
  PROVE  NominalMetrics(PrintedMoves).ok
<1> DEFINE ps == PrintedMoves
           n == Len(ps)
<1>1. /\ ps \in Seq(Moves) /\ n \in Nat \ {0} /\ n = Len(machine.moves)
      /\ \A k \in 1..n : ps[k] = PrintedMove(machine.moves[k])
  BY PlanRead
<1>2. /\ \A k \in 1..n : machine.moves[k] \in Recorded
      /\ machine.moves[1].kind = "set_feed"
  <2>1. machine.moves \in Seq(Recorded)
    BY DEF MachineOK, Machines
  <2> HIDE DEF ps
  <2> QED BY <1>1, <2>1, ElementOfSeq DEF MachineOK
<1> HIDE DEF ps
<1>3. ps[1].kind = "set_feed" /\ \A k \in 1..n : ps[k].kind = "set_feed" => ps[k].feed > 0
  <2>1. 1 \in 1..n
    BY <1>1
  <2> QED BY <1>1, <1>2, <2>1, RecordedPrinted
<1>4. PICK g : Metering(g, ps) /\ NominalMetrics(ps) = g[n]
  BY <1>1, MetricsFold
<1> DEFINE I == {k \in Nat : k =< n => g[k].ok /\ (k # 0 => g[k].feed > 0)}
<1>5. 0 \in I
  BY <1>4 DEF Metering, Unmeasured
<1>6. ASSUME NEW k \in Nat, k \in I PROVE k + 1 \in I
  <2> SUFFICES ASSUME k + 1 =< n PROVE g[k + 1].ok /\ g[k + 1].feed > 0
    OBVIOUS
  <2> DEFINE m == g[k]
             move == ps[k + 1]
             to == Completed(move.targets, m.last)
             leg == Leg(m.last, to, m.feed)
             moving == leg.carriage # 0 \/ leg.mandrel # 0
  <2>1. k + 1 \in 1..n /\ k \in 0..n /\ (k + 1) - 1 = k /\ m.ok /\ (k # 0 => m.feed > 0)
    BY <1>1, <1>6
  <2>2. g[k + 1] = Measured(m, move)
    BY <1>4, <2>1 DEF Metering
  <2>3. m \in Metrics /\ move \in Moves
    BY <1>1, <1>4, <2>1 DEF Metering
  <2>4. /\ m = [last |-> m.last, feed |-> m.feed, legs |-> m.legs, ok |-> m.ok]
        /\ move.kind \in Kinds
    BY <2>3 DEF Metrics, Moves
  <2>5. k = 0 => move.kind = "set_feed"
    BY <1>3
  <2>6. move.kind = "set_feed" => move.feed > 0
    BY <1>3, <2>1
  <2>7. Measured(m, move) = CASE move.kind = "comment"      -> m
                              [] move.kind = "set_feed"     -> [m EXCEPT !.feed = move.feed]
                              [] move.kind = "set_position" -> [m EXCEPT !.last = to]
                              [] move.kind = "rapid"        ->
                                   [m EXCEPT !.last = to,
                                             !.legs = IF moving THEN Append(@, leg) ELSE @,
                                             !.ok = @ /\ (moving => m.feed > 0)]
    BY DEF Measured
  <2> HIDE DEF moving, leg, to, m, move
  <2>8. CASE move.kind = "rapid"
    <3>1. Measured(m, move).ok = (m.ok /\ (moving => m.feed > 0)) /\ Measured(m, move).feed = m.feed
      BY <2>4, <2>7, <2>8
    <3> QED BY <2>1, <2>2, <2>5, <2>8, <3>1
  <2>9. CASE move.kind = "set_feed"
    <3>1. Measured(m, move).ok = m.ok /\ Measured(m, move).feed = move.feed
      BY <2>4, <2>7, <2>9
    <3> QED BY <2>1, <2>2, <2>6, <2>9, <3>1
  <2>10. CASE move.kind \in {"comment", "set_position"}
    <3>1. Measured(m, move).ok = m.ok /\ Measured(m, move).feed = m.feed
      BY <2>4, <2>7, <2>10
    <3> QED BY <2>1, <2>2, <2>5, <2>10, <3>1
  <2> QED BY <2>4, <2>8, <2>9, <2>10 DEF Kinds
<1> HIDE DEF I
<1>7. Nat \subseteq I
  BY <1>5, <1>6, SetInduction
<1>8. g[n].ok
  BY <1>1, <1>7 DEF I
<1> QED BY <1>4, <1>8 DEF ps

-----------------------------------------------------------------------------
(* The legs of the layers, one after the other, are those of the program *)

\* y begins as x does.
Begins(x, y) == Len(x) =< Len(y) /\ \A i \in 1..Len(x) : y[i] = x[i]

LEMMA RestOf ==
  ASSUME NEW S, NEW x \in Seq(S), NEW y \in Seq(S), Begins(x, y)
  PROVE  LET rest == SubSeq(y, Len(x) + 1, Len(y))
         IN rest \in Seq(S) /\ x \o rest = y
<1> DEFINE m == Len(x)
           n == Len(y)
           rest == SubSeq(y, m + 1, n)
<1>1. m \in Nat /\ n \in Nat /\ m =< n /\ \A i \in 1..m : y[i] = x[i]
  BY DEF Begins
<1>2. rest \in Seq(S) /\ Len(rest) = n - m /\ \A i \in 1..(n - m) : rest[i] = y[m + i]
  <2>1. m + 1 \in 1..(n + 1) /\ n \in m..n /\ m + 1 =< n + 1
    BY <1>1
  <2> HIDE DEF m
  <2>2. rest = [i \in 1..(n - m) |-> y[(m + i)]]
    <3>1. \A i \in 1..(n - m) : i + (m + 1) - 1 = m + i
      BY <1>1
    <3> QED BY <1>1, <2>1, <3>1
  <2>3. \A i \in 1..(n - m) : y[m + i] \in S
    <3>1. \A i \in 1..(n - m) : m + i \in 1..n
      BY <1>1
    <3> QED BY <3>1, ElementOfSeq
  <2> HIDE DEF rest, n
  <2> QED BY <1>1, <2>2, <2>3
<1> DEFINE all == x \o rest
<1> HIDE DEF rest
<1>3. /\ all \in Seq(S) /\ Len(all) = m + Len(rest)
      /\ \A i \in 1..(m + Len(rest)) : all[i] = IF i <= m THEN x[i] ELSE rest[i - m]
  BY <1>2, ConcatProperties
<1> HIDE DEF all, m, n
<1>4. Len(all) = n
  BY <1>1, <1>2, <1>3
<1>5. ASSUME NEW i \in 1..n PROVE all[i] = y[i]
  <2>1. CASE i <= m
    BY <1>1, <1>2, <1>3, <2>1
  <2>2. CASE i > m
    <3>1. i - m \in 1..(n - m) /\ m + (i - m) = i
      BY <1>1, <2>2
    <3>2. all[i] = rest[i - m]
      BY <1>1, <1>2, <1>3, <2>2
    <3> QED BY <1>2, <3>1, <3>2
  <2> QED BY <1>1, <2>1, <2>2
<1>6. all = y
  BY <1>3, <1>4, <1>5, SeqEqual DEF n
<1> QED BY <1>2, <1>6 DEF rest, all, m, n

\* A move adds a leg or none.
LEMMA LegsAppended ==
  ASSUME NEW m \in Metrics, NEW move \in Moves
  PROVE  Measured(m, move).legs \in {m.legs} \cup {Append(m.legs, leg) : leg \in Legs}
<1> DEFINE to == Completed(move.targets, m.last)
           leg == Leg(m.last, to, m.feed)
           moving == leg.carriage # 0 \/ leg.mandrel # 0
<1>1. /\ m = [last |-> m.last, feed |-> m.feed, legs |-> m.legs, ok |-> m.ok]
      /\ move.kind \in Kinds /\ move.targets \in Targets /\ m.last \in Position6 /\ m.feed \in Int
  BY DEF Metrics, Moves
<1>2. to \in Position6
  BY <1>1, CompletedType
<1>3. Measured(m, move) = CASE move.kind = "comment"      -> m
                            [] move.kind = "set_feed"     -> [m EXCEPT !.feed = move.feed]
                            [] move.kind = "set_position" -> [m EXCEPT !.last = to]
                            [] move.kind = "rapid"        ->
                                 [m EXCEPT !.last = to,
                                           !.legs = IF moving THEN Append(@, leg) ELSE @,
                                           !.ok = @ /\ (moving => m.feed > 0)]
  BY DEF Measured
<1> HIDE DEF to
<1>4. leg \in Legs
  BY <1>1, <1>2 DEF Leg, Legs, Position6, Axis
<1> HIDE DEF leg, moving
<1>5. CASE move.kind = "rapid"
  <2>1. Measured(m, move).legs = IF moving THEN Append(m.legs, leg) ELSE m.legs
    BY <1>1, <1>3, <1>5
  <2> QED BY <1>4, <2>1
<1>6. CASE move.kind # "rapid"
  <2>1. Measured(m, move).legs = m.legs
    BY <1>1, <1>3, <1>6 DEF Kinds
  <2> QED BY <2>1
<1> QED BY <1>5, <1>6

LEMMA LegsBegin ==
  ASSUME NEW moves \in Seq(Moves), NEW g, Metering(g, moves),
         NEW j \in Nat, NEW k \in Nat, j =< k, k =< Len(moves)
  PROVE  Begins(g[j].legs, g[k].legs) /\ g[j].legs \in Seq(Legs) /\ g[k].legs \in Seq(Legs)
<1> DEFINE n == Len(moves)
           I == {i \in Nat : j =< i /\ i =< n => Begins(g[j].legs, g[i].legs)}
<1>1. n \in Nat /\ \A i \in 1..n : moves[i] \in Moves
  OBVIOUS
<1>2. \A i \in 0..n : g[i] \in Metrics /\ g[i].legs \in Seq(Legs)
  BY DEF Metering, Metrics
<1> HIDE DEF n
<1>3. 0 \in I
  BY DEF Begins
<1>4. ASSUME NEW i \in Nat, i \in I PROVE i + 1 \in I
  <2> SUFFICES ASSUME j =< i + 1, i + 1 =< n PROVE Begins(g[j].legs, g[i + 1].legs)
    OBVIOUS
  <2>1. CASE j = i + 1
    BY <2>1 DEF Begins
  <2>2. CASE j # i + 1
    <3>1. /\ j \in 0..n /\ i \in 0..n /\ i + 1 \in 1..n /\ (i + 1) - 1 = i
          /\ Begins(g[j].legs, g[i].legs)
      BY <1>1, <1>4, <2>2
    <3>2. g[i + 1] = Measured(g[i], moves[i + 1])
      BY <3>1 DEF Metering, n
    <3>3. g[i + 1].legs \in {g[i].legs} \cup {Append(g[i].legs, leg) : leg \in Legs}
      BY <1>1, <1>2, <3>1, <3>2, LegsAppended
    <3> DEFINE x == g[j].legs
               y == g[i].legs
               z == g[i + 1].legs
    <3>4. x \in Seq(Legs) /\ y \in Seq(Legs) /\ Begins(x, y)
          /\ z \in {y} \cup {Append(y, leg) : leg \in Legs}
      BY <1>2, <3>1, <3>3
    <3> HIDE DEF x, y, z
    <3>5. CASE z = y
      BY <3>4, <3>5 DEF x, z
    <3>6. CASE z # y
      <4>1. PICK leg \in Legs : z = Append(y, leg)
        BY <3>4, <3>6
      <4> QED BY <3>4, <4>1 DEF Begins, x, z
    <3> QED BY <3>5, <3>6
  <2> QED BY <2>1, <2>2
<1> HIDE DEF I
<1>5. Nat \subseteq I
  BY <1>3, <1>4, SetInduction
<1>6. j \in 0..n /\ k \in 0..n
  BY <1>1 DEF n
<1> QED BY <1>2, <1>5, <1>6 DEF I, n

\* The metrics of a prefix are those that were taken on the way.
LEMMA UptoPrefix ==
  ASSUME machine.moves \in Seq(Moves), NEW g, Metering(g, machine.moves),
         NEW k \in 0..Len(machine.moves)
  PROVE  Upto(k) = g[k].legs
<1> DEFINE ms == machine.moves
           pre == SubSeq(ms, 1, k)
<1>1. k \in Nat /\ k =< Len(ms) /\ Len(ms) \in Nat
  OBVIOUS
<1>2. pre \in Seq(Moves) /\ Len(pre) = k /\ \A i \in 1..k : pre[i] = ms[i]
  <2>1. pre = [i \in 1..k |-> ms[i]]
    BY <1>1
  <2>2. \A i \in 1..k : ms[i] \in Moves
    <3>1. \A i \in 1..k : i \in 1..Len(ms)
      BY <1>1
    <3> QED BY <3>1, ElementOfSeq
  <2> HIDE DEF pre, ms
  <2> QED BY <1>1, <2>1, <2>2
<1>3. Upto(k) = NominalMetrics(pre).legs
  BY DEF Upto
<1> HIDE DEF pre
<1>4. PICK h : Metering(h, pre) /\ NominalMetrics(pre) = h[k]
  BY <1>2, MetricsFold
<1>5. Agree(ms, pre, 0, k) /\ 0 + k =< Len(ms) /\ k =< Len(pre) /\ g[0] = Unmeasured
  <2>1. \A i \in 1..k : 0 + i = i
    BY <1>1
  <2> QED BY <1>1, <1>2, <2>1 DEF Agree, Metering
<1>6. 0 \in Nat
  OBVIOUS
<1> HIDE DEF ms
<1>7. \A i \in 0..k : g[0 + i] = h[i]
  BY <1>1, <1>2, <1>4, <1>5, <1>6, MeteringAgrees DEF ms
<1>8. k \in 0..k /\ 0 + k = k
  BY <1>1
<1>9. g[k] = h[k]
  BY <1>7, <1>8
<1> QED BY <1>3, <1>4, <1>9
\* Ended layers, one after the other, have the legs of the whole program.
LEMMA LayersAddUp ==
  ASSUME PathInv, stage # "layer", records # <<>>
  PROVE  FlattenSeq([i \in DOMAIN records |-> LayerLegs(i)]) = TotalLegs
<1> DEFINE ms == machine.moves
           n == Len(records)
           last == Len(ms)
           seqs == [i \in DOMAIN records |-> LayerLegs(i)]
<1>1. ms \in Seq(Moves) /\ last \in Nat
  <2>1. ms \in Seq(Recorded) /\ Recorded \subseteq Moves
    BY DEF PathInv, MachineOK, Machines, Recorded
  <2> HIDE DEF ms
  <2>2. ms \in Seq(Moves)
    BY <2>1, SeqMonotonic
  <2> QED BY <2>2
<1>2. /\ n \in Nat \ {0} /\ DOMAIN records = 1..n
      /\ \A i \in 1..n : records[i].after \in Nat
  <2>1. records \in Seq([before : Nat, after : Nat])
    BY DEF PathInv, LayersOK
  <2>2. \A r \in [before : Nat, after : Nat] : r.after \in Nat
    OBVIOUS
  <2>3. n \in Nat \ {0} /\ DOMAIN records = 1..n
    BY <2>1
  <2>4. \A i \in 1..n : records[i] \in [before : Nat, after : Nat]
    BY <2>1, ElementOfSeq
  <2> QED BY <2>2, <2>3, <2>4
<1>3. /\ \A i \in 1..n : /\ records[i].after =< last
                         /\ i > 1 => records[i - 1].after =< records[i].after
      /\ records[n].after = last
  BY DEF PathInv, LayersOK, Ended
<1>4. PICK g : Metering(g, ms) /\ NominalMetrics(ms) = g[last]
  BY <1>1, MetricsFold
<1>5. ASSUME NEW i \in 1..n
      PROVE  Upto(records[i].after) = g[records[i].after].legs
  <2>1. records[i].after \in 0..Len(machine.moves)
    BY <1>1, <1>2, <1>3
  <2>2. machine.moves \in Seq(Moves) /\ Metering(g, machine.moves)
    BY <1>1, <1>4
  <2> QED BY <2>1, <2>2, UptoPrefix
<1> DEFINE at(i) == IF i = 0 THEN <<>> ELSE g[records[i].after].legs
<1>6. TotalLegs = at(n)
  BY <1>2, <1>3, <1>4 DEF TotalLegs
<1>7. ASSUME NEW i \in 1..n
      PROVE  LayerLegs(i) \in Seq(Legs) /\ Joined(at(i), at(i - 1), LayerLegs(i)) /\ at(i) \in Seq(Legs)
  <2> DEFINE x == at(i - 1)
             y == at(i)
             before == IF i = 1 THEN <<>> ELSE Upto(records[i - 1].after)
  <2>1. i \in Nat /\ i # 0 /\ (i # 1 => i - 1 \in 1..n /\ i - 1 # 0) /\ (i = 1 => i - 1 = 0)
    BY <1>2
  <2>2. before = x
    BY <1>5, <2>1
  <2>3. Upto(records[i].after) = y
    BY <1>5, <2>1
  <2>4. LayerLegs(i) = SubSeq(y, Len(x) + 1, Len(y))
    BY <2>2, <2>3 DEF LayerLegs
  <2>5. x \in Seq(Legs) /\ y \in Seq(Legs) /\ Begins(x, y)
    <3>1. CASE i = 1
      <4>1. x = <<>>
        BY <2>1, <3>1
      <4>2. y \in Seq(Legs)
        <5>1. records[i].after \in Nat /\ records[i].after =< Len(ms)
          BY <1>2, <1>3
        <5> HIDE DEF ms
        <5>2. g[records[i].after].legs \in Seq(Legs)
          BY <1>1, <1>4, <5>1, LegsBegin
        <5> QED BY <2>1, <5>2
      <4> HIDE DEF x, y
      <4> QED BY <4>1, <4>2 DEF Begins
    <3>2. CASE i # 1
      <4> DEFINE j == records[i - 1].after
                 k == records[i].after
      <4>1. j \in Nat /\ k \in Nat /\ j =< k /\ k =< Len(ms)
        BY <1>2, <1>3, <2>1, <3>2
      <4>2. x = g[j].legs /\ y = g[k].legs
        BY <2>1, <3>2
      <4> HIDE DEF j, k, x, y, ms
      <4> QED BY <1>1, <1>4, <4>1, <4>2, LegsBegin
    <3> QED BY <3>1, <3>2
  <2> HIDE DEF x, y
  <2>6. SubSeq(y, Len(x) + 1, Len(y)) \in Seq(Legs) /\ x \o SubSeq(y, Len(x) + 1, Len(y)) = y
    BY <2>5, RestOf
  <2>7. Joined(y, x, LayerLegs(i))
    BY <2>4, <2>6 DEF Joined
  <2> QED BY <2>4, <2>5, <2>6, <2>7 DEF x, y
<1>8. at(0) = <<>>
  OBVIOUS
<1> HIDE DEF at
<1>9. seqs \in Seq(Seq(Legs)) /\ Len(seqs) = n /\ \A i \in 1..n : seqs[i] = LayerLegs(i)
  <2> HIDE DEF n
  <2> QED BY <1>2, <1>7
<1> HIDE DEF seqs, n
<1>10. PICK f : Flattening(f, seqs, Legs) /\ FlattenSeq(seqs) = f[n]
  BY <1>9, FlattenFold
<1>11. f[0] = <<>> /\ \A i \in 1..n : f[i] = f[i - 1] \o seqs[i]
  BY <1>9, <1>10 DEF Flattening
<1> DEFINE I == {i \in Nat : i =< n => f[i] = at(i)}
<1>12. 0 \in I
  BY <1>8, <1>11
<1>13. ASSUME NEW i \in Nat, i \in I PROVE i + 1 \in I
  <2> SUFFICES ASSUME i + 1 =< n PROVE f[i + 1] = at(i + 1)
    OBVIOUS
  <2>1. i + 1 \in 1..n /\ (i + 1) - 1 = i /\ f[i] = at(i)
    BY <1>2, <1>13
  <2>2. f[i + 1] = f[i] \o LayerLegs(i + 1)
    BY <1>9, <1>11, <2>1
  <2>3. at(i + 1) = at(i) \o LayerLegs(i + 1)
    BY <1>7, <2>1 DEF Joined
  <2> QED BY <2>1, <2>2, <2>3
<1> HIDE DEF I
<1>14. Nat \subseteq I
  BY <1>12, <1>13, SetInduction
<1>15. f[n] = at(n)
  BY <1>2, <1>14 DEF I
<1> QED BY <1>6, <1>10, <1>15 DEF seqs, n

-----------------------------------------------------------------------------
(* What is read of a plan is the plan *)

\* Of the text of a plan, its comment apart.
LEMMA PlanReadBack ==
  ASSUME PathInv, stage = "read", records # <<>>
  PROVE  /\ machine.verbose \/ Serialize(program) = text
         /\ NominalMetrics(program) = NominalMetrics(PrintedMoves)
<1> DEFINE plan == PlannedProgram
           read == RereadAll(plan)
           n == Len(machine.moves)
           ps == PrintedMoves
<1>1. MachineOK /\ machine.verbose \in BOOLEAN /\ text = Written /\ program = ReadProgram(text)
  BY DEF PathInv, MachineOK, Machines, TextOK
<1>2. plan \in Seq(Moves)
  BY <1>1, WrittenType
<1>3. /\ Serialize(plan) \in Seq(LegibleLines) /\ ReadProgram(Serialize(plan)) = read
      /\ Serialize(read) = Serialize(plan)
  BY <1>2, WrittenRead
<1>4. /\ ps \in Seq(Moves) /\ Len(ps) = n /\ n \in Nat \ {0}
      /\ read \in Seq(Moves) /\ Len(read) = n + 1 /\ read[1] = Rapid(Home)
      /\ \A k \in 1..n : read[k + 1] = ps[k]
  BY <1>1, PlanRead
<1> HIDE DEF plan, read, n, ps
<1>5. CASE ~machine.verbose
  <2>1. text = Serialize(plan)
    <3>1. \A s \in Seq(LegibleLines) : <<>> \o s = s
      OBVIOUS
    <3>2. text = <<>> \o Serialize(plan)
      BY <1>1, <1>5 DEF Written, plan
    <3> QED BY <1>3, <3>1, <3>2
  <2>2. program = read
    BY <1>1, <1>3, <2>1
  <2>3. NominalMetrics(read) = NominalMetrics(ps)
    <3>1. 1 \in Nat /\ Len(read) = 1 + Len(ps) /\ \A k \in 1..Len(ps) : read[1 + k] = ps[k]
      <4>1. \A k \in 1..n : 1 + k = k + 1
        OBVIOUS
      <4> QED BY <1>4, <4>1
    <3>2. \A k \in 1..1 : read[k] = Comment \/ read[k] = Rapid(Home)
      BY <1>4
    <3> QED BY <1>4, <3>1, <3>2, SameMetrics
  <2> QED BY <1>3, <2>1, <2>2, <2>3 DEF ps
<1>6. CASE machine.verbose
  <2>1. text = <<CommentLine>> \o Serialize(plan)
    BY <1>1, <1>6 DEF Written, plan
  <2>2. CommentLine \in LegibleLines /\ ReadLine(CommentLine) = <<Comment>>
    <3>1. NoTargets \in Targets
      BY TargetsMeans DEF NoTargets
    <3>2. ";" \in Opcodes
      BY DEF Opcodes, CommentLine, Line
    <3>3. 0 \in Int
      OBVIOUS
    <3>4. CommentLine \in LegibleLines
      BY <3>1, <3>2, <3>3, LineMade DEF CommentLine
    <3>5. ReadLine(CommentLine) = <<Comment>>
      BY DEF ReadLine, Header, CommentLine, Line, ModalOpcodes
    <3> QED BY <3>4, <3>5
  <2>3. program = <<Comment>> \o read
    BY <1>1, <1>3, <2>1, <2>2, ReadMore
  <2>4. Comment \in Moves
    <3>1. NoTargets \in Targets
      BY TargetsMeans DEF NoTargets
    <3>2. 0 \in Int
      OBVIOUS
    <3> QED BY <3>1, <3>2, MovesMade
  <2>5. /\ program \in Seq(Moves) /\ Len(program) = n + 2 /\ program[1] = Comment
        /\ \A k \in 1..(n + 1) : program[k + 1] = read[k]
    <3> DEFINE c == Comment
    <3>1. program = <<c>> \o read /\ c \in Moves
      BY <2>3, <2>4
    <3> HIDE DEF c
    <3>2. program \in Seq(Moves) /\ Len(program) = n + 2 /\ program[1] = c
          /\ \A k \in 1..(n + 1) : program[k + 1] = read[k]
      BY <1>4, <3>1
    <3> QED BY <3>2 DEF c
  <2>6. /\ 2 \in Nat /\ Len(program) = 2 + Len(ps)
        /\ \A k \in 1..Len(ps) : program[2 + k] = ps[k]
    <3>1. ASSUME NEW k \in 1..n PROVE program[2 + k] = ps[k]
      <4>1. k + 1 \in 1..(n + 1) /\ (k + 1) + 1 = 2 + k
        BY <1>4
      <4> QED BY <1>4, <2>5, <4>1
    <3> QED BY <1>4, <2>5, <3>1
  <2>7. \A k \in 1..2 : program[k] = Comment \/ program[k] = Rapid(Home)
    <3>1. 1 \in 1..(n + 1) /\ 1 + 1 = 2
      BY <1>4
    <3>2. program[2] = Rapid(Home)
      BY <1>4, <2>5, <3>1
    <3>3. \A k \in 1..2 : k = 1 \/ k = 2
      OBVIOUS
    <3> QED BY <2>5, <3>2, <3>3
  <2>8. NominalMetrics(program) = NominalMetrics(ps)
    BY <1>4, <2>5, <2>6, <2>7, SameMetrics
  <2> QED BY <1>6, <2>8 DEF ps
<1> QED BY <1>1, <1>5, <1>6

-----------------------------------------------------------------------------
(* Theorems *)

\* Every move of WinderMachine is one of the four kinds of the Motion IR with whole
\* positions, and a program goes through the stages in which plan_wind, serialize and
\* read_program leave it.
THEOREM PathTypeCorrect == PathSpec => []PathTypeOK
<1>1. PathInv => PathTypeOK
  <2> SUFFICES ASSUME PathInv PROVE PathTypeOK
    OBVIOUS
  <2>1. /\ machine.last \in [Axis -> Int] /\ machine.verbose \in BOOLEAN
        /\ machine.moves \in Seq(Recorded)
    BY DEF PathInv, MachineOK, Machines, Position6
  <2>2. \A k \in DOMAIN machine.moves :
          machine.moves[k].kind \in {"rapid", "set_feed", "set_position", "comment"}
    <3>1. \A m \in Recorded : m.kind \in {"rapid", "set_feed", "set_position", "comment"}
      BY DEF Recorded, Moves, Kinds
    <3> DEFINE ms == machine.moves
    <3> HIDE DEF ms
    <3>2. \A k \in DOMAIN ms : ms[k].kind \in {"rapid", "set_feed", "set_position", "comment"}
      BY <2>1, <3>1, ElementOfSeq DEF ms
    <3> QED BY <3>2 DEF ms
  <2> QED BY <2>1, <2>2 DEF PathInv, LayersOK, TextOK, Stages, PathTypeOK
<1> QED BY <1>1, PathInvHolds, PTL

\* render_plot draws a leg for every motion that nominal_metrics counts, as long as it,
\* with every G92 honoured; and _split_segment breaks none of them: its pieces join,
\* stay on the mandrel and rise together by what the leg does.  So it is for every
\* program that read_program accepts, planned or written elsewhere.
THEOREM PlotIsTheTrack == PathSpec => []PlotFollowsTrack
<1>1. PathInv => PlotFollowsTrack
  <2> SUFFICES ASSUME PathInv, stage = "read"
               PROVE  LET drawn == PlotLegs(program)
                          counted == NominalMetrics(program).legs
                      IN /\ Len(drawn) = Len(counted)
                         /\ \A k \in DOMAIN drawn :
                              /\ drawn[k].to.x - drawn[k].from.x = counted[k].carriage
                              /\ Rise(drawn[k]) = counted[k].mandrel
                              /\ Unbroken(drawn[k])
    BY DEF PlotFollowsTrack
  <2> QED BY ProgramType, PlotIsTrack
<1> QED BY <1>1, PathInvHolds, PTL

\* read_program undoes serialize: what is read of a text is written again as it was, a
\* plan's simulated legs are the planner's up to the printed digits, each of them under
\* a feed rate, and the layers that plan_wind reports on are the whole program.
THEOREM ReadBackGivesPlan == PathSpec => []ReadBackIsPlan
<1>1. PathInv => ReadBackIsPlan
  <2> SUFFICES ASSUME PathInv, stage = "read"
               PROVE  /\ Serialize(ReadProgram(Serialize(program))) = Serialize(program)
                      /\ Planned =>
                           /\ machine.verbose \/ Serialize(program) = text
                           /\ NominalMetrics(program).ok
                           /\ NominalMetrics(program).legs = NominalMetrics(PrintedMoves).legs
                           /\ FlattenSeq([i \in DOMAIN records |-> LayerLegs(i)]) = TotalLegs
    BY DEF ReadBackIsPlan
  <2>1. Serialize(ReadProgram(Serialize(program))) = Serialize(program)
    <3>1. program \in Seq(Moves)
      BY ProgramType
    <3> QED BY <3>1, WrittenRead
  <2>2. ASSUME records # <<>>
        PROVE  /\ machine.verbose \/ Serialize(program) = text
               /\ NominalMetrics(program).ok
               /\ NominalMetrics(program).legs = NominalMetrics(PrintedMoves).legs
    <3>1. /\ machine.verbose \/ Serialize(program) = text
          /\ NominalMetrics(program) = NominalMetrics(PrintedMoves)
      BY <2>2, PlanReadBack
    <3>2. NominalMetrics(PrintedMoves).ok
      BY PlanIsMeasured DEF PathInv
    <3> QED BY <3>1, <3>2
  <2>3. ASSUME records # <<>>
        PROVE  FlattenSeq([i \in DOMAIN records |-> LayerLegs(i)]) = TotalLegs
    BY <2>3, LayersAddUp
  <2> QED BY <2>1, <2>2, <2>3 DEF Planned
<1> QED BY <1>1, PathInvHolds, PTL

\* A behaviour of planning winds, and is then one of the planner with an idle toolpath,
\* or makes a toolpath beside an idle planner.
LEMMA PlanningParts == PlanningSpec => Spec /\ PathSpec
<1>1. PlanningInit => Init /\ PathInit
  BY DEF PlanningInit
<1>2. [Winding \/ Pathing]_<<vars, pathVars, part>> => [Next]_vars /\ [PathNext]_pathVars
  BY DEF Winding, Pathing
<1> QED BY <1>1, <1>2, PTL DEF PlanningSpec, Spec, PathSpec

\* The planner's winding state and the toolpath keep their types side by side.
THEOREM PlanningTypeCorrect == PlanningSpec => []PlanningTypeOK
BY PlanningParts, PlannerTypeCorrect, PathTypeCorrect, PTL DEF PlanningTypeOK
=============================================================================
