------------------------------ MODULE Toolpath ------------------------------
(***************************************************************************)
(* A program from the planner's calls to its consumers: plan_wind drives   *)
(* the machine layer by layer, takes the metrics of every layer and writes *)
(* G-code (planning/planner.py, planning/developed.py); the text, or one   *)
(* that was written elsewhere, is read back for the simulator and the      *)
(* plotter (simulation/simulator.py, visualization/plotter.py).            *)
(***************************************************************************)
EXTENDS Gcode, Plotter

CONSTANTS
  FeedRates,   \* values of defaultFeedRate, at least a printed digit
  Waypoints,   \* what a waypoint, or the near lock, hands to move()
  Lines,       \* bound: lines of a text that was written elsewhere
  MaxCalls,    \* bound: waypoints and zeroings of a program
  MaxLayers,   \* bound: layers of a program
  MaxLines     \* bound: lines of a text that was written elsewhere

ASSUME ToolpathAssumption ==
  /\ FeedRates \subseteq Nat /\ \A f \in FeedRates : f >= Digit
  /\ \A t \in Waypoints : DOMAIN t \subseteq Axis /\ t \in [DOMAIN t -> Int]
  /\ \A l \in Lines : /\ DOMAIN l.targets \subseteq Axis
                        /\ l.targets \in [DOMAIN l.targets -> Int] /\ l.feed \in Int
  /\ MaxCalls \in Nat /\ MaxLayers \in Nat /\ MaxLines \in Nat

VARIABLES
  stage,     \* "between" layers, in a "layer", "written", "authored", "read", "refused"
  machine,   \* the WinderMachine
  records,   \* layer_records: the number of moves before and after each layer
  text,      \* the G-code
  program,   \* the moves of the program that was read
  calls      \* history: calls so far

pathVars == <<stage, machine, records, text, program, calls>>

PathInit ==
  /\ stage \in {"between", "authored"}
  /\ \E f \in FeedRates, v \in BOOLEAN : machine = NewMachine(f, v)
  /\ records = <<>> /\ text = <<>> /\ program = <<>> /\ calls = 0

Call(w) == machine' = w /\ calls < MaxCalls /\ calls' = calls + 1

\* The summary of the layer, and the place where its moves begin.
BeginLayer ==
  /\ stage = "between" /\ Len(records) < MaxLayers
  /\ stage' = "layer"
  /\ machine' = Commented(machine)
  /\ records' = Append(records, [before |-> Len(machine'.moves), after |-> 0])
  /\ UNCHANGED <<text, program, calls>>

\* The near lock, and the G92 that follows it unless the layer is a hoop.
NearLock ==
  /\ stage = "layer" /\ Len(machine.moves) = records[Len(records)].before
  /\ \E t \in Waypoints :
       LET locked == Moved(machine, [Home EXCEPT !["mandrel"] = Completed(t, Home).mandrel])
       IN Call(locked) \/ Call(Positioned(locked, [a \in {"mandrel"} |-> 0]))
  /\ UNCHANGED <<stage, records, text, program>>

Waypoint ==
  /\ stage = "layer"
  /\ \E t \in Waypoints : Call(Moved(machine, t)) \/ Call(Moved(Commented(machine), t))
  /\ UNCHANGED <<stage, records, text, program>>

\* All but a terminal layer end with zero_axes at the angle they have come to.
EndLayer ==
  /\ stage = "layer" /\ stage' = "between"
  /\ machine' \in {machine, Zeroed(machine, machine.last.mandrel)}
  /\ records' = [records EXCEPT ![Len(records)].after = Len(machine'.moves)]
  /\ UNCHANGED <<text, program, calls>>

\* plan_wind: the metrics of a layer are the difference of two prefixes.
Upto(k) == NominalMetrics(SubSeq(machine.moves, 1, k)).legs
LayerLegs(i) ==
  LET before == IF i = 1 THEN <<>> ELSE Upto(records[i - 1].after)
  IN SubSeq(Upto(records[i].after), Len(before) + 1, Len(Upto(records[i].after)))
TotalLegs == NominalMetrics(machine.moves).legs

\* The init move comes first, and a verbose program begins with a comment.
PlannedProgram == <<Rapid(Home)>> \o machine.moves
Write ==
  /\ stage = "between" /\ stage' = "written"
  /\ text' = (IF machine.verbose THEN <<CommentLine>> ELSE <<>>) \o Serialize(PlannedProgram)
  /\ UNCHANGED <<machine, records, program, calls>>

Author ==
  /\ stage = "authored" /\ Len(text) < MaxLines
  /\ \E l \in Lines : text' = Append(text, l)
  /\ UNCHANGED <<stage, machine, records, program, calls>>

Read ==
  /\ stage \in {"written", "authored"}
  /\ stage' = IF Readable(text) THEN "read" ELSE "refused"
  /\ program' = IF Readable(text) THEN ReadProgram(text) ELSE program
  /\ UNCHANGED <<machine, records, text, calls>>

PathNext ==
  BeginLayer \/ NearLock \/ Waypoint \/ EndLayer \/ Write \/ Author \/ Read

PathSpec == PathInit /\ [][PathNext]_pathVars

-----------------------------------------------------------------------------
(* Properties *)

PathTypeOK ==
  /\ stage \in {"between", "layer", "written", "authored", "read", "refused"}
  /\ machine.last \in [Axis -> Int] /\ machine.verbose \in BOOLEAN
  /\ \A k \in DOMAIN machine.moves :
       machine.moves[k].kind \in {"rapid", "set_feed", "set_position", "comment"}
  /\ Len(records) <= MaxLayers /\ calls \in 0..MaxCalls

Planned == records # <<>>

\* What a printed program has lost: the digits after the last.
PrintedMove(move) == [move EXCEPT !.targets = Printed(@), !.feed = RoundTo(@, Digit)]
PrintedMoves == [k \in DOMAIN machine.moves |-> PrintedMove(machine.moves[k])]

\* gcode/reader.py:9 "read_program is the inverse of serialize", simulation/
\* simulator.py:9-10 "the planner's and simulator's reported time agree": the text
\* of a plan is written again as it was (a verbose one loses the order of its first
\* lines), the simulator sees the legs of the plan up to the printed digits, and the
\* layers' metrics add up to those of the program.  A text from elsewhere is written
\* in a form that no longer changes.
ReadBackIsPlan ==
  stage = "read" =>
    /\ Serialize(ReadProgram(Serialize(program))) = Serialize(program)
    /\ Planned =>
         /\ machine.verbose \/ Serialize(program) = text
         /\ NominalMetrics(program).ok
         /\ NominalMetrics(program).legs = NominalMetrics(PrintedMoves).legs
         /\ FlattenSeq([i \in DOMAIN records |-> LayerLegs(i)]) = TotalLegs

\* Of a leg that is cut at the seam: the pieces go on where the one before ended,
\* stay on the mandrel, and together rise by what the leg does, less what is skipped
\* at each cut.  Each is drawn as it is, but one: a piece that goes up to the seam is
\* drawn to the bottom of the image and not to its top, back over the band.
Rise(s) == s.to.y - s.from.y
TotalRise(pieces) ==
  LET risen[k \in 0..Len(pieces)] ==
        IF k = 0 THEN 0 ELSE risen[k - 1] + Rise(pieces[k])
  IN risen[Len(pieces)]
Unbroken(leg) ==
  LET pieces == SplitSegment(leg.from, leg.to)
      cuts == Len(pieces) - 1
      up == leg.to.y > leg.from.y
      rise == TotalRise(pieces)
  IN /\ cuts = Length(Band(leg.from.y), Band(leg.to.y))
     /\ pieces[1].from.x = leg.from.x /\ pieces[cuts + 1].to.x = leg.to.x
     /\ \A i \in 1..cuts : pieces[i].to.x = pieces[i + 1].from.x
     /\ \A i \in DOMAIN pieces :
          /\ {pieces[i].from.y, pieces[i].to.y} \subseteq 0..Revolution
          /\ Length(pieces[i].from.y, pieces[i].to.y) <= Length(leg.from.y, leg.to.y) + Seam
     /\ Rise(leg) = (IF up THEN rise + cuts * Seam ELSE rise - cuts * Seam)
     /\ \A i \in DOMAIN pieces :
          Drawn(pieces[i]) = IF up /\ i <= cuts THEN [pieces[i] EXCEPT !.to.y = 0] ELSE pieces[i]

\* visualization/plotter.py:5-8: the segments of the plot are exactly the legs that the
\* metrics count, G92s honoured, and lose none of their way where they are cut at the
\* seam; the image shows them so except at the upward cuts.
PlotFollowsTrack ==
  stage = "read" =>
    LET drawn == PlotLegs(program)
        counted == NominalMetrics(program).legs
    IN /\ Len(drawn) = Len(counted)
       /\ \A k \in DOMAIN drawn :
            /\ drawn[k].to.x - drawn[k].from.x = counted[k].carriage
            /\ Rise(drawn[k]) = counted[k].mandrel
            /\ Unbroken(drawn[k])
=============================================================================
