------------------------------- MODULE Gcode --------------------------------
(***************************************************************************)
(* G-code text: what gcode/serializer.py writes of a program of the Motion *)
(* IR and what gcode/reader.py reads, from it or from elsewhere.  A line   *)
(* is its opcode, its axis words, its F word (0 for none) and, of a        *)
(* comment, nothing.                                                       *)
(***************************************************************************)
EXTENDS MotionIR

Line(op, targets, f) == [op |-> op, targets |-> targets, feed |-> f]
Header == Line("; Parameters", NoTargets, 0)
CommentLine == Line(";", NoTargets, 0)
Modal(op) == Line(op, NoTargets, 0)

\* MarlinDialect.prologue: units, absolute positioning, feed mode.
Prologue == <<Modal("G21"), Modal("G90"), Modal("G94")>>

\* strip_precision, word by word.
Printed(targets) == [a \in DOMAIN targets |-> RoundTo(targets[a], Digit)]

RenderMove(move) ==
  CASE move.kind = "comment"      -> CommentLine
    [] move.kind = "set_feed"     -> Line("G0", NoTargets, RoundTo(move.feed, Digit))
    [] move.kind = "set_position" -> Line("G92", Printed(move.targets), 0)
    [] move.kind = "rapid"        -> Line("G0", Printed(move.targets), 0)

Serialize(moves) ==
  <<Header>> \o Prologue \o [k \in DOMAIN moves |-> RenderMove(moves[k])]

-----------------------------------------------------------------------------

ModalOpcodes == {"G21", "G90", "G94"}

\* read_program refuses a text without the header, and any other opcode or axis.
Readable(text) ==
  /\ \E k \in DOMAIN text : text[k] = Header
  /\ \A k \in DOMAIN text :
       text[k].op \in ModalOpcodes \cup {Header.op, CommentLine.op, "G0", "G1", "G92"}

\* Mutant: the rapid of a line that holds nothing but a feed rate is kept.
ReadMotionAlways(l) ==
  (IF l.feed # 0 THEN <<SetFeed(l.feed)>> ELSE <<>>) \o <<Rapid(l.targets)>>

\* A feed rate goes before the motion it came with; a line without either is a
\* rapid that moves nothing.
ReadMotion(l) ==
  (IF l.feed # 0 THEN <<SetFeed(l.feed)>> ELSE <<>>)
    \o (IF l.targets # NoTargets \/ l.feed = 0 THEN <<Rapid(l.targets)>> ELSE <<>>)

ReadLine(l) ==
  CASE l.op = Header.op \/ l.op \in ModalOpcodes -> <<>>
    [] l.op = CommentLine.op                     -> <<Comment>>
    [] l.op = "G92"                              -> <<SetPosition(l.targets)>>
    [] l.op \in {"G0", "G1"}                     -> ReadMotion(l)

ReadProgram(text) == FlattenSeq([k \in DOMAIN text |-> ReadLine(text[k])])
=============================================================================
