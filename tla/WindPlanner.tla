---------------------------- MODULE WindPlanner ----------------------------
(***************************************************************************)
(* plan_wind and what it drives: the layer validators, the developed-path  *)
(* builders and the WinderMachine.  Layers are planned one after another;  *)
(* a builder's waypoint is lowered to the machine in the step that builds  *)
(* it (the code builds a layer's path first; nothing happens in between).  *)
(*                                                                         *)
(* Angles are integers, Turn of them to 360 degrees; lengths are integers. *)
(* What the code computes from the wind angle with trigonometry (circuit   *)
(* count, mandrel rotation up to a station) is a record of inputs.         *)
(***************************************************************************)
EXTENDS Integers, Sequences, FiniteSets, FiniteSetsExt, PythonRound

CONSTANTS
    Turn,       \* 360 degrees
    Surfaces,   \* mandrels; see SurfaceType
    Patterns,   \* values of patternNumber
    Skips,      \* values of skipIndex
    Locks,      \* values of lockDegrees
    LeadIns,    \* values of leadInMM
    LeadOuts,   \* values of leadOutDegrees
    Rotations,  \* values of mandrelRotation of a skip layer
    Pitch       \* the mandrel's rotation in one hoop pass

VARIABLES
    surface,    \* surface_from_mandrel(mandrel_parameters)
    terminal,   \* encountered_terminal
    phase,      \* where plan_wind is
    layer,      \* the layer being planned, or the one rejected
    reason,     \* why the definition was rejected
    pass,       \* [circuit, back, station]: where the path builder is
    angle,      \* mandrel_position of the builder
    pos,        \* WinderMachine._last_position
    offset,     \* physical minus logical position (G92), mandrel mod Turn
    datum,      \* history: the mandrel's offset when laying began
    laid        \* history: <<back, station, physical angle>> of laid points

vars == <<surface, terminal, phase, layer, reason, pass, angle, pos, offset,
          datum, laid>>

Shapes == {"cylinder", "cone", "profile"}
Frictions == {"none", "within", "beyond"}   \* lambda: 0, up to slipLimit, above it
Reasons == {"none", "sequence", "hoop", "bounds", "friction", "orientation",
            "reach", "skip", "coprime", "leadIn", "circuits", "slot", "alias"}
Phases == {"next", "prologue", "start", "lay", "leadOut", "close", "far",
           "near", "zero", "done", "rejected"}

\* A winding is what a wind angle comes to on a surface: the wound band (up to
\* the cap on a profile), the circuit count, and the mandrel's rotation from
\* the near end to each axial station.
SurfaceType(s) ==
    /\ s.shape \in Shapes
    /\ s.length \in Nat \ {0}
    /\ s.reducing \in BOOLEAN
    /\ \A w \in s.windings :
          /\ w.inBounds \in BOOLEAN
          /\ w.reaches \in BOOLEAN
          /\ w.band \in 1..s.length
          /\ w.circuits \in Nat \ {0}
          /\ Turn % w.circuits = 0
          /\ w.wrap \in [0..w.band -> Nat]
          /\ w.wrap[0] = 0
          /\ \A y, z \in 0..w.band : y =< z => w.wrap[y] =< w.wrap[z]
          /\ s.shape = "cylinder" => \A z \in 0..w.band : w.wrap[z] = z * w.wrap[1]

ASSUME PlannerAssumption ==
    /\ Turn \in Nat \ {0}
    /\ \A s \in Surfaces : SurfaceType(s)
    /\ Patterns \cup Skips \cup Locks \cup LeadIns \cup LeadOuts \subseteq Nat \ {0}
    /\ Rotations \subseteq Int
    /\ Pitch \in Nat
    /\ \A p \in Patterns : Turn % (2 * p) = 0

HelicalLayers(s) ==
    [kind : {"helical"}, winding : s.windings, pattern : Patterns, skip : Skips,
     lock : Locks, leadIn : LeadIns, leadOut : LeadOuts,
     skipNearLock : BOOLEAN, friction : Frictions]
HoopLayers == [kind : {"hoop"}, terminal : BOOLEAN]
SkipLayers == [kind : {"skip"}, rotation : Rotations]
LayersOn(s) == HelicalLayers(s) \cup HoopLayers \cup SkipLayers
NoLayer == [kind |-> "none"]

(***************************************************************************)
(* Validation                                                              *)
(***************************************************************************)
Distance(a, b) == IF a < b THEN b - a ELSE a - b
Coprime(a, b) == \A d \in 2..b : ~(a % d = 0 /\ b % d = 0)

Slot(l) == Turn \div l.pattern                     \* pattern_step_deg
PatternStep(l) == Turn \div l.winding.circuits     \* pattern_step_degrees

\* Condition 1 (divisibility) and condition 2 (non-aliasing) on lockDegrees.
OnSlotsOnePass(l, lock) == lock % Slot(l) = 0          \* mutant: one pass's lock only
OnSlots(l, lock) == ((2 * lock) % Turn) % Slot(l) = 0
Stride(l, lock) == (((((2 * lock) % Turn) + l.skip * Slot(l)) % Turn) \div Slot(l)) % l.pattern
ValidLockAliased(l, lock) == OnSlots(l, lock)          \* mutant: no condition 2
ValidLock(l, lock) == OnSlots(l, lock) /\ Coprime(Stride(l, lock), l.pattern)

\* Mutant: the half steps themselves, condition 2 unchecked.
NearestSlotLocks(l) ==
    LET half == Slot(l) \div 2
    IN  {(RoundDiv(l.lock, half) + d) * half : d \in 0..2}

\* What a rejection suggests: of the half steps within 16 of the layer's own,
\* the valid ones in ascending order, until there are three.
NearestValidLocks(l) ==
    LET half   == Slot(l) \div 2
        centre == RoundDiv(l.lock, half)
        found  == {v \in {(centre + d) * half : d \in -16..16} : v > 0 /\ ValidLock(l, v)}
    IN  {v \in found : Cardinality({w \in found : w < v}) < 3}

\* The checks in the order they are made; the first that fails is reported.
Checks == <<"sequence", "hoop", "bounds", "friction", "orientation", "reach",
            "skip", "coprime", "leadIn", "circuits", "slot", "alias">>

TerminalUnchecked == FALSE                             \* mutant: guard dropped
AfterTerminal == terminal
LeadInUnchecked(l) == FALSE                            \* mutant: guard dropped
LeadInTooLong(l) == l.leadIn >= l.winding.band

\* A hoop layer needs a cylinder.
HoopUnsupported(l) == l.kind = "hoop" /\ surface.shape # "cylinder"

\* What is checked of a helical layer before its coverage, surface by surface.
CylinderFails(l, r) ==
    \/ r = "bounds" /\ ~l.winding.inBounds
    \/ r = "friction" /\ l.friction # "none"
ConeFails(l, r) ==
    \/ r = "bounds" /\ ~l.winding.inBounds
    \/ r = "friction" /\ l.friction # "none"
    \/ r = "orientation" /\ ~surface.reducing
    \/ r = "reach" /\ ~l.winding.reaches
ProfileFails(l, r) ==
    \/ r = "bounds" /\ ~l.winding.inBounds
    \/ r = "friction" /\ l.friction = "beyond"
    \/ r = "reach" /\ ~l.winding.reaches

CoverageFails(l, r) ==
    \/ r = "skip" /\ l.skip >= l.pattern
    \/ r = "coprime" /\ ~Coprime(l.skip, l.pattern)
    \/ r = "leadIn" /\ LeadInTooLong(l)
    \/ r = "circuits" /\ l.winding.circuits % l.pattern # 0
    \/ r = "slot" /\ l.pattern > 1 /\ ~OnSlots(l, l.lock)
    \/ r = "alias" /\ l.pattern > 1 /\ ~ValidLock(l, l.lock)

HelicalFails(l, r) ==
    \/ surface.shape = "cylinder" /\ CylinderFails(l, r)
    \/ surface.shape = "cone" /\ ConeFails(l, r)
    \/ surface.shape = "profile" /\ ProfileFails(l, r)
    \/ CoverageFails(l, r)

Fails(l, r) ==
    \/ r = "sequence" /\ AfterTerminal
    \/ r = "hoop" /\ HoopUnsupported(l)
    \/ l.kind = "helical" /\ HelicalFails(l, r)

Accepted(l) == \A i \in DOMAIN Checks : ~Fails(l, Checks[i])

RejectReason(l) == Checks[Min({i \in DOMAIN Checks : Fails(l, Checks[i])})]

(***************************************************************************)
(* The machine: logical positions, and what G92 does to the datum          *)
(***************************************************************************)
Origin == [carriage |-> 0, mandrel |-> 0, head |-> 0]
NoOffset == Origin

OnMandrel(a) == (a + offset.mandrel) % Turn      \* a logical angle, physically

\* Head positions: upright 0, lifted 1, laying 2, negative in a forward pass.
Lifted(back) == IF back THEN 1 ELSE -1
Laying(back) == IF back THEN 2 ELSE -2

FirstPass == [circuit |-> 0, back |-> FALSE, station |-> 0]

Init ==
    /\ surface \in Surfaces
    /\ terminal = FALSE /\ phase = "next"
    /\ layer = NoLayer /\ reason = "none"
    /\ pass = FirstPass
    /\ angle = 0
    /\ pos = Origin /\ offset = NoOffset
    /\ datum = 0 /\ laid = {}

Reject(l) ==
    /\ phase = "next"
    /\ ~Accepted(l)
    /\ layer' = l /\ reason' = RejectReason(l)
    /\ phase' = "rejected"
    /\ UNCHANGED <<surface, terminal, pass, angle, pos, offset, datum, laid>>

Dispatch(l) ==
    /\ phase = "next"
    /\ Accepted(l)
    /\ layer' = l
    /\ phase' = "prologue"
    /\ UNCHANGED <<surface, terminal, reason, pass, angle, pos, offset, datum, laid>>

\* A layer is done: nothing of it is left but what the machine remembers.
LayerDone ==
    /\ phase' = "next"
    /\ layer' = NoLayer /\ pass' = FirstPass /\ angle' = 0 /\ laid' = {}

\* The near lock of a helical layer, or the rotation of a skip layer, followed
\* by G92 of the mandrel.
MoveAndZero(a) ==
    /\ pos' = Origin
    /\ offset' = [offset EXCEPT !.mandrel = OnMandrel(a)]
    /\ datum' = OnMandrel(a)

HelicalPrologue ==
    /\ phase = "prologue" /\ layer.kind = "helical"
    /\ IF layer.skipNearLock
          THEN datum' = offset.mandrel /\ UNCHANGED <<pos, offset>>
          ELSE MoveAndZero(layer.lock)
    /\ phase' = "start"
    /\ UNCHANGED <<surface, terminal, layer, reason, pass, angle, laid>>

Skip ==
    /\ phase = "prologue" /\ layer.kind = "skip"
    /\ MoveAndZero(layer.rotation)
    /\ LayerDone
    /\ UNCHANGED <<surface, terminal, reason>>

\* A hoop layer locks at 180 degrees and keeps its mandrel angle absolute.
HoopLock == Turn \div 2

HoopPrologue ==
    /\ phase = "prologue" /\ layer.kind = "hoop"
    /\ pos' = [carriage |-> 0, mandrel |-> HoopLock, head |-> 0]
    /\ angle' = HoopLock
    /\ datum' = offset.mandrel
    /\ phase' = "far"
    /\ UNCHANGED <<surface, terminal, layer, reason, pass, offset, laid>>

\* A hoop pass and the lock after it.
NextLock == angle + Pitch + HoopLock

\* Lay to the far end and lock; a terminal layer ends there, without a G92.
HoopFar ==
    /\ phase = "far" /\ ~layer.terminal
    /\ pos' = [carriage |-> surface.length, mandrel |-> NextLock, head |-> 0]
    /\ angle' = NextLock
    /\ laid' = {<<FALSE, 0, OnMandrel(angle)>>,
                <<FALSE, surface.length, OnMandrel(angle + Pitch)>>}
    /\ phase' = "near"
    /\ UNCHANGED <<surface, terminal, layer, reason, pass, offset, datum>>

HoopTerminal ==
    /\ phase = "far" /\ layer.terminal
    /\ pos' = [carriage |-> surface.length, mandrel |-> NextLock, head |-> 0]
    /\ terminal' = TRUE
    /\ LayerDone
    /\ UNCHANGED <<surface, reason, offset, datum>>

HoopNear ==
    /\ phase = "near"
    /\ angle' = NextLock
    /\ pos' = [carriage |-> 0, mandrel |-> NextLock, head |-> 0]
    /\ laid' = laid \cup {<<TRUE, surface.length, OnMandrel(angle)>>,
                          <<TRUE, 0, OnMandrel(angle + Pitch)>>}
    /\ phase' = "zero"
    /\ UNCHANGED <<surface, terminal, layer, reason, pass, offset, datum>>

(***************************************************************************)
(* A helical layer: circuits of a pass out and a pass back                 *)
(***************************************************************************)
\* Axial stations of a pass: end of the lead-in and end of the pass on a
\* cylinder, where the fibre is straight; every unit of length elsewhere.
CylinderStations(l, back) ==
    IF back THEN <<l.winding.band - l.leadIn, 0>> ELSE <<l.leadIn, l.winding.band>>
CurvedStations(l, back) ==
    [k \in 1..l.winding.band |-> IF back THEN l.winding.band - k ELSE k]
Stations(l, back) ==
    IF surface.shape = "cylinder" THEN CylinderStations(l, back)
                                  ELSE CurvedStations(l, back)

Rotation(l, from, to) ==
    IF surface.shape = "cylinder"
      THEN l.winding.wrap[1] * Distance(from, to)
      ELSE Distance(l.winding.wrap[from], l.winding.wrap[to])
PassRotation(l) == l.winding.wrap[l.winding.band]

\* From the end of a lead-out to the start of the next pass.
Dwell(l) == l.lock - l.leadOut - (PassRotation(l) % Turn)

\* int(num_circuits / pattern_number) patterns of pattern_number circuits; of
\* an accepted layer, all of them.
CircuitsWound(l) == (l.winding.circuits \div l.pattern) * l.pattern

\* Added after a circuit, and after the last circuit of a pattern.
Advance(l, circuit) ==
    l.skip * Slot(l) + (IF (circuit + 1) % l.pattern = 0 THEN PatternStep(l) ELSE 0)

\* (a) settle the mandrel with the head upright, (b) lift the head.
PassStart ==
    /\ phase = "start"
    /\ pos' = [pos EXCEPT !.mandrel = angle, !.head = Lifted(pass.back)]
    /\ phase' = "lay"
    /\ UNCHANGED <<surface, terminal, layer, reason, pass, angle, offset, datum, laid>>

\* (c), (d): lay to the next station.
Lay ==
    LET stations == Stations(layer, pass.back)
        from == IF pass.station > 0 THEN stations[pass.station]
                ELSE IF pass.back THEN layer.winding.band ELSE 0
        to   == stations[pass.station + 1]
    IN  /\ phase = "lay"
        /\ angle' = angle + Rotation(layer, from, to)
        /\ pos' = [carriage |-> to, mandrel |-> angle', head |-> Laying(pass.back)]
        /\ laid' = laid \cup {<<pass.back, from, OnMandrel(angle)>>,
                              <<pass.back, to, OnMandrel(angle')>>}
        /\ pass' = [pass EXCEPT !.station = @ + 1]
        /\ phase' = IF pass'.station = Len(stations) THEN "leadOut" ELSE "lay"
        /\ UNCHANGED <<surface, terminal, layer, reason, offset, datum>>

\* (e) lead out; then the dwell and, after a pass back, the circuit's advance.
LeadOut ==
    /\ phase = "leadOut"
    /\ pos' = [pos EXCEPT !.mandrel = angle + layer.leadOut, !.head = Lifted(pass.back)]
    /\ angle' = angle + layer.leadOut + Dwell(layer)
                 + (IF pass.back THEN Advance(layer, pass.circuit) ELSE 0)
    /\ pass' = [circuit |-> IF pass.back THEN pass.circuit + 1 ELSE pass.circuit,
                back    |-> ~pass.back,
                station |-> 0]
    /\ phase' = IF pass.back /\ pass.circuit + 1 = CircuitsWound(layer)
                THEN "close" ELSE "start"
    /\ UNCHANGED <<surface, terminal, layer, reason, offset, datum, laid>>

CloseLock ==
    /\ phase = "close"
    /\ angle' = angle + layer.lock
    /\ pos' = [pos EXCEPT !.mandrel = angle', !.head = 0]
    /\ phase' = "zero"
    /\ UNCHANGED <<surface, terminal, layer, reason, pass, offset, datum, laid>>

\* Mutant: the mandrel is not turned to 360 before its angle becomes 0.
ZeroAxesUnturned ==
    /\ phase = "zero"
    /\ offset' = [carriage |-> offset.carriage + pos.carriage,
                  mandrel  |-> OnMandrel(pos.mandrel),
                  head     |-> offset.head + pos.head]
    /\ pos' = Origin
    /\ LayerDone
    /\ UNCHANGED <<surface, terminal, reason, datum>>

\* zero_axes(final_angle): G92 all axes with the mandrel at final_angle mod
\* 360, turn it to 360, G92 it to 0.
ZeroAxes ==
    /\ phase = "zero"
    /\ offset' = [carriage |-> offset.carriage + pos.carriage,
                  mandrel  |-> (offset.mandrel + pos.mandrel - (angle % Turn) + Turn) % Turn,
                  head     |-> offset.head + pos.head]
    /\ pos' = Origin
    /\ LayerDone
    /\ UNCHANGED <<surface, terminal, reason, datum>>

Finish ==
    /\ phase = "next"
    /\ phase' = "done"
    /\ UNCHANGED <<surface, terminal, layer, reason, pass, angle, pos, offset, datum, laid>>

Next ==
    \/ \E l \in LayersOn(surface) : Reject(l) \/ Dispatch(l)
    \/ HelicalPrologue \/ PassStart \/ Lay \/ LeadOut \/ CloseLock
    \/ HoopPrologue \/ HoopFar \/ HoopNear \/ HoopTerminal
    \/ Skip \/ ZeroAxes \/ Finish

Spec == Init /\ [][Next]_vars

(***************************************************************************)
(* Properties                                                              *)
(***************************************************************************)
\* Every variable has its type; fibre is laid on the mandrel only.
TypeOK ==
    /\ surface \in Surfaces
    /\ terminal \in BOOLEAN
    /\ phase \in Phases
    /\ layer \in LayersOn(surface) \cup {NoLayer}
    /\ reason \in Reasons
    /\ pass \in [circuit : Nat, back : BOOLEAN, station : Nat]
    /\ angle \in Int
    /\ pos \in [carriage : Int, mandrel : Int, head : -2..2]
    /\ offset \in [carriage : Int, mandrel : 0..(Turn - 1), head : Int]
    /\ datum \in 0..(Turn - 1)
    /\ laid \subseteq BOOLEAN \X (0..surface.length) \X (0..(Turn - 1))

EvenlySpaced(angles, n) ==
    /\ Cardinality(angles) = n
    /\ \A a \in angles : (a + Turn \div n) % Turn \in angles

\* A helical layer that was accepted and wound covers the mandrel: in each
\* direction the fibre crosses every station at as many evenly spaced angles
\* as there are circuits, whatever the lock, skip index, pattern, leads and
\* surface (the promise behind the validators' coverage conditions).
FullCoverage ==
    phase = "zero" /\ layer.kind = "helical" =>
        \A back \in BOOLEAN :
            \A z \in {p[2] : p \in {q \in laid : q[1] = back}} :
                EvenlySpaced({p[3] : p \in {q \in laid : q[1] = back /\ q[2] = z}},
                             layer.winding.circuits)

\* The G92s of a layer never move the machine's datum: between layers carriage
\* and head are where the program believes, and the mandrel stands at the angle
\* the layer's laying was measured from, so layers stay registered.
DatumKept ==
    phase = "next" =>
        /\ offset.mandrel = datum
        /\ offset.carriage = 0 /\ offset.head = 0

\* The carriage is never driven off the mandrel (the lead-in bound, and no
\* layer after a terminal one, whatever the layer before did to the datum).
CarriageOnMandrel ==
    pos.carriage + offset.carriage \in 0..surface.length

\* Every layer is planned from the origin: builders assume it when they leave
\* the carriage out of their first waypoints.
LayersStartAtOrigin ==
    phase = "prologue" => pos = Origin

\* Where circuits would start, in closed form.
CircuitStarts(l) ==
    {(n * (2 * l.lock + l.skip * Slot(l)) + (n \div l.pattern) * PatternStep(l)) % Turn :
        n \in 0..(l.winding.circuits - 1)}

\* A lock value is refused only if it would leave bare strips: the two lock
\* conditions are necessary, not just sufficient.
LockRejectionsAreNeeded ==
    reason \in {"slot", "alias"} =>
        ~EvenlySpaced(CircuitStarts(layer), layer.winding.circuits)

\* What a lock rejection suggests would be accepted, and is not empty.
SuggestionsPass ==
    reason \in {"slot", "alias"} =>
        /\ NearestValidLocks(layer) # {}
        /\ \A v \in NearestValidLocks(layer) :
              EvenlySpaced(CircuitStarts([layer EXCEPT !.lock = v]), layer.winding.circuits)

=============================================================================
