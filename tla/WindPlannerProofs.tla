------------------------- MODULE WindPlannerProofs -------------------------
(***************************************************************************)
(* The planner's machine, proved of WindPlanner for every mandrel, winding *)
(* and layer.  The carriage stays on the mandrel and every layer starts at *)
(* the origin: Position says, phase by phase, where the builders and the   *)
(* machine have left carriage and head, and what the validators have       *)
(* established of the layer being wound.  Every variable has its type:     *)
(* PlannerInv adds to Position what the closing moves need.  The mandrel's *)
(* datum is kept: Registered says that G92 never moves what laying is      *)
(* measured from.                                                          *)
(***************************************************************************)
EXTENDS WindPlanner, WellFoundedInduction, TLAPS

\* Head and carriage are where the program believes.
CarriageDatum ==
    /\ offset = [carriage |-> 0, mandrel |-> offset.mandrel, head |-> 0]
    /\ pos = [carriage |-> pos.carriage, mandrel |-> pos.mandrel, head |-> pos.head]
    /\ pos.carriage \in 0..surface.length

\* A helical layer on its way was accepted.
Windable(l) ==
    /\ l \in HelicalLayers(surface)
    /\ ~LeadInTooLong(l)

PassEnd(back) == IF back THEN 0 ELSE layer.winding.band

Idle ==
    /\ phase \in Phases
    /\ terminal \in BOOLEAN
    /\ terminal => phase \in {"next", "done", "rejected"}
    /\ phase \in {"next", "prologue"} /\ ~terminal => pos = Origin
    /\ phase = "prologue" =>
          /\ layer \in LayersOn(surface)
          /\ layer.kind = "helical" => Windable(layer)
    /\ phase \in {"next", "prologue"} => pass = FirstPass

HoopPlaces ==
    /\ phase \in {"close", "zero"} => pos.carriage = 0
    /\ phase = "zero" => pos.head = 0

HelicalPlaces ==
    /\ phase \in {"start", "lay", "leadOut"} =>
          pass = [circuit |-> pass.circuit, back |-> pass.back, station |-> pass.station]
          /\ pass.back \in BOOLEAN
    /\ phase = "start" => pass.station = 0
    /\ phase \in {"start", "lay", "leadOut"} => Windable(layer)
    /\ phase = "start" => pos.carriage = PassEnd(~pass.back)
    /\ phase = "lay" => pass.station \in 0..(Len(Stations(layer, pass.back)) - 1)
    /\ phase = "leadOut" => pos.carriage = PassEnd(pass.back)

Position ==
    /\ surface \in Surfaces
    /\ CarriageDatum /\ Idle /\ HoopPlaces /\ HelicalPlaces

-----------------------------------------------------------------------------
\* The stations of a pass lie on the wound band, end at its far end, and there
\* is at least one.
LEMMA StationsOnBand ==
    ASSUME surface \in Surfaces, NEW l, Windable(l), NEW back \in BOOLEAN
    PROVE  /\ l.winding.band \in 1..surface.length
           /\ surface.length \in Nat
           /\ Len(Stations(l, back)) \in Nat \ {0}
           /\ \A k \in 1..Len(Stations(l, back)) :
                 Stations(l, back)[k] \in 0..l.winding.band
           /\ Stations(l, back)[Len(Stations(l, back))]
                 = IF back THEN 0 ELSE l.winding.band
<1>1. l.winding \in surface.windings /\ l.leadIn \in LeadIns
  BY DEF Windable, HelicalLayers
<1>2. /\ l.winding.band \in 1..surface.length /\ surface.length \in Nat
      /\ l.leadIn \in Nat \ {0}
  BY <1>1, PlannerAssumption DEF SurfaceType
<1>3. l.leadIn < l.winding.band
  BY <1>2 DEF Windable, LeadInTooLong
<1>4. CASE surface.shape = "cylinder"
  <2>1. CASE back
    <3>1. Stations(l, back) = <<l.winding.band - l.leadIn, 0>>
      BY <1>4, <2>1 DEF Stations, CylinderStations
    <3> QED  BY <3>1, <1>2, <1>3, <2>1
  <2>2. CASE ~back
    <3>1. Stations(l, back) = <<l.leadIn, l.winding.band>>
      BY <1>4, <2>2 DEF Stations, CylinderStations
    <3> QED  BY <3>1, <1>2, <1>3, <2>2
  <2> QED  BY <2>1, <2>2
<1>5. CASE surface.shape # "cylinder"
  <2> DEFINE n == l.winding.band
             station(k) == IF back THEN n - k ELSE k
  <2>1. Stations(l, back) = [k \in 1..n |-> station(k)]
    BY <1>5 DEF Stations, CurvedStations
  <2>2. n \in Nat \ {0}
    BY <1>2
  <2>3. \A k \in 1..n : station(k) \in 0..n
    BY <2>2
  <2>4. station(n) = IF back THEN 0 ELSE n
    BY <2>2
  <2> HIDE DEF n, station
  <2>5. Len(Stations(l, back)) = n
    BY <2>1, <2>2
  <2> QED  BY <1>2, <2>1, <2>2, <2>3, <2>4, <2>5 DEF n
<1> QED  BY <1>4, <1>5

\* An accepted layer follows no terminal one; if helical, its lead-in is
\* shorter than the band.
LEMMA AcceptedLayer ==
    ASSUME NEW l \in LayersOn(surface), Accepted(l)
    PROVE  ~terminal /\ (l.kind = "helical" => Windable(l))
<1>1. ~Fails(l, Checks[1]) /\ ~Fails(l, Checks[9])
  BY DEF Accepted, Checks
<1>2. ~terminal
  BY <1>1 DEF Fails, Checks, AfterTerminal
<1>3. ASSUME l.kind = "helical" PROVE ~LeadInTooLong(l)
  BY <1>1, <1>3 DEF Fails, Checks, HelicalFails, CoverageFails
<1>4. ASSUME l.kind = "helical" PROVE l \in HelicalLayers(surface)
  BY <1>4 DEF LayersOn, HoopLayers, SkipLayers
<1> QED  BY <1>2, <1>3, <1>4 DEF Windable

\* Initially, and after any layer, the machine is at the origin.
LEMMA PositionInit == Init => Position
<1> SUFFICES ASSUME Init PROVE Position
  OBVIOUS
<1> USE DEF Init
<1>1. surface.length \in Nat
  BY PlannerAssumption DEF SurfaceType
<1>2. CarriageDatum
  BY <1>1 DEF CarriageDatum, Origin, NoOffset
<1>3. Idle
  BY DEF Idle, Phases
<1>4. HoopPlaces /\ HelicalPlaces
  BY DEF HoopPlaces, HelicalPlaces
<1> QED  BY <1>2, <1>3, <1>4 DEF Position

-----------------------------------------------------------------------------
\* One lemma per group of actions.

\* Rejecting a layer or finishing moves nothing.
LEMMA PositionIdleStep ==
    ASSUME Position, Finish \/ \E l \in LayersOn(surface) : Reject(l)
    PROVE  Position'
<1>1. /\ UNCHANGED <<surface, terminal, pass, pos, offset>>
      /\ phase' \in {"done", "rejected"}
  BY DEF Finish, Reject
<1>2. CarriageDatum'
  BY <1>1 DEF Position, CarriageDatum
<1>3. Idle'
  BY <1>1 DEF Position, Idle, Phases
<1>4. HoopPlaces' /\ HelicalPlaces'
  BY <1>1 DEF HoopPlaces, HelicalPlaces
<1> QED  BY <1>1, <1>2, <1>3, <1>4 DEF Position

\* A layer is dispatched from the origin.
LEMMA PositionDispatch ==
    ASSUME Position, NEW l \in LayersOn(surface), Dispatch(l)
    PROVE  Position'
<1>1. /\ UNCHANGED <<surface, terminal, pos, offset>>
      /\ layer' = l /\ phase = "next" /\ phase' = "prologue" /\ Accepted(l)
      /\ pass' = pass
  BY DEF Dispatch
<1>2. ~terminal /\ (l.kind = "helical" => Windable(l))
  BY <1>1, AcceptedLayer
<1>3. pos = Origin /\ pass = FirstPass
  BY <1>1, <1>2 DEF Position, Idle
<1>4. CarriageDatum'
  BY <1>1 DEF Position, CarriageDatum
<1>5. Idle'
  <2>1. terminal \in BOOLEAN
    BY DEF Position, Idle
  <2>2. layer' \in LayersOn(surface)' /\ (layer'.kind = "helical" => Windable(layer)')
    BY <1>1, <1>2 DEF LayersOn, HelicalLayers, Windable, LeadInTooLong
  <2> QED  BY <1>1, <1>2, <1>3, <2>1, <2>2 DEF Idle, Phases
<1>6. HoopPlaces' /\ HelicalPlaces'
  BY <1>1 DEF HoopPlaces, HelicalPlaces
<1> QED  BY <1>1, <1>4, <1>5, <1>6 DEF Position

\* A near lock, with or without G92, leaves the machine at the near end.
LEMMA PositionPrologue ==
    ASSUME Position, HelicalPrologue \/ HoopPrologue \/ Skip
    PROVE  Position'
<1>1. /\ UNCHANGED <<surface, terminal>>
      /\ phase' # "next" => UNCHANGED <<layer, pass>>
      /\ phase' = "next" => pass' = FirstPass
      /\ phase = "prologue"
      /\ phase' \in {"start", "far", "next"}
      /\ phase' = "start" <=> layer.kind = "helical"
      /\ phase' = "far" <=> layer.kind = "hoop"
  BY DEF HelicalPrologue, HoopPrologue, Skip, LayerDone
<1>2. ~terminal /\ pos = Origin /\ surface.length \in Nat
  BY <1>1, PlannerAssumption DEF Position, Idle, SurfaceType
<1>3. /\ CarriageDatum'
      /\ pos'.carriage = 0
      /\ phase' = "next" => pos' = Origin
  <2>1. CASE HelicalPrologue
    BY <1>1, <1>2, <2>1 DEF HelicalPrologue, MoveAndZero, Position, CarriageDatum, Origin
  <2>2. CASE HoopPrologue
    BY <1>1, <1>2, <2>2 DEF HoopPrologue, Position, CarriageDatum, Origin
  <2>3. CASE Skip
    BY <1>1, <1>2, <2>3 DEF Skip, LayerDone, MoveAndZero, Position, CarriageDatum, Origin
  <2> QED  BY <2>1, <2>2, <2>3
<1>4. Idle'
  BY <1>1, <1>2, <1>3 DEF Position, Idle, Phases
<1>5. HoopPlaces'
  BY <1>1 DEF Position, Idle, HoopPlaces, LayersOn, HelicalLayers, SkipLayers, HoopLayers
<1>6. HelicalPlaces'
  <2>1. /\ pass = [circuit |-> pass.circuit, back |-> pass.back, station |-> pass.station]
        /\ pass.back = FALSE /\ pass.station = 0
    BY <1>1 DEF Position, Idle, FirstPass
  <2>2. phase' = "start" => Windable(layer)'
    BY <1>1 DEF Position, Idle, Windable, HelicalLayers, LeadInTooLong
  <2>3. PassEnd(TRUE)' = 0
    BY DEF PassEnd
  <2> QED  BY <1>1, <1>3, <2>1, <2>2, <2>3 DEF HelicalPlaces, PassEnd
<1> QED  BY <1>1, <1>3, <1>4, <1>5, <1>6 DEF Position

\* Hoop passes start at one end and finish at the other.
LEMMA PositionHoop ==
    ASSUME Position, HoopFar \/ HoopNear \/ HoopTerminal
    PROVE  Position'
<1>1. /\ UNCHANGED <<surface, offset>>
      /\ phase' \in {"next", "near", "zero"}
      /\ phase' = "next" => terminal' = TRUE /\ pass' = FirstPass
      /\ phase' # "next" => terminal' = terminal
      /\ phase \in {"far", "near"}
  BY DEF HoopFar, HoopNear, HoopTerminal, LayerDone
<1>2. surface.length \in Nat /\ terminal = FALSE
  BY <1>1, PlannerAssumption DEF Position, Idle, SurfaceType
<1>3. /\ CarriageDatum'
      /\ phase' = "zero" => pos'.carriage = 0 /\ pos'.head = 0
  <2>1. CASE HoopFar
    BY <1>1, <1>2, <2>1 DEF HoopFar, Position, CarriageDatum
  <2>2. CASE HoopNear
    BY <1>1, <1>2, <2>2 DEF HoopNear, Position, CarriageDatum
  <2>3. CASE HoopTerminal
    BY <1>1, <1>2, <2>3 DEF HoopTerminal, LayerDone, Position, CarriageDatum
  <2> QED  BY <2>1, <2>2, <2>3
<1>4. Idle'
  BY <1>1, <1>2 DEF Idle, Phases
<1>5. HoopPlaces' /\ HelicalPlaces'
  BY <1>1, <1>3 DEF HoopPlaces, HelicalPlaces
<1> QED  BY <1>1, <1>3, <1>4, <1>5 DEF Position

\* A pass starts with the carriage where the pass before ended.
LEMMA PositionPassStart ==
    ASSUME Position, PassStart
    PROVE  Position'
<1>1. /\ UNCHANGED <<surface, terminal, layer, pass, offset>>
      /\ phase = "start" /\ phase' = "lay"
      /\ pos' = [pos EXCEPT !.mandrel = angle, !.head = Lifted(pass.back)]
  BY DEF PassStart
<1>2. Windable(layer) /\ pass.back \in BOOLEAN /\ pass.station = 0 /\ surface \in Surfaces
  BY <1>1 DEF Position, HelicalPlaces
<1>3. Len(Stations(layer, pass.back)) \in Nat \ {0}
  BY <1>2, StationsOnBand
<1>4. CarriageDatum'
  BY <1>1 DEF Position, CarriageDatum
<1>5. Idle' /\ HoopPlaces'
  BY <1>1 DEF Position, Idle, HoopPlaces, Phases
<1>6. HelicalPlaces'
  <2>1. Windable(layer)' /\ Stations(layer, pass.back)' = Stations(layer, pass.back)
    BY <1>1, <1>2 DEF Windable, LeadInTooLong, HelicalLayers, Stations, CylinderStations,
                      CurvedStations
  <2>2. pass'.station \in 0..(Len(Stations(layer, pass.back)') - 1)
    BY <1>1, <1>2, <1>3, <2>1
  <2> QED  BY <1>1, <2>1, <2>2 DEF Position, HelicalPlaces
<1> QED  BY <1>1, <1>4, <1>5, <1>6 DEF Position

\* Laying moves the carriage to the next station of the pass.
LEMMA PositionLay ==
    ASSUME Position, Lay
    PROVE  Position'
<1> DEFINE stations == Stations(layer, pass.back)
           to == stations[pass.station + 1]
<1>1. /\ UNCHANGED <<surface, terminal, layer, offset>>
      /\ phase = "lay"
      /\ pos' = [carriage |-> to, mandrel |-> angle', head |-> Laying(pass.back)]
      /\ pass' = [pass EXCEPT !.station = @ + 1]
      /\ phase' = IF pass'.station = Len(stations) THEN "leadOut" ELSE "lay"
  BY DEF Lay
<1>2. /\ Windable(layer) /\ pass.back \in BOOLEAN /\ surface \in Surfaces
      /\ pass = [circuit |-> pass.circuit, back |-> pass.back, station |-> pass.station]
      /\ pass.station \in 0..(Len(stations) - 1)
  BY <1>1 DEF Position, HelicalPlaces
<1>3. /\ layer.winding.band \in 1..surface.length
      /\ surface.length \in Nat
      /\ Len(stations) \in Nat \ {0}
      /\ \A k \in 1..Len(stations) : stations[k] \in 0..layer.winding.band
      /\ stations[Len(stations)] = PassEnd(pass.back)
  BY <1>2, StationsOnBand DEF PassEnd
<1>4. Windable(layer)' /\ Stations(layer, pass.back)' = stations
  BY <1>1, <1>2 DEF Windable, LeadInTooLong, HelicalLayers, Stations, CylinderStations,
                    CurvedStations
<1> HIDE DEF stations
<1>5. /\ pass' = [circuit |-> pass'.circuit, back |-> pass'.back, station |-> pass'.station]
      /\ pass'.back = pass.back /\ pass'.station = pass.station + 1
  BY <1>1, <1>2
<1>6. to \in 0..surface.length
  BY <1>2, <1>3
<1>7. CarriageDatum'
  BY <1>1, <1>6 DEF Position, CarriageDatum
<1>8. Idle' /\ HoopPlaces'
  BY <1>1 DEF Position, Idle, HoopPlaces, Phases
<1>9. HelicalPlaces'
  <2>1. PassEnd(pass.back)' = PassEnd(pass.back)
    BY <1>1, <1>5 DEF PassEnd
  <2>2. CASE pass'.station = Len(stations)
    <3>1. phase' = "leadOut" /\ to = PassEnd(pass.back)
      BY <1>1, <1>3, <1>5, <2>2
    <3> QED  BY <1>1, <1>2, <1>4, <1>5, <2>1, <3>1 DEF HelicalPlaces
  <2>3. CASE pass'.station # Len(stations)
    <3>1. phase' = "lay" /\ pass'.station \in 0..(Len(stations) - 1)
      BY <1>1, <1>2, <1>3, <1>5, <2>3
    <3> QED  BY <1>2, <1>4, <1>5, <3>1 DEF HelicalPlaces
  <2> QED  BY <2>2, <2>3
<1> QED  BY <1>1, <1>2, <1>7, <1>8, <1>9 DEF Position

\* A lead-out turns the pass around where it ended; only a pass back can be
\* the last one.
LEMMA PositionLeadOut ==
    ASSUME Position, LeadOut
    PROVE  Position'
<1>1. /\ UNCHANGED <<surface, terminal, layer, offset>>
      /\ phase = "leadOut"
      /\ pos' = [pos EXCEPT !.mandrel = angle + layer.leadOut, !.head = Lifted(pass.back)]
      /\ pass' = [circuit |-> IF pass.back THEN pass.circuit + 1 ELSE pass.circuit,
                  back |-> ~pass.back, station |-> 0]
      /\ phase' \in {"close", "start"}
      /\ phase' = "close" => pass.back
  BY DEF LeadOut
<1>2. /\ Windable(layer) /\ pass.back \in BOOLEAN
      /\ pos.carriage = PassEnd(pass.back)
  BY <1>1 DEF Position, HelicalPlaces
<1>3. CarriageDatum' /\ pos'.carriage = pos.carriage
  BY <1>1 DEF Position, CarriageDatum
<1>4. Idle'
  BY <1>1 DEF Position, Idle, Phases
<1>5. HoopPlaces'
  BY <1>1, <1>2, <1>3 DEF HoopPlaces, PassEnd
<1>6. HelicalPlaces'
  <2>1. Windable(layer)'
    BY <1>1, <1>2 DEF Windable, LeadInTooLong, HelicalLayers
  <2>2. PassEnd(~pass.back)' = PassEnd(pass.back)
    BY <1>1, <1>2 DEF PassEnd
  <2> QED  BY <1>1, <1>2, <1>3, <2>1, <2>2 DEF HelicalPlaces
<1> QED  BY <1>1, <1>3, <1>4, <1>5, <1>6 DEF Position

\* zero_axes finds carriage and head at zero, so it moves neither's datum.
LEMMA PositionZero ==
    ASSUME Position, CloseLock \/ ZeroAxes
    PROVE  Position'
<1>1. /\ UNCHANGED <<surface, terminal>>
      /\ phase' = "next" => pass' = FirstPass
      /\ phase \in {"close", "zero"} /\ phase' \in {"zero", "next"}
  BY DEF CloseLock, ZeroAxes, LayerDone
<1>2. pos.carriage = 0 /\ surface.length \in Nat /\ ~terminal
  BY <1>1, PlannerAssumption DEF Position, HoopPlaces, Idle, SurfaceType
<1>3. /\ CarriageDatum'
      /\ phase' = "zero" => pos'.carriage = 0 /\ pos'.head = 0
      /\ phase' = "next" => pos' = Origin
  <2>1. CASE CloseLock
    BY <1>2, <2>1 DEF CloseLock, Position, CarriageDatum
  <2>2. CASE ZeroAxes
    BY <1>2, <2>2 DEF ZeroAxes, Position, CarriageDatum, HoopPlaces, Origin
  <2> QED  BY <2>1, <2>2
<1>4. Idle'
  BY <1>1, <1>2, <1>3 DEF Position, Idle, Phases
<1>5. HoopPlaces' /\ HelicalPlaces'
  BY <1>1, <1>3 DEF HoopPlaces, HelicalPlaces
<1> QED  BY <1>1, <1>3, <1>4, <1>5 DEF Position

\* A step that changes nothing keeps the invariant.
LEMMA PositionStutter ==
    ASSUME Position, UNCHANGED vars
    PROVE  Position'
<1>1. UNCHANGED <<surface, terminal, phase, layer, pass, pos, offset>>
  BY DEF vars
<1>2. surface' \in Surfaces /\ CarriageDatum'
  BY <1>1 DEF Position, CarriageDatum
<1>3. Idle'
  <2>1. Windable(layer)' <=> Windable(layer)
    BY <1>1 DEF Windable, LeadInTooLong, HelicalLayers
  <2>2. LayersOn(surface)' = LayersOn(surface)
    BY <1>1
  <2>3. (layer \in LayersOn(surface))' <=> layer \in LayersOn(surface)
    BY <1>1, <2>2
  <2> QED  BY <1>1, <2>1, <2>3 DEF Position, Idle
<1>4. HoopPlaces'
  BY <1>1 DEF Position, HoopPlaces
<1>5. HelicalPlaces'
  <2>1. Windable(layer)' <=> Windable(layer)
    BY <1>1 DEF Windable, LeadInTooLong, HelicalLayers
  <2>2. PassEnd(pass.back)' = PassEnd(pass.back) /\ PassEnd(~pass.back)' = PassEnd(~pass.back)
    BY <1>1 DEF PassEnd
  <2>3. Stations(layer, pass.back)' = Stations(layer, pass.back)
    BY <1>1 DEF Stations, CylinderStations, CurvedStations
  <2> QED  BY <1>1, <2>1, <2>2, <2>3 DEF Position, HelicalPlaces
<1> QED  BY <1>2, <1>3, <1>4, <1>5 DEF Position

\* Every step keeps Position.
LEMMA PositionStep ==
  ASSUME Position, [Next]_vars
  PROVE  Position'
<1>1. CASE UNCHANGED vars
  BY <1>1, PositionStutter
<1>2. ASSUME NEW l \in LayersOn(surface), Reject(l) \/ Dispatch(l) PROVE Position'
  BY <1>2, PositionIdleStep, PositionDispatch
<1>3. CASE HelicalPrologue \/ HoopPrologue \/ Skip
  BY <1>3, PositionPrologue
<1>4. CASE HoopFar \/ HoopNear \/ HoopTerminal
  BY <1>4, PositionHoop
<1>5. CASE PassStart
  BY <1>5, PositionPassStart
<1>6. CASE Lay
  BY <1>6, PositionLay
<1>7. CASE LeadOut
  BY <1>7, PositionLeadOut
<1>8. CASE CloseLock \/ ZeroAxes
  BY <1>8, PositionZero
<1>9. CASE Finish
  BY <1>9, PositionIdleStep
<1> QED
  BY <1>1, <1>2, <1>3, <1>4, <1>5, <1>6, <1>7, <1>8, <1>9 DEF Next

\* Position is an invariant of the planner.
THEOREM PositionHolds == Spec => []Position
BY PositionInit, PositionStep, PTL DEF Spec

\* The carriage is never driven off the mandrel: the validators' lead-in bound
\* and the sequence check suffice, on every mandrel and for every layer.
THEOREM CarriageStaysOnMandrel == Spec => []CarriageOnMandrel
<1>1. Position => CarriageOnMandrel
  <2> SUFFICES ASSUME Position PROVE CarriageOnMandrel
    OBVIOUS
  <2>1. /\ offset = [carriage |-> 0, mandrel |-> offset.mandrel, head |-> 0]
        /\ pos.carriage \in 0..surface.length
    BY DEF Position, CarriageDatum
  <2>2. offset.carriage = 0
    BY <2>1
  <2> QED  BY <2>1, <2>2 DEF CarriageOnMandrel
<1> QED  BY <1>1, PositionHolds, PTL

\* Whatever was planned before, a layer starts with the machine at the origin,
\* as its builder assumes.
THEOREM EveryLayerStartsAtOrigin == Spec => []LayersStartAtOrigin
<1>1. Position => LayersStartAtOrigin
  BY DEF Position, Idle, LayersStartAtOrigin
<1> QED  BY <1>1, PositionHolds, PTL
-----------------------------------------------------------------------------
(* Arithmetic *)

\* The order of the naturals, as a relation.
Below == {p \in Nat \X Nat : p[1] < p[2]}

\* Every set of naturals has a least element, which Min finds.
LEMMA LeastNatural ==
  ASSUME NEW S \in SUBSET Nat, S # {}
  PROVE  \E x \in S : \A y \in S : x =< y
<1>1. IsWellFoundedOn(Below, Nat)
  BY NatLessThanWellFounded DEF OpToRel, Below
<1>2. PICK x \in S : \A y \in S : ~ (<<y, x>> \in Below)
  BY <1>1, WFMin
<1>3. \A y \in S : x =< y
  <2> SUFFICES ASSUME NEW y \in S PROVE x =< y
    OBVIOUS
  <2>1. <<y, x>> \notin Below /\ x \in Nat /\ y \in Nat
    BY <1>2
  <2>2. ~(y < x)
    BY <2>1 DEF Below
  <2> QED BY <2>1, <2>2
<1> QED BY <1>3

LEMMA LeastIsMin ==
  ASSUME NEW S \in SUBSET Nat, S # {}
  PROVE  Min(S) \in S /\ \A y \in S : Min(S) =< y
BY LeastNatural DEF Min

\* Within a turn a remainder is unique.
LEMMA ModUnique == ASSUME NEW k \in Int, NEW r \in 0..(Turn - 1)
  PROVE (Turn * k + r) % Turn = r
<1> DEFINE x == Turn * k + r
           q == x \div Turn
           m == x % Turn
<1>1. Turn \in Nat \ {0} BY PlannerAssumption
<1>2. x \in Int /\ q \in Int /\ m \in 0..(Turn-1) /\ x = Turn * q + m BY <1>1
<1> HIDE DEF q, m
<1>3. Turn * (k - q) = m - r BY <1>1, <1>2
<1>4. \A d \in Int : d >= 1 => Turn * d >= Turn BY <1>1
<1>5. \A d \in Int : d =< -1 => Turn * d =< -Turn BY <1>1
<1>6. k - q = 0 BY <1>1, <1>2, <1>3, <1>4, <1>5
<1>7. m = r BY <1>1, <1>2, <1>3, <1>6
<1> QED BY <1>7 DEF m

\* What zero_axes adds to the mandrel comes to whole turns.
LEMMA ModShift == ASSUME NEW a \in Int, NEW r \in 0..(Turn - 1)
  PROVE (r + a - (a % Turn) + Turn) % Turn = r
<1>1. Turn \in Nat \ {0} BY PlannerAssumption
<1> DEFINE q == a \div Turn
           m == a % Turn
<1>2. q \in Int /\ m \in 0..(Turn-1) /\ a = Turn * q + m BY <1>1
<1> HIDE DEF q, m
<1>3. r + a - m + Turn = Turn * (q + 1) + r BY <1>1, <1>2
<1>4. (Turn * (q + 1) + r) % Turn = r BY <1>2, ModUnique
<1> QED BY <1>3, <1>4 DEF m

-----------------------------------------------------------------------------
(* Types *)

\* What PlannerAssumption says of a helical layer and its winding.
LEMMA HelicalNumbers ==
    ASSUME surface \in Surfaces, NEW l \in HelicalLayers(surface)
    PROVE  /\ {l.pattern, l.skip, l.lock, l.leadIn, l.leadOut} \subseteq Nat \ {0}
           /\ l.winding.band \in 1..surface.length /\ surface.length \in Nat \ {0}
           /\ l.winding.circuits \in Nat \ {0}
           /\ l.winding.wrap \in [0..l.winding.band -> Nat]
           /\ l.kind = "helical"
<1>1. /\ l.winding \in surface.windings /\ l.pattern \in Patterns /\ l.skip \in Skips
      /\ l.lock \in Locks /\ l.leadIn \in LeadIns /\ l.leadOut \in LeadOuts
      /\ l.kind = "helical"
  BY DEF HelicalLayers
<1> QED  BY <1>1, PlannerAssumption DEF SurfaceType

\* The mandrel's physical angle is within a turn.
LEMMA OnMandrelType ==
    ASSUME NEW a \in Int, TypeOK PROVE OnMandrel(a) \in 0..(Turn - 1)
<1>1. offset.mandrel \in Int
  BY PlannerAssumption DEF TypeOK
<1>2. a + offset.mandrel \in Int
  BY <1>1
<1> QED  BY <1>2, PlannerAssumption DEF OnMandrel

\* The mandrel turns by a whole number of units between two stations.
LEMMA RotationType ==
    ASSUME surface \in Surfaces, NEW l \in HelicalLayers(surface),
           NEW from \in 0..l.winding.band, NEW to \in 0..l.winding.band
    PROVE  Rotation(l, from, to) \in Int
<1>1. /\ l.winding.band \in Nat \ {0} /\ l.winding.wrap \in [0..l.winding.band -> Nat]
  BY HelicalNumbers
<1>2. /\ 1 \in 0..l.winding.band /\ from \in Int /\ to \in Int
  BY <1>1
<1>3. \A a, b \in Int : Distance(a, b) \in Int
  BY DEF Distance
<1>4. \A z \in 0..l.winding.band : l.winding.wrap[z] \in Int
  BY <1>1
<1>5. CASE surface.shape = "cylinder"
  <2>1. l.winding.wrap[1] \in Int /\ Distance(from, to) \in Int
    BY <1>2, <1>3, <1>4
  <2> QED  BY <1>5, <2>1 DEF Rotation
<1>6. CASE surface.shape # "cylinder"
  BY <1>3, <1>4, <1>6 DEF Rotation
<1> QED  BY <1>5, <1>6

\* The dwell after a lead-out and the advance after a circuit are whole, too.
LEMMA DwellType ==
    ASSUME surface \in Surfaces, NEW l \in HelicalLayers(surface), NEW circuit \in Nat
    PROVE  Dwell(l) \in Int /\ Advance(l, circuit) \in Int
<1>1. /\ {l.pattern, l.skip, l.lock, l.leadIn, l.leadOut} \subseteq Nat \ {0}
      /\ l.winding.band \in Nat \ {0} /\ l.winding.circuits \in Nat \ {0}
      /\ l.winding.wrap \in [0..l.winding.band -> Nat] /\ Turn \in Nat \ {0}
  BY HelicalNumbers, PlannerAssumption
<1>2. PassRotation(l) \in Int
  BY <1>1 DEF PassRotation
<1>3. PassRotation(l) % Turn \in Int
  BY <1>1, <1>2
<1>4. Slot(l) \in Int /\ PatternStep(l) \in Int
  BY <1>1 DEF Slot, PatternStep
<1>5. l.skip * Slot(l) \in Int
  BY <1>1, <1>4
<1>6. l.lock \in Int /\ l.leadOut \in Int
  BY <1>1
<1>7. Dwell(l) \in Int
  BY <1>3, <1>6 DEF Dwell
<1>8. Advance(l, circuit) \in Int
  BY <1>4, <1>5 DEF Advance
<1> QED  BY <1>7, <1>8

\* A rejection names one of the checks.
LEMMA RejectReasonType ==
    ASSUME NEW l, ~Accepted(l) PROVE RejectReason(l) \in Reasons
<1> DEFINE failing == {i \in DOMAIN Checks : Fails(l, Checks[i])}
<1>1. failing # {}
  BY DEF Accepted
<1>2. DOMAIN Checks = 1..12
  BY DEF Checks
<1>3. failing \in SUBSET Nat
  BY <1>2
<1>4. Min(failing) \in failing
  BY <1>1, <1>3, LeastIsMin
<1>5. \A i \in 1..12 : Checks[i] \in Reasons
  BY DEF Checks, Reasons
<1> QED  BY <1>2, <1>4, <1>5 DEF RejectReason

\* The layers a surface has do not change.
LEMMA SameLayers ==
    ASSUME UNCHANGED surface
    PROVE  /\ LayersOn(surface)' = LayersOn(surface)
           /\ LayersOn(surface') = LayersOn(surface)
BY DEF LayersOn, HelicalLayers

\* The types hold initially, and each action keeps them.
LEMMA TypeInit == Init => TypeOK
<1> SUFFICES ASSUME Init PROVE TypeOK
  OBVIOUS
<1>1. Turn \in Nat \ {0}
  BY PlannerAssumption
<1>2. 0 \in 0..(Turn - 1) /\ 0 \in -2..2
  BY <1>1
<1>3. /\ Origin \in [carriage : Int, mandrel : Int, head : -2..2]
      /\ NoOffset \in [carriage : Int, mandrel : 0..(Turn - 1), head : Int]
  BY <1>2 DEF Origin, NoOffset
<1>4. FirstPass \in [circuit : Nat, back : BOOLEAN, station : Nat]
  BY DEF FirstPass
<1>5. "next" \in Phases /\ "none" \in Reasons
  BY DEF Phases, Reasons
<1>6. /\ surface \in Surfaces /\ terminal \in BOOLEAN /\ phase \in Phases
      /\ layer \in LayersOn(surface) \cup {NoLayer} /\ reason \in Reasons
  BY <1>5 DEF Init
<1>7. /\ pass \in [circuit : Nat, back : BOOLEAN, station : Nat]
      /\ pos \in [carriage : Int, mandrel : Int, head : -2..2]
      /\ offset \in [carriage : Int, mandrel : 0..(Turn - 1), head : Int]
  BY <1>3, <1>4 DEF Init
<1>8. angle \in Int /\ datum \in 0..(Turn - 1)
  BY <1>2 DEF Init
<1>9. laid \subseteq BOOLEAN \X (0..surface.length) \X (0..(Turn - 1))
  BY DEF Init
<1> QED  BY <1>6, <1>7, <1>8, <1>9 DEF TypeOK

LEMMA TypeReject ==
    ASSUME TypeOK, NEW l \in LayersOn(surface), Reject(l) PROVE TypeOK'
<1>1. reason' \in Reasons /\ layer' = l /\ phase' = "rejected"
  BY RejectReasonType DEF Reject
<1> QED  BY <1>1, SameLayers DEF TypeOK, Reject, Phases

LEMMA TypeDispatch ==
    ASSUME TypeOK, NEW l \in LayersOn(surface), Dispatch(l) PROVE TypeOK'
BY SameLayers DEF TypeOK, Dispatch, Phases

\* G92 of the mandrel leaves it within a turn.
LEMMA TypePrologue ==
    ASSUME TypeOK, HelicalPrologue \/ Skip \/ HoopPrologue PROVE TypeOK'
<1>1. /\ layer.kind = "helical" => layer.lock \in Int
      /\ layer.kind = "skip" => layer.rotation \in Int
  <2>1. layer.kind = "helical" => layer \in HelicalLayers(surface)
    BY DEF TypeOK, LayersOn, HoopLayers, SkipLayers, NoLayer
  <2>2. layer.kind = "skip" => layer \in SkipLayers
    BY DEF TypeOK, LayersOn, HoopLayers, HelicalLayers, NoLayer
  <2>3. layer.kind = "helical" => layer.lock \in Nat
    BY <2>1, HelicalNumbers DEF TypeOK
  <2>4. layer.kind = "skip" => layer.rotation \in Rotations
    BY <2>2 DEF SkipLayers
  <2>5. Rotations \subseteq Int
    BY PlannerAssumption
  <2>6. layer.kind = "helical" => layer.lock \in Int
    BY <2>3
  <2>7. layer.kind = "skip" => layer.rotation \in Int
    BY <2>4, <2>5
  <2> QED  BY <2>6, <2>7
<1>2. \A a \in Int : OnMandrel(a) \in 0..(Turn - 1)
  BY OnMandrelType
<1>3. HoopLock \in Int
  BY PlannerAssumption DEF HoopLock
<1>4. CASE HelicalPrologue
  <2>1. CASE layer.skipNearLock
    BY <1>4, <2>1, SameLayers DEF TypeOK, HelicalPrologue, Phases
  <2>2. CASE ~layer.skipNearLock
    <3>1. OnMandrel(layer.lock) \in 0..(Turn - 1)
      BY <1>1, <1>2, <1>4 DEF HelicalPrologue
    <3> QED  BY <1>4, <2>2, <3>1, SameLayers
             DEF TypeOK, HelicalPrologue, MoveAndZero, Origin, Phases
  <2> QED  BY <2>1, <2>2
<1>5. CASE Skip
  <2>1. OnMandrel(layer.rotation) \in 0..(Turn - 1)
    BY <1>1, <1>2, <1>5 DEF Skip
  <2> QED  BY <1>5, <2>1, SameLayers
           DEF TypeOK, Skip, MoveAndZero, LayerDone, Origin, FirstPass, Phases, NoLayer
<1>6. CASE HoopPrologue
  BY <1>3, <1>6, SameLayers DEF TypeOK, HoopPrologue, Phases
<1> QED  BY <1>4, <1>5, <1>6

\* A hoop pass lays from end to end.
LEMMA TypeHoop ==
    ASSUME TypeOK, HoopFar \/ HoopNear \/ HoopTerminal PROVE TypeOK'
<1>1. angle \in Int /\ angle + Pitch \in Int /\ NextLock \in Int /\ surface.length \in Nat
  <2>1. Pitch \in Int /\ HoopLock \in Int
    BY PlannerAssumption DEF HoopLock
  <2> QED  BY <2>1, PlannerAssumption DEF TypeOK, NextLock, SurfaceType
<1>2. OnMandrel(angle) \in 0..(Turn - 1) /\ OnMandrel(angle + Pitch) \in 0..(Turn - 1)
  BY <1>1, OnMandrelType
<1>3. \A back \in BOOLEAN, z \in {0, surface.length}, m \in 0..(Turn - 1) :
        <<back, z, m>> \in BOOLEAN \X (0..surface.length) \X (0..(Turn - 1))
  BY <1>1
<1>4. /\ <<FALSE, 0, OnMandrel(angle)>> \in BOOLEAN \X (0..surface.length) \X (0..(Turn - 1))
      /\ <<FALSE, surface.length, OnMandrel(angle + Pitch)>>
           \in BOOLEAN \X (0..surface.length) \X (0..(Turn - 1))
      /\ <<TRUE, surface.length, OnMandrel(angle)>>
           \in BOOLEAN \X (0..surface.length) \X (0..(Turn - 1))
      /\ <<TRUE, 0, OnMandrel(angle + Pitch)>>
           \in BOOLEAN \X (0..surface.length) \X (0..(Turn - 1))
  BY <1>2, <1>3
<1>5. CASE HoopFar
  <2>1. laid' \subseteq BOOLEAN \X (0..surface'.length) \X (0..(Turn - 1))
    BY <1>4, <1>5 DEF HoopFar
  <2> QED  BY <1>1, <1>5, <2>1, SameLayers DEF TypeOK, HoopFar, Phases
<1>6. CASE HoopNear
  <2>1. laid' \subseteq BOOLEAN \X (0..surface'.length) \X (0..(Turn - 1))
    BY <1>4, <1>6 DEF HoopNear, TypeOK
  <2>2. /\ pos' \in [carriage : Int, mandrel : Int, head : -2..2]
        /\ angle' \in Int /\ phase' \in Phases
    BY <1>1, <1>6 DEF HoopNear, Phases
  <2> QED  BY <1>6, <2>1, <2>2, SameLayers DEF TypeOK, HoopNear
<1>7. CASE HoopTerminal
  BY <1>1, <1>7, SameLayers
  DEF TypeOK, HoopTerminal, LayerDone, FirstPass, Phases, NoLayer
<1> QED  BY <1>5, <1>6, <1>7

\* Laying: the fibre stays within the wound band.
LEMMA TypeLay ==
    ASSUME TypeOK, Position, Lay PROVE TypeOK'
<1> DEFINE stations == Stations(layer, pass.back)
           from == IF pass.station > 0 THEN stations[pass.station]
                   ELSE IF pass.back THEN layer.winding.band ELSE 0
           to == stations[pass.station + 1]
           Spot == BOOLEAN \X (0..surface.length) \X (0..(Turn - 1))
<1>1. /\ phase = "lay" /\ surface \in Surfaces /\ Windable(layer)
      /\ layer \in HelicalLayers(surface) /\ pass.back \in BOOLEAN
      /\ pass.station \in 0..(Len(stations) - 1)
  BY DEF Lay, Position, HelicalPlaces, Windable
<1>2. /\ layer.winding.band \in 1..surface.length /\ surface.length \in Nat
      /\ Len(stations) \in Nat \ {0}
      /\ \A k \in 1..Len(stations) : stations[k] \in 0..layer.winding.band
  BY <1>1, StationsOnBand
<1>3. from \in 0..layer.winding.band /\ to \in 0..layer.winding.band
  <2> HIDE DEF stations
  <2>1. pass.station + 1 \in 1..Len(stations)
    BY <1>1, <1>2
  <2>2. pass.station > 0 => pass.station \in 1..Len(stations)
    BY <1>1, <1>2
  <2> QED  BY <1>1, <1>2, <2>1, <2>2
<1>4. /\ angle' = angle + Rotation(layer, from, to)
      /\ pos' = [carriage |-> to, mandrel |-> angle', head |-> Laying(pass.back)]
      /\ laid' = laid \cup {<<pass.back, from, OnMandrel(angle)>>,
                            <<pass.back, to, OnMandrel(angle')>>}
      /\ pass' = [pass EXCEPT !.station = @ + 1]
      /\ phase' = IF pass'.station = Len(stations) THEN "leadOut" ELSE "lay"
      /\ UNCHANGED <<surface, terminal, layer, reason, offset, datum>>
  BY DEF Lay
<1> HIDE DEF from, to, stations
<1>5. angle \in Int /\ angle' \in Int
  <2>1. Rotation(layer, from, to) \in Int
    BY <1>1, <1>3, RotationType
  <2> QED  BY <1>4, <2>1 DEF TypeOK
<1>6. OnMandrel(angle) \in 0..(Turn - 1) /\ OnMandrel(angle') \in 0..(Turn - 1)
  <2>1. \A a \in Int : OnMandrel(a) \in 0..(Turn - 1)
    BY OnMandrelType
  <2> QED  BY <1>5, <2>1
<1>7. /\ <<pass.back, from, OnMandrel(angle)>> \in Spot
      /\ <<pass.back, to, OnMandrel(angle')>> \in Spot
  <2>1. from \in 0..surface.length /\ to \in 0..surface.length
    BY <1>2, <1>3
  <2> QED  BY <1>1, <1>6, <2>1
<1>8. laid' \subseteq BOOLEAN \X (0..surface'.length) \X (0..(Turn - 1))
  BY <1>4, <1>7 DEF TypeOK
<1>9. pos' \in [carriage : Int, mandrel : Int, head : -2..2]
  BY <1>2, <1>3, <1>4, <1>5 DEF Laying
<1>10. phase' \in Phases
  BY <1>4 DEF Phases
<1>11. pass' \in [circuit : Nat, back : BOOLEAN, station : Nat]
  BY <1>4 DEF TypeOK
<1>12. layer' \in LayersOn(surface') \cup {NoLayer}
  BY <1>4, SameLayers DEF TypeOK
<1>13. /\ surface' \in Surfaces /\ terminal' \in BOOLEAN /\ reason' \in Reasons
       /\ offset' \in [carriage : Int, mandrel : 0..(Turn - 1), head : Int]
       /\ datum' \in 0..(Turn - 1)
  BY <1>4 DEF TypeOK
<1> QED  BY <1>5, <1>8, <1>9, <1>10, <1>11, <1>12, <1>13, SameLayers DEF TypeOK

\* Settling, leading out and the closing lock turn the mandrel only.
LEMMA TypeTurn ==
    ASSUME TypeOK, Position, PassStart \/ LeadOut \/ CloseLock,
           layer \in HelicalLayers(surface)
    PROVE  TypeOK'
<1>1. CASE PassStart
  <2>1. pos' \in [carriage : Int, mandrel : Int, head : -2..2]
    <3>1. Lifted(pass.back) \in -2..2
      BY DEF Lifted
    <3> QED  BY <1>1, <3>1 DEF TypeOK, PassStart
  <2> QED  BY <1>1, <2>1, SameLayers DEF TypeOK, PassStart, Phases
<1>2. CASE LeadOut
  <2>1. Dwell(layer) \in Int /\ Advance(layer, pass.circuit) \in Int /\ layer.leadOut \in Int
    BY HelicalNumbers, DwellType DEF TypeOK
  <2>2. angle' \in Int
    BY <1>2, <2>1 DEF TypeOK, LeadOut
  <2>3. pos' \in [carriage : Int, mandrel : Int, head : -2..2]
    <3>1. Lifted(pass.back) \in -2..2
      BY DEF Lifted
    <3>2. angle + layer.leadOut \in Int
      BY <2>1 DEF TypeOK
    <3> QED  BY <1>2, <3>1, <3>2 DEF TypeOK, LeadOut
  <2>4. pass' \in [circuit : Nat, back : BOOLEAN, station : Nat]
    BY <1>2 DEF TypeOK, LeadOut
  <2>5. phase' \in Phases
    BY <1>2 DEF LeadOut, Phases
  <2> QED  BY <1>2, <2>2, <2>3, <2>4, <2>5, SameLayers DEF TypeOK, LeadOut
<1>3. CASE CloseLock
  <2>1. layer.lock \in Int
    BY HelicalNumbers DEF TypeOK
  <2>2. angle' \in Int /\ 0 \in -2..2
    BY <1>3, <2>1 DEF TypeOK, CloseLock
  <2>3. pos' \in [carriage : Int, mandrel : Int, head : -2..2]
    BY <1>3, <2>2 DEF TypeOK, CloseLock
  <2> QED  BY <1>3, <2>2, <2>3, SameLayers DEF TypeOK, CloseLock, Phases
<1> QED  BY <1>1, <1>2, <1>3

\* zero_axes leaves the mandrel within a turn, and the carriage and head in place.
LEMMA TypeZero ==
    ASSUME TypeOK, ZeroAxes PROVE TypeOK'
<1>1. Turn \in Nat \ {0} /\ \A x \in Int : x % Turn \in 0..(Turn - 1)
  BY PlannerAssumption
<1>2. /\ offset.mandrel \in Int /\ pos.mandrel \in Int /\ angle \in Int
      /\ offset.carriage \in Int /\ pos.carriage \in Int /\ offset.head \in Int /\ pos.head \in Int
  BY <1>1 DEF TypeOK
<1>3. offset.mandrel + pos.mandrel - (angle % Turn) + Turn \in Int
  <2>1. angle % Turn \in Int
    BY <1>1, <1>2
  <2>2. \A a, b, c, d \in Int : a + b - c + d \in Int
    OBVIOUS
  <2>3. Turn \in Int
    BY <1>1
  <2> QED  BY <1>2, <2>1, <2>2, <2>3
<1>4. offset' \in [carriage : Int, mandrel : 0..(Turn - 1), head : Int]
  <2>1. (offset.mandrel + pos.mandrel - (angle % Turn) + Turn) % Turn \in 0..(Turn - 1)
    BY <1>1, <1>3
  <2> QED  BY <1>2, <2>1 DEF ZeroAxes
<1> QED  BY <1>4, SameLayers
         DEF TypeOK, ZeroAxes, LayerDone, Origin, FirstPass, Phases, NoLayer

\* A lock closes a helical layer only.
Closing == phase = "close" => layer \in HelicalLayers(surface)

\* Only a lead-out comes before a closing lock.
LEMMA ClosingStep ==
    ASSUME Closing, Position, [Next]_vars PROVE Closing'
<1>1. CASE LeadOut
  BY <1>1 DEF Closing, LeadOut, Position, HelicalPlaces, Windable, HelicalLayers
<1>2. CASE UNCHANGED vars
  BY <1>2 DEF Closing, vars, HelicalLayers
<1>3. ASSUME ~LeadOut, Next PROVE phase' # "close"
  BY <1>3 DEF Next, Reject, Dispatch, HelicalPrologue, PassStart, Lay, CloseLock,
     HoopPrologue, HoopFar, HoopNear, HoopTerminal, Skip, ZeroAxes, Finish, LayerDone
<1> QED  BY <1>1, <1>2, <1>3 DEF Closing

\* Every step keeps the types.
LEMMA TypeStep ==
    ASSUME TypeOK, Position, Closing, [Next]_vars PROVE TypeOK'
<1>1. ASSUME NEW l \in LayersOn(surface), Reject(l) \/ Dispatch(l) PROVE TypeOK'
  BY <1>1, TypeReject, TypeDispatch
<1>2. CASE PassStart \/ LeadOut \/ CloseLock
  <2>1. layer \in HelicalLayers(surface)
    BY <1>2 DEF PassStart, LeadOut, CloseLock, Closing, Position, HelicalPlaces, Windable
  <2> QED  BY <1>2, <2>1, TypeTurn
<1>3. CASE Finish
  BY <1>3, SameLayers DEF TypeOK, Finish, Phases
<1>4. CASE UNCHANGED vars
  BY <1>4, SameLayers DEF TypeOK, vars
<1> QED  BY <1>1, <1>2, <1>3, <1>4, TypePrologue, TypeHoop, TypeLay, TypeZero DEF Next

\* The inductive invariant of the types.
PlannerInv == TypeOK /\ Position /\ Closing

LEMMA PlannerInvHolds == Spec => []PlannerInv
<1>1. Init => PlannerInv
  BY TypeInit, PositionInit DEF PlannerInv, Closing, Init
<1>2. PlannerInv /\ [Next]_vars => PlannerInv'
  BY PositionStep, ClosingStep, TypeStep DEF PlannerInv
<1> QED  BY <1>1, <1>2, PTL DEF Spec

\* Every variable has its type, and fibre is laid on the mandrel only.
THEOREM PlannerTypeCorrect == Spec => []TypeOK
<1>1. PlannerInv => TypeOK
  BY DEF PlannerInv
<1> QED  BY <1>1, PlannerInvHolds, PTL

-----------------------------------------------------------------------------
(* The datum *)

\* The angle laying is measured from is where the datum was left, and the program
\* knows the mandrel's angle when it zeroes the axes.
Registered ==
    /\ offset.mandrel = datum
    /\ phase = "zero" => pos.mandrel = angle

\* G92s in pairs, or of an angle that was moved to, keep the layers registered.
LEMMA RegisteredStep ==
    ASSUME TypeOK, Registered, [Next]_vars PROVE Registered'
<1>1. CASE ZeroAxes
  <2>1. offset.mandrel \in 0..(Turn - 1) /\ angle \in Int /\ pos.mandrel = angle
    BY <1>1 DEF TypeOK, Registered, ZeroAxes
  <2>2. (offset.mandrel + angle - (angle % Turn) + Turn) % Turn = offset.mandrel
    BY <2>1, ModShift
  <2>3. offset'.mandrel = offset.mandrel /\ datum' = datum /\ phase' = "next"
    BY <1>1, <2>1, <2>2 DEF ZeroAxes, LayerDone
  <2> QED  BY <2>3 DEF Registered
<1>2. CASE HelicalPrologue \/ Skip
  BY <1>2 DEF TypeOK, Registered, HelicalPrologue, Skip, MoveAndZero, LayerDone
<1>3. CASE HoopPrologue \/ HoopFar \/ HoopNear \/ HoopTerminal \/ CloseLock
  <2>1. offset' = offset /\ datum' \in {datum, offset.mandrel}
    BY <1>3 DEF HoopPrologue, HoopFar, HoopNear, HoopTerminal, CloseLock
  <2>2. phase' = "zero" => pos'.mandrel = angle'
    <3>1. CASE HoopPrologue \/ HoopFar \/ HoopTerminal
      BY <3>1 DEF HoopPrologue, HoopFar, HoopTerminal, LayerDone
    <3>2. CASE HoopNear
      BY <3>2 DEF HoopNear
    <3>3. CASE CloseLock
      BY <3>3 DEF TypeOK, CloseLock
    <3> QED  BY <1>3, <3>1, <3>2, <3>3
  <2> QED  BY <2>1, <2>2 DEF Registered
<1>4. ASSUME NEW l \in LayersOn(surface), Reject(l) \/ Dispatch(l) PROVE Registered'
  BY <1>4 DEF Registered, Reject, Dispatch
<1>5. CASE PassStart \/ Lay \/ LeadOut \/ Finish
  BY <1>5 DEF Registered, PassStart, Lay, LeadOut, Finish
<1>6. CASE UNCHANGED vars
  BY <1>6 DEF Registered, vars
<1> QED  BY <1>1, <1>2, <1>3, <1>4, <1>5, <1>6 DEF Next

\* The G92s of a layer never move the machine's datum: layers stay registered
\* (WinderMachine.set_position and zero_axes, planning/machine.py:102-118).
THEOREM DatumIsKept == Spec => []DatumKept
<1>1. Init => Registered
  BY DEF Init, Registered, NoOffset, Origin
<1>2. PlannerInv /\ Registered /\ [Next]_vars => Registered'
  BY RegisteredStep DEF PlannerInv
<1>3. PlannerInv /\ Registered => DatumKept
  <2> SUFFICES ASSUME PlannerInv, Registered PROVE DatumKept
    OBVIOUS
  <2>1. offset = [carriage |-> 0, mandrel |-> offset.mandrel, head |-> 0]
    BY DEF PlannerInv, Position, CarriageDatum
  <2>2. offset.carriage = 0 /\ offset.head = 0
    BY <2>1
  <2> QED  BY <2>2 DEF DatumKept, Registered
<1> QED  BY <1>1, <1>2, <1>3, PlannerInvHolds, PTL DEF Spec

=============================================================================
