SPECIFICATION PlanningSpec
CONSTANTS
    Turn = 24
    Surfaces <- MCSurfaces
    Patterns <- MCPatterns
    Skips <- MCSkips
    Locks <- MCLocks
    LeadIns <- MCLeadIns
    LeadOuts <- MCLeadOuts
    Rotations <- MCRotations
    Pitch = 31
    Digit = 2
    Millimetre = 4
    Revolution = 24
    Seam = 2
    FeedRates <- MCFeedRates
    Waypoints <- MCWaypoints
    Lines <- MCLines
    MaxCalls = 3
    MaxLayers = 2
    MaxLines = 3
INVARIANTS
    PlanningTypeOK FullCoverage DatumKept CarriageOnMandrel LayersStartAtOrigin LockRejectionsAreNeeded SuggestionsPass
    ReadBackIsPlan PlotFollowsTrack
CHECK_DEADLOCK FALSE
