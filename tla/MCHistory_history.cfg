SPECIFICATION HistorySpec
SYMMETRY Symmetry
CONSTANTS
    None = None
    Positions = {0, 1, 4, 6}
    Fixes <- MCFixes
    Timestamps = {1, 2, 3, 4}
    MaxLength = 4
    Cfg <- MCCfg
    ClusterRadius = 3
    Places <- MCPlaces
    NoObject = NoObject
    a = a
    b = b
    c = c
    AirTags = {a, b}
    Devices = {c}
    MaxStays = 2
INVARIANTS
    AlertsTellMovementFromNoise
    StaysTellTheTrail
    MapShowsTheStayAsked
PROPERTIES
    PastStaysAreFinal
    StepperWalksTheStays
    GestureMovesOneLevel
