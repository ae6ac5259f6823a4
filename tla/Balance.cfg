SPECIFICATION Spec
CONSTANTS
    NULL = NULL
    c1 = c1
    c2 = c2
    c3 = c3
    a1 = a1
    a2 = a2
    Cases = {c1, c2, c3}
    Standard = {a1, a2}
    SuperAuditors = {}
    DefaultLimit = 10
    UnitMinutes = 12
    Tiers = {"S1"}
    DecidedHere = {"NO_VIOLATION_FOUND"}
    Limits = {10}
    MaxExposure = 1
    MaxAlerts = 0
    MaxRequests = 0
SYMMETRY Symmetry
CONSTRAINTS
    OnlyPlacing
    NoDailyInFlight
    NothingMissed
PROPERTIES
    ReleaseIsBalanced
