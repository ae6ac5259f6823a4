SPECIFICATION Spec
CONSTANTS
    NULL = NULL
    c1 = c1
    c2 = c2
    a1 = a1
    s1 = s1
    Cases = {c1, c2}
    Standard = {a1}
    SuperAuditors = {s1}
    DefaultLimit = 1
    UnitMinutes = 120
    Tiers = {}
    DecidedHere = {"NO_VIOLATION_FOUND"}
    Limits = {1}
    MaxExposure = 1
    MaxAlerts = 0
    MaxRequests = 0
SYMMETRY Symmetry
CONSTRAINTS
    OneAnalysis
    NoReopening
    OneWorkday
INVARIANTS
    QueuedCasesAreFree
    ParkedCasesAreQueued
PROPERTIES
    CaseStaysWithOwner
    CustodySpec
