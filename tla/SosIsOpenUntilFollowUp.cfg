SPECIFICATION Spec
CONSTANTS
    NULL = NULL
    c1 = c1
    c2 = c2
    a1 = a1
    Cases = {c1, c2}
    Standard = {a1}
    SuperAuditors = {}
    DefaultLimit = 1
    UnitMinutes = 120
    Tiers = {"S4"}
    DecidedHere = {"NO_VIOLATION_FOUND"}
    Limits = {1}
    MaxExposure = 1
    MaxAlerts = 1
    MaxRequests = 0
PROPERTY
    SosIsOpenUntilFollowUp
