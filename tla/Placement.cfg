SPECIFICATION FairSpec
CONSTANTS
    NULL = NULL
    c1 = c1
    a1 = a1
    Cases = {c1}
    Standard = {a1}
    SuperAuditors = {}
    DefaultLimit = 1
    UnitMinutes = 120
    Tiers = {"S3"}
    DecidedHere = {"NO_VIOLATION_FOUND"}
    Limits = {1}
    MaxExposure = 1
    MaxAlerts = 0
    MaxRequests = 1
INVARIANT
    TypeOK
PROPERTIES
    ParkedIsPlaced
    NewOwnerIsFit
    OneResetPerWorkday
