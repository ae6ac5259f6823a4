CONSTANTS
    c1 = c1
    c2 = c2
    Cases = {c1, c2}
    a1 = a1
    s1 = s1
    Standard = {a1}
    SuperAuditors = {s1}
    NULL = NULL
    DefaultLimit = 1
    UnitMinutes = 120
    Limits = {1}
    Decisions = {"NO_VIOLATION_FOUND"}
    Analyses = {"S2"}
    Ratings = {"S4"}
    MaxExposure = 1
    MaxActive = 1
    MaxSos = 1
SPECIFICATION MCSpec
SYMMETRY Symmetry
INVARIANTS CasesAreSound SosHasAlert
PROPERTIES NoCaseToTheUnavailable CooldownIsServed FollowsCustody
