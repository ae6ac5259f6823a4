SPECIFICATION Spec
CONSTANTS
    NoSession = NoSession
    NoPath = NoPath
    Visited <- MCVisited
    MaxHistory = 2
    MaxTokens = 2
    MaxPageLoads = 1
    r1 = r1
    r2 = r2
    Results = {r1, r2}
    Nobody = Nobody
    MaxSent = 2
    NumAuditors = 2
    Limits = {60, 120}
    NoData = NoData
    MaxOthers = 1
    MaxCalls = 1
    Clients = {"CH", "C2"}
    CommunityHub = "CH"
    Ids = {1, 2, 3}
    Listed <- MCListed
    PageSizes = {1, 2}
    Presets = {"previous-month", "custom"}
    MaxMoves = 1
    Entries = {1, 2, 3, 4}
    CaseOf <- MCCaseOf
    ActionOf <- MCActionOf
    OrgOf <- MCOrgOf
    Limit = 1
    Window = 1
    NoAnswer = NoAnswer
CHECK_DEADLOCK FALSE
INVARIANTS
    ShownIsTrue
