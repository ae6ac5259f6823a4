SPECIFICATION FairSpec
CONSTANTS
    NULL = NULL
    NoCase = NoCase
    Nothing = Nothing
    NoNote = NoNote
    c1 = c1
    n1 = n1
    Cases = {c1}
    MaxLoads = 2
    MaxActs = 2
    Notes = {NoNote, n1}
    MaxRevision = 2
    MaxQuestions = 3
    MaxStored = 3
    Parts = {"evidence", "contact", "consent"}
    MaxReports = 2
    MaxLeft = 2
    Items <- MCItems
    Kind <- MCKind
    Person <- MCPerson
    NotLoaded = NotLoaded
    VISIBLE_ROWS = 2
    MAX_FAILED_LISTED = 1
    MaxChanges = 2
CHECK_DEADLOCK FALSE
PROPERTY
    SosReachesTheInbox
