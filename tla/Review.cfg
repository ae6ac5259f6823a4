SPECIFICATION Spec
CONSTANTS
    NULL = NULL
    q1 = q1
    q2 = q2
    Slots = {q1, q2}
    AiFailed = FALSE
    MaxTokens = 2
    MaxWatched = 1
    Duration = 1
SYMMETRY Symmetry
CHECK_DEADLOCK FALSE
INVARIANTS
    TypeOK
    NothingLeftToResume
    ExposureIsKept
    SosIsNotForgotten
    PlaysInSight
PROPERTIES
    ContentNeedsAcknowledgement
