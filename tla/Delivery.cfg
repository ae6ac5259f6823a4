SPECIFICATION FairSpec
CONSTANTS
    NULL = NULL
    d1 = d1
    d2 = d2
    Deliveries = {d1, d2}
    FIRST_ATTEMPT_DELAY = 2
    RETRY_GAP = 3
    MAX_AUTO_ATTEMPTS = 3
    MaxManual = 2
INVARIANTS
    TypeOK
    SentAtMostOnce
    NextAttemptIsPlanned
    AdvanceIsTheLoop
PROPERTIES
    ManagerTakesOver
    PromiseSpec
    AttemptsEnd
