SPECIFICATION FairSpec
CONSTANTS
    Records = {1, 2, 3}
    Dispatchers = {d1, d2}
    BatchSize = 2
    MaxAttempts = 2
    InitialRetryDelay = 2
    MaxRetryDelay = 1
    SkipLocked = TRUE
    BusEnabled = TRUE
INVARIANTS
    TypeOK
    ProcessedWasDelivered
    NothingLost
    AttemptsAreFailures
    SessionsAreCurrent
PROPERTIES
    ImplementsQueue
    
