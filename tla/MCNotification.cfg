SPECIFICATION Spec
CONSTANTS
    w1 = w1  w2 = w2
    early = early  tight = tight  failing = failing  delayed = delayed
    Runs = {early, tight, failing, delayed}
    Kinds <- MCKinds
    Workers = {w1, w2}
    NoWorker = NoWorker
    MaxAttempts = 2
    ScheduledFor <- MCScheduledFor
    Day = 4
    Hour = 3
    EditLead = 2
    GracePeriod = 0
    LeaseTimeout = 1
    RetryDelay <- MCRetryDelay
    MaxRetryAfter = 1
    BatchSize = 1
    MaxBatches = 2
    Contention = FALSE
    MaxTime = 3
    MaxClaims <- MCMaxClaims
    MaxSchedules = 1
SYMMETRY Interchangeable
CHECK_DEADLOCK FALSE
INVARIANTS
    TypeOK
    ToldAtMostOnce
    OneRouteAtATime
    ReportsAreKept
    BootstrapRepeatsOnlyImmediate
PROPERTIES
    SettledIsFinal
    TellsOnce
