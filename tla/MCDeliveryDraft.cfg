SPECIFICATION Spec
CONSTANTS
    w1 = w1  w2 = w2  w3 = w3  r1 = r1  r2 = r2
    Runs = {r1}
    Workers = {w1, w2}
    NoWorker = NoWorker
    MaxAttempts = 2
    ScheduledFor <- MCScheduledFor
    LeaseTimeout = 1
    RetryDelay <- MCRetryDelay
    MaxRetryAfter = 1
    GracePeriod = 1
    EditLead = 1
    BatchSize = 1
    MaxBatches = 2
    Contention = TRUE
    MaxTime = 4
SYMMETRY Interchangeable
CHECK_DEADLOCK FALSE
INVARIANTS
    OverdueDraftCanBeDeleted
