SPECIFICATION Spec
CONSTANTS
    Day = 3
    Week = 2
    None = None
    Lead = 1
    LeaseTimeout = 1
    RetryDelay = 1
    MaxAttempts = 2
    MissedLimit = 5
    Locals = {0, 1, 2}
    Weekdays = {None}
    Ends = {None, 1}
    MaxTime = 5
    MaxVersion = 4
CHECK_DEADLOCK FALSE
INVARIANTS
    TypeOK
    OpenRunIsCurrent
    OpenRunMatchesRule
    OncePerDay
    PausedCanResume
    RecoveryIsPossible
PROPERTIES
    SettledIsFinal
