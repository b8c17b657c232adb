SPECIFICATION Spec
CONSTANTS
    Day = 3
    Week = 2
    None = None
    Lead = 1
    LeaseTimeout = 1
    RetryDelay = 1
    MaxAttempts = 2
    MissedLimit = 5
    Locals = {0, 1, 2}
    Weekdays = {None}
    Ends = {None, 1}
    MaxTime = 2
    MaxVersion = 5
CHECK_DEADLOCK FALSE
INVARIANT
    FinalizeNeverConflicts
