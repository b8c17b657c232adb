SPECIFICATION Spec
CONSTANTS
    Day = 4
    Week = 3
    None = None
    Ends = {None, 1, 2}
    MaxTime = 24
CHECK_DEADLOCK FALSE
INVARIANTS
    NextIsFirstAfter
    FirstIsInclusive
    SteppingFindsUnused
