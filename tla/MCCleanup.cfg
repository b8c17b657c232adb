SPECIFICATION Spec
CONSTANTS
    Schedules = {named, stuck}
    named = named  stuck = stuck
    Concluded = {stuck}
    Workers = {w1, w2}
    DailyLimit = 1
    MonthlyLimit = 2
    MonthlyCostLimit = 9
    Cost = 5
    LeaseTimeout = 1
    DayLength = 1
    MonthLength = 2
    MaxVersion <- MCMaxVersion
    MaxTime = 2
    Retention = 1
    JobRetention = 1
    BudgetRetention = 1
    BatchSize = 2
    MaxCycles = 1
    Stubborn = {stuck}
CHECK_DEADLOCK FALSE
INVARIANTS
    TypeOK
    NameFitsContent
    SpendingIsCapped
PROPERTIES
    JobsAreSettled
    DueIsErased
