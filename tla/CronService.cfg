SPECIFICATION FairSpec
CONSTANTS
    once = once  second = second  kept = kept  brief = brief  long = long  daily = daily
    Never = Never
    Pending = Pending
    Jobs = {once, long}
    Kind <- MCKind
    Period <- MCPeriod
    ByTool = {once}
    Grid = 1
    PollDelay = 1
INVARIANTS
    TypeOK
    OneShotAtMostOnce
PROPERTIES
    IntervalRunsApart
    RemovedStaysRemoved
    SomeJobRuns
