SPECIFICATION Spec
CONSTANTS
    once = once  second = second  kept = kept  brief = brief  long = long  daily = daily
    Never = Never
    Pending = Pending
    Jobs = {once, second}
    Kind <- MCKind
    Period <- MCPeriod
    ByTool = {once, second}
    Grid = 1
    PollDelay = 1
INVARIANT
    ExecutedOnce
