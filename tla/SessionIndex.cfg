SPECIFICATION Spec
CONSTANTS
    a = a  b = b  n = n  p = p  q = q
    None = None
    Runs = {a, b, n}
    News = {n}
    Past <- MCPast
    MaxTrouble = 2
SYMMETRY Symmetry
CONSTRAINT FewTroubles
INVARIANTS
    HistoryInRange
CHECK_DEADLOCK FALSE
