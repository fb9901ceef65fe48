SPECIFICATION Spec
CONSTANTS
    a = a  b = b  n = n  p = p  q = q
    None = None
    Runs = {a, b, n}
    News = {n}
    Past <- MCPast
    MaxTrouble = 2
SYMMETRY Symmetry
CONSTRAINT FewTroubles
INVARIANTS
    TypeOK
    FileHoldsSession
    ArchivedOnce
    HiddenIsArchived
CHECK_DEADLOCK FALSE
