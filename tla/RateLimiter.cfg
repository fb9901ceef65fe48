SPECIFICATION Spec
CONSTANTS
    Callers = {c1, c2}
    Names = {empty, unknown, other}
    Empty = empty
    Unknown = unknown
    None = None
    Limit = 2
    Window = 2
    MaxLag = 2
    Horizon = 13
SYMMETRY Symmetry
INVARIANTS
    TypeOK
    OldEntriesFreed
PROPERTY
    QuotaSpec
