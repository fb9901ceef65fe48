SPECIFICATION MCSpec
CONSTANTS
    c1 = c1 c2 = c2 v1 = v1 a1 = a1 tx = tx TX = TX ty = ty txy = txy
    Calls = {c1, c2}
    Reviews = {v1}
    Audits = {a1}
    Texts = {tx, TX, ty, txy}
    Fold <- MCFold
    Parts <- MCParts
    Olds <- MCOlds
    Limit = 2
    Originals <- MCOriginals
    msgA = msgA  msgB = msgB  slashNew = slashNew  oldTurn = oldTurn
    Runs = {msgA, msgB, slashNew}
    News = {slashNew}
    Past <- MCPast
    FreshTail = 1
    LeafMinFanout = 2
    CondensedMinFanout = 1
    IncrementalMaxDepth = 1
    MaxTrouble = 2
SYMMETRY Symmetry
CONSTRAINT FewTroubles
INVARIANTS
    TypeOK
    NoNewDuplicates
    BudgetKept
    SavedStays
    LcmTypeOK
    ContextInOrder
    NothingDropped
    PromptIsSession
PROPERTIES
    FreshTailKept
CHECK_DEADLOCK FALSE
