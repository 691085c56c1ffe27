SPECIFICATION Spec
CONSTANTS
    o1 = o1
    o2 = o2
    o3 = o3
    ObjectIds = {o1, o2, o3}
    Transactions <- SmallTransactions
    MaxWrites = 6
    FreshIds = TRUE
SYMMETRY Symmetry
INVARIANTS
    TypeOK
    CommitmentDeterminesStore
    NeverPanics
PROPERTIES
    WritesFollowReads
    StatusTellsWrites
CHECK_DEADLOCK FALSE
