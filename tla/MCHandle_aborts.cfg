SPECIFICATION Spec
CONSTANTS
    a = a
    None = None
    Authorities = {a}
    Weight <- UnitWeight
    Quorum = 1
    Commitments <- StoreCommitments
    Timings = {"live", "replayed"}
    MaxSubdag = 3
    Round <- SuccessiveRounds
    StreamEffects = {"nothing", "aborts", "writes"}
    MaxVotes = 1
    MaxReplayed = 2
    StreamCapacity = 2
    QueueCapacity = 1
    MaxTransactions = 2
INVARIANTS
    EqualityMeansCertified
