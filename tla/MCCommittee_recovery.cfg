SPECIFICATION FairSpec
CONSTANTS
    h1 = h1
    h2 = h2
    b = b
    None = None
    Authorities <- Members
    Weight <- UnequalStake
    Quorum = 3
    Byzantine = {b}
    LogEffects = {"nothing", "writes"}
    Commitments <- StoreCommitments
    Timings = {"live", "replayed"}
    MaxSubdag = 8
    Round <- SameRoundFirst
    MaxCheckpoints = 2
    MaxVotes = 1
    MaxByzantineVotes = 1
    MaxCrashes = 2
    MaxFaults <- FewerWhenLonger
INVARIANTS
    TypeOK
    PrefixDeterminesState
    CertifiedWasExecuted
    CorrectVotesAreTruthful
    PendingIsAttested
PROPERTIES
    CheckpointsCertify
CHECK_DEADLOCK FALSE
