SPECIFICATION Spec
CONSTANTS
    h1 = h1
    h2 = h2
    b = b
    None = None
    Authorities <- Members
    Weight <- UnequalStake
    Quorum = 3
    Byzantine = {b}
    LogEffects = {"nothing", "writes"}
    Commitments <- StoreCommitments
    Timings = {"live", "replayed"}
    MaxSubdag = 5
    Round <- SameRoundFirst
    MaxCheckpoints = 1
    MaxVotes = 1
    MaxByzantineVotes = 0
    MaxCrashes = 1
    MaxFaults <- FewerWhenLonger
INVARIANTS
    LatenciesStartAtTheMint
CHECK_DEADLOCK FALSE
