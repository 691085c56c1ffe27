SPECIFICATION Spec
CONSTANTS
    a1 = a1
    a2 = a2
    o = o
    None = None
    Authorities <- Members
    Weight <- UnequalStake
    Quorum = 2
    Commitments <- Chains
    Timings <- SubdagTimings
    MaxSubdag = 3
    Round <- SameRoundFirst
    ObjectIds = {o}
    Transactions = {}
    MaxWrites = 6
    Submissions <- Payloads
    VoteStamp = 9
    MaxPayloadSize = 2
    StampRange = 32
    Shapes <- TwoPayloads
INVARIANTS
    TypeOK
    BlockOrderIsImmaterial
    MeansLieWithinStamps
PROPERTIES
    ImplementsLedger
CHECK_DEADLOCK FALSE
