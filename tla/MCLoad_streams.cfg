SPECIFICATION LoadSpec
CONSTANTS
    Generators = {0, 1}
    AuthorityRange = 2
    RandomRange = 8
    Seed <- SameSeed
    TransactionsPerInterval = 4
    TransactionSize = 2
    MaxBlockSize = 5
    QueueCapacity = 1
    MaxRestarts = 1
    MaxCreations = 16
INVARIANTS
    TypeOK
    ShipsTheStream
    ReportsLagByATick
    FirstLivesCreateFreshObjects
CHECK_DEADLOCK FALSE
