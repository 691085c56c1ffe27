SPECIFICATION LoadSpec
CONSTANTS
    Generators = {0, 1}
    AuthorityRange = 2
    RandomRange = 8
    Seed <- SameSeed
    TransactionsPerInterval = 3
    TransactionSize = 2
    MaxBlockSize = 3
    QueueCapacity = 1
    MaxRestarts = 1
    MaxCreations = 12
INVARIANTS
    CreatesFreshObjects
CHECK_DEADLOCK FALSE
