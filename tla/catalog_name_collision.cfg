SPECIFICATION Spec
CONSTANTS
    NONE = NONE
    a = a
    t = t
    n = n
    internal = internal
    admin = admin
    f1 = f1
    tag1 = tag1
    tag2 = tag2
    tag3 = tag3
    time = time
    TIME_COLUMN_NAME = time
    ColumnOrder <- MCColumnOrder
    INTERNAL_DB_NAME <- MCInternalDbName
    DEFAULT_OPERATOR_TOKEN_NAME <- MCOperatorTokenName
    Writers = {w1, w2}
    Requests <- MCDatabaseRequests
    CheckpointInterval = 2
    DefaultHardDeleteDuration = 10
    NumDbsLimit = 100
    DistinctDeletionSeconds = FALSE
    MaxSequence = 5
    MaxId = 3
    MaxTokens = 2
    TimeBits = 8
    MaxClock = 1
INVARIANT
    RepositoriesAgree
