SPECIFICATION ServerSpec
CONSTANTS
    NONE = NONE
    a = a
    t = t
    internal = internal
    admin = admin
    tag1 = tag1
    time = time
    TIME_COLUMN_NAME = time
    ColumnOrder <- MCColumnOrder
    INTERNAL_DB_NAME <- MCInternalDbName
    DEFAULT_OPERATOR_TOKEN_NAME <- MCOperatorTokenName
    Writers = {c1, c2}
    Requests = {}
    HttpRequests <- MCHttpRequests
    AuthModes = {FALSE, TRUE}
    paths_without_authz <- MCPathsWithoutAuthz
    max_request_bytes = 1
    IsNamespaceName <- MCIsNamespaceName
    QueryStreams <- MCQueryStreams
    CheckpointInterval = 2
    DefaultHardDeleteDuration = 10
    NumDbsLimit = 1
    DistinctDeletionSeconds = TRUE
    MaxSequence = 3
    MaxId = 3
    MaxTokens = 2
    TimeBits = 8
    MaxClock = 1
SYMMETRY ConnectionSymmetry
INVARIANTS
    OnlyCurrentHashesAuthenticate
    ApplyNeverFails
    DatabaseNamesAreValid
    OperatorTokenHandedOutOnce
    DatabaseCountWithinLimit
    BodyIsWellFormed
