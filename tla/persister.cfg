SPECIFICATION Spec
CONSTANTS
    NONE = NONE
    FAILED = FAILED
    MISMATCH = MISMATCH
    PAGE = 2
    Wanted = {0, 1, 2, 3, 4, 5}
    ParquetPaths = {p1, p2}
    Streams <- MCStreams
    MaxSnapshots = 5
INVARIANTS
    TypeOK
    LoadReturnsNewest
    WrittenFilesHaveRows
