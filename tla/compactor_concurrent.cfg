SPECIFICATION Spec
CONSTANTS
    NONE = NONE
    UNPARSABLE = UNPARSABLE
    t1 = t1
    t2 = t2
    TableOrder <- MCTableOrder
    EmptySortKey = {t2}
    GenNamed = {}
    FileRows <- MCFileRowsOne
    WrittenGenerations = {1, 2}
    Times = {0}
    Minute = 2
    enabled = TRUE
    min_files_for_compaction = 1
    max_files_per_run = 3
    generation_durations <- MCGenerationDurations
    MAX_CONCURRENT = 2
    MaxFiles = 4
CHECK_DEADLOCK FALSE
INVARIANTS
    InputsNotShared
    ConcurrencyBounded
