SPECIFICATION Spec
CONSTANTS
    NONE = NONE
    UNPARSABLE = UNPARSABLE
    t1 = t1
    t2 = t2
    TableOrder <- MCTableOrder
    EmptySortKey = {t2}
    GenNamed = {}
    FileRows <- MCFileRowsIn
    WrittenGenerations = {1, 2, 6}
    Times = {0, 1}
    Minute = 2
    enabled = TRUE
    min_files_for_compaction = 1
    max_files_per_run = 2
    generation_durations <- MCGenerationDurations
    MAX_CONCURRENT = 1
    MaxFiles = 2
CHECK_DEADLOCK FALSE
INVARIANT
    RangeCoversRows
