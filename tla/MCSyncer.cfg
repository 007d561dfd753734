SPECIFICATION SyncFairSpec
CONSTANTS
    DefaultBatch = 3
    MaxBatch = 5
    MaxHead = 12
    Parallel = 2
    MaxRestarts = 3
INVARIANTS
    NoGap
    FetchesOnlySafeBlocks
PROPERTY ResumesAfterCrash
