SPECIFICATION FairSpec
CONSTANTS
    Half = 4
    MaxRange = 2
    Cap = 2
INVARIANTS
    OkMeansAllListed
    ListWithinLimit
PROPERTY ClosedStreamEndsTask
CHECK_DEADLOCK FALSE
