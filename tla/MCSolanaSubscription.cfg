SPECIFICATION FairSpec
CONSTANTS
    Endpoints = 2
    Cap = 2
    MaxDelay = 6
    StartSlot = 1
    MaxSlot = 2
    MaxNotes = 3
INVARIANTS
    PipelineComplete
    SubscriptionPersists
PROPERTY CancelledTaskEnds
CHECK_DEADLOCK FALSE
