SPECIFICATION FairSpec
CONSTANTS
    Node = {n1, n2}
    QueueCap = 3
    MaxHeight = 3
    MaxForks = 2
INVARIANTS
    NoHeadSkipped
    LastSentIsHead
PROPERTY LeftHandlerReturns
CHECK_DEADLOCK FALSE
