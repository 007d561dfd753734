SPECIFICATION FairSpec
CONSTANTS
    Pid = {p1, p2, p3}
    Job = {j1, bad}
    Invalid = {bad}
    NoNumber = {}
    Size = 1
    MaxAttempts = 2
    MaxExits = 1
PROPERTIES
    PoolRecovers
    CallsResolve
CHECK_DEADLOCK FALSE
