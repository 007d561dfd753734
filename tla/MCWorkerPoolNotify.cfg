SPECIFICATION Spec
CONSTANTS
    Pid = {p1, p2}
    Job = {j1}
    Invalid = {}
    NoNumber = {}
    Size = 2
    MaxAttempts = 2
    MaxExits = 0
PROPERTY NotificationAccepted
CHECK_DEADLOCK FALSE
