SPECIFICATION Spec
CONSTANTS
    Pid = {p1, p2, p3, p4}
    Job = {j1, tx, bad}
    Invalid = {bad}
    NoNumber = {tx}
    Size = 2
    MaxAttempts = 2
    MaxExits = 1
SYMMETRY Symmetry
INVARIANTS
    ExitsAreOfRegisteredWorkers
    WorkersBounded
    NoSilentLoss
    OneRunner
    AttemptsBounded
PROPERTY NoRunAfterCompletion
CHECK_DEADLOCK FALSE
