\* One runtime at a time, replaced once its lease is free.
CONSTANTS
    Command = {c1, c2}
    Owner = {o1, o2}
    Conn = {k1}
    NoOwner = NoOwner
    NoCommand = NoCommand
    NoConn = NoConn
    RecentMax = 1
    MaxTasks = 1
    MaxLive = 1
    MaxLeases = 1
    MaxFaults = 1
    MaxFailures = 1
    MaxRuns = 2
SPECIFICATION Spec
SYMMETRY Symmetry
INVARIANTS TypeOK ExecutedOnce AcknowledgedIsKept
CHECK_DEADLOCK FALSE
