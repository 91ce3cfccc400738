\* No faults and no failing handlers: is what was acknowledged carried out?
CONSTANTS
    Command = {c1}
    Owner = {o1, o2}
    Conn = {k1, k2}
    NoOwner = NoOwner
    NoCommand = NoCommand
    NoConn = NoConn
    RecentMax = 1
    MaxTasks = 1
    MaxLive = 1
    MaxLeases = 1
    MaxFaults = 0
    MaxFailures = 0
    MaxRuns = 1
SPECIFICATION LiveSpec
PROPERTIES AcknowledgedIsExecuted
CHECK_DEADLOCK FALSE
