\* Two runtimes of one session alive at the same time.
CONSTANTS
    Command = {c1}
    Owner = {o1, o2}
    Conn = {k1, k2}
    NoOwner = NoOwner
    NoCommand = NoCommand
    NoConn = NoConn
    RecentMax = 1
    MaxTasks = 2
    MaxLive = 2
    MaxLeases = 2
    MaxFaults = 0
    MaxFailures = 1
    MaxRuns = 2
SPECIFICATION Spec
SYMMETRY Symmetry
INVARIANTS ExecutedByOne
PROPERTIES DeliversCommands
CHECK_DEADLOCK FALSE
