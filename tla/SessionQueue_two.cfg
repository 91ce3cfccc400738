\* Two runtimes of one session alive at the same time.
CONSTANTS
    Msg = {m1}
    Owner = {o1, o2}
    NoMsg = NoMsg
    NoOwner = NoOwner
    MaxLive = 2
    MaxFaults = 0
    MaxInterrupts = 1
    MaxResyncs = 0
    MaxClears = 0
    MaxTaken = 1
SPECIFICATION Spec
SYMMETRY Symmetry
INVARIANTS ClaimFenced
CHECK_DEADLOCK FALSE
