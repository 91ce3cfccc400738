\* One runtime, no failed writes, every dispatch admitted: does work move on?
CONSTANTS
    Msg = {m1, m2}
    Owner = {o1}
    NoMsg = NoMsg
    NoOwner = NoOwner
    MaxLive = 1
    MaxFaults = 0
    MaxInterrupts = 0
    MaxResyncs = 1
    MaxClears = 0
    MaxTaken = 2
SPECIFICATION LiveSpec
PROPERTIES TakenUnlessKickSwallowed
CHECK_DEADLOCK FALSE
