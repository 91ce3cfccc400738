\* One runtime at a time; a crashed one is replaced by the next.
CONSTANTS
    Msg = {m1, m2}
    Owner = {o1, o2}
    NoMsg = NoMsg
    NoOwner = NoOwner
    MaxLive = 1
    MaxFaults = 1
    MaxInterrupts = 1
    MaxResyncs = 0
    MaxClears = 1
    MaxTaken = 3
SPECIFICATION Spec
SYMMETRY Symmetry
INVARIANTS TypeOK NoMessageLost SinglePlace TakenOnce FollowUpsInOrder
PROPERTIES ServesFollowUps
CHECK_DEADLOCK FALSE
