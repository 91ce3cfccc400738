\* Two sessions of one conversation, one message and one result, one fault.
CONSTANTS
    Message = {m1}
    Result = {r1}
    Session = {s1, s2}
    NoSession = NoSession
    MaxFaults = 1
SPECIFICATION Spec
INVARIANTS HandledIsSeen ConsumedOnce WakeClaimHeld
PROPERTIES Heard
CHECK_DEADLOCK FALSE
