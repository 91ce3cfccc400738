\* One request of each kind, two of them made.  The system stops when both are
\* over and the bounds are used up.
CONSTANTS
    t1 = t1
    s1 = s1
    e1 = e1
    Tool <- MCTool
    Side <- MCSide
    Elicit <- MCElicit
    MaxRequests = 2
    MaxFaults = 1
    MaxPolicies = 1
SPECIFICATION Spec
INVARIANTS NothingLeaks DecisionStands WaitingIsShown PromptsArePending
CHECK_DEADLOCK FALSE
