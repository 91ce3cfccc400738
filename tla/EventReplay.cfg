\* A window of two events; two events more than fit it and one disturbance, or
\* fewer events and more disturbances.
CONSTANTS
    Limit = 2
    MaxSteps = 5
SPECIFICATION FairSpec
INVARIANTS TypeOK NothingSkipped AppliedInOrder WindowOnDisk DeletedStaysDeleted
PROPERTIES CatchesUp
CHECK_DEADLOCK FALSE
