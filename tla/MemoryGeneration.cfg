\* One conversation, two workers in two processes.
CONSTANTS
    Thread = {t1}
    Worker = {w1, w2}
    Revision <- MCRevision
    MaxRunning = 1
    RetryLimit = 1
    MaxToken = 3
    MaxCatalog = 2
    MaxForgets = 1
    MaxRollouts = 1
    MaxChanges = 1
    MaxTasks = 2
SPECIFICATION Spec
SYMMETRY Symmetry
INVARIANTS TypeOK NothingStoredOnceForgotten OwnerWroteTheInputs RestsOnStored
PROPERTIES UsesStore
CHECK_DEADLOCK FALSE
