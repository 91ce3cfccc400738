\* Two threads, one phase-1 slot, callers under no discipline.
CONSTANTS
    Thread = {t1, t2}
    Revision <- MCRevision
    MaxRunning = 1
    RetryLimit = 1
    MaxToken = 3
    MaxCatalog = 3
    MaxForgets = 1
SPECIFICATION StoreSpec
SYMMETRY Symmetry
INVARIANTS StoreTypeOK ForgottenStaysForgotten StoredIsLastSuccess SlotsBounded
    RestsOnlyWhenCurrent
PROPERTIES LiveClaimOnlySuperseded LostClaimStaysLost
CHECK_DEADLOCK FALSE
