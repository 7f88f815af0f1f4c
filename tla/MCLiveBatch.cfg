SPECIFICATION Spec
CONSTANTS
    N = 3
    MaxSnapshots = 2
    MaxOpen = 2
    MaxFaults = 2
INVARIANTS TypeOK OneResultPerShot ContinuationInOrder QuotaReservedOnce LedgersAgree FinalizedSetIsExact
CHECK_DEADLOCK FALSE
