SPECIFICATION Spec
CONSTANTS
    p1 = p1
    p2 = p2
    k1 = k1
    Plans <- MCPlans
    Keys <- MCKeys
    ProjectTasks = 2
    MaxAttempts = 2
    MaxFaults = 2
SYMMETRY Symmetry
INVARIANTS TypeOK EveryTaskCountedOnce OneLiveTaskPerProject OutcomeIsReal
PROPERTIES TerminalEvidenceIsFinal
CHECK_DEADLOCK FALSE
