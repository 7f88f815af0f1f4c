SPECIFICATION Spec
CONSTANTS
    Run = r1
    Task = t1
    NoTask = NoTask
    Estimated = 2
    Billed = {1, 3}
    Slots = {w1, w2}
    NoSlot = NoSlot
    Commands = {"PAUSE", "RESUME", "CANCEL", "RECOVER"}
    MaxCommands = 3
    MaxFaults = 1
SYMMETRY Symmetry
CHECK_DEADLOCK FALSE
INVARIANTS
    TypeOK
    PaidTaskForbidsSubmit
    SettledOutcomeIsReal
    SuccessIsDelivered
