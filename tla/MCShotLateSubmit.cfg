SPECIFICATION Spec
CONSTANTS
    Run = r1
    Task = t1
    NoTask = NoTask
    Estimated = 2
    Billed = {1, 3}
    Slots = {w1, w2}
    NoSlot = NoSlot
    Commands = {"CANCEL"}
    MaxCommands = 1
    MaxFaults = 1
CHECK_DEADLOCK FALSE
INVARIANTS
    CancelledMeansNoLiveTask
