SPECIFICATION Spec
CONSTANTS
    Run = r1
    Task = t1
    NoTask = NoTask
    Estimated = 2
    Billed = {1, 3}
    Slots = {w1, w2}
    NoSlot = NoSlot
    Commands = {"PAUSE"}
    MaxCommands = 1
    MaxFaults = 0
CHECK_DEADLOCK FALSE
INVARIANTS
    PausedWorkflowIsResumable
