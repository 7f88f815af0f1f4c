SPECIFICATION FairSpec
CONSTANTS
    Run = r1
    Task = t1
    NoTask = NoTask
    Estimated = 2
    Billed = {1, 3}
    Slots = {w1, w2}
    NoSlot = NoSlot
    Commands = {"PAUSE", "CANCEL"}
    MaxCommands = 2
    MaxFaults = 0
CHECK_DEADLOCK FALSE
PROPERTIES
    PausedCancelAnswered
