SPECIFICATION FairSpec
CONSTANTS
    Run = r1
    Task = t1
    NoTask = NoTask
    Estimated = 2
    Billed = {1}
    Slots = {w1, w2}
    NoSlot = NoSlot
    Commands = {"CANCEL", "RECOVER"}
    MaxCommands = 2
    MaxFaults = 0
CHECK_DEADLOCK FALSE
PROPERTIES
    SuccessRaceConverges
