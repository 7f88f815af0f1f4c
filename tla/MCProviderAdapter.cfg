SPECIFICATION Spec
CONSTANTS
    shared = shared
    sole = sole
    cue = cue
    next = next
    p1 = p1
    p2 = p2
    Jobs = {shared, sole, cue, next}
    SpeechJobs = {cue, next}
    Before <- MCBefore
    Processes = {p1, p2}
    Deployments <- MCDeployments
    Inputs = {i1, i2}
    Tasks = {t1, t2, t3}
    MaxRetries = 1
    NoJob = NoJob
    NoInput = NoInput
    NoTask = NoTask
SYMMETRY Symmetry
CHECK_DEADLOCK FALSE
INVARIANTS
    TypeOK
    OnePaidTask
    TaskHasIntent
    RecordNeverOverclaims
PROPERTIES
    SoleServerNeverForgets
