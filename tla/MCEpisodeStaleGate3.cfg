SPECIFICATION Spec
CONSTANTS
    r1 = r1
    r2 = r2
    s1 = s1
    s2 = s2
    one = one
    other = other
    both = both
    source = source
    scene = scene
    Revisions = {r1}
    Shots = {s1, s2}
    Plans = {one, other}
    RevisionOf <- MCOneRevision
    ShotsOf <- MCShotsOf
    Dependencies = {}
    Source = source
    Assets = {}
    Options = {FALSE}
    Faulty = {}
    NoPlan = NoPlan
    NoManifest = NoManifest
    MaxProductions = 2
    MaxDecisions = 3
    MaxUpsets = 1
CHECK_DEADLOCK FALSE
INVARIANT Gate3AnswersOwnManifest
