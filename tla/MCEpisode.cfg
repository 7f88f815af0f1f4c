SPECIFICATION Spec
CONSTANTS
    r1 = r1
    r2 = r2
    s1 = s1
    s2 = s2
    one = one
    other = other
    both = both
    source = source
    scene = scene
    Revisions = {r1, r2}
    Shots = {s1, s2}
    Plans = {one, other, both}
    RevisionOf <- MCRevisionOf
    ShotsOf <- MCShotsOf
    Dependencies <- MCDependencies
    Source = source
    Assets = {asset}
    Options = {TRUE, FALSE}
    Faulty = {1}
    NoPlan = NoPlan
    NoManifest = NoManifest
    MaxProductions = 2
    MaxDecisions = 3
    MaxUpsets = 1
CONSTRAINT Focus
CHECK_DEADLOCK FALSE
INVARIANTS
    TypeOK
    ManifestIsReviewed
    PublicationFollowsGate3
PROPERTIES
    LockedRevisionFrozen
    NothingCommittedWithoutRights
    ImplementsEpisodeGate
