SPECIFICATION IdentitySpec
CONSTANTS
    ann = ann
    bob = bob
    t1 = t1
    t2 = t2
    t3 = t3
    e1 = e1
    e2 = e2
    dark = dark
    light = light
    memory = memory
    MemoryLook = memory
    Nil = Nil
    Subjects = {ann, bob}
    Looks = {dark, light, memory}
    Events = {e1, e2}
    Tracks <- MCTracks
    Modalities <- MCModalities
    EventOf <- MCEventOf
    KindOf <- MCKindOf
    FramesOf <- MCFramesOf
    LookOf <- MCLookOf
    ModalitiesOf <- MCModalitiesOf
    Percent <- MCPercent
    MaxRequests = 4
    MaxCopies = 2
    MaxNews = 1
SYMMETRY Names
CHECK_DEADLOCK FALSE
INVARIANT EveryNameHasEvidence
INVARIANT LiveCacheIsCurrent
PROPERTY RetriesChangeNothing
PROPERTY VerdictsAreKept
