\* The broker's pool: one main thread, two sessions, capacity max_sessions.
SPECIFICATION Spec
CONSTANTS
    main = main
    s1 = s1
    s2 = s2
    none = none
    Producers <- OneProducer
    Consumers <- TwoSessions
    Nobody <- none
    Capacity = 2
    SizeMod = 8
    MaxRequests = 4
    MaxTaken = 4
SYMMETRY SessionSymmetry
INVARIANTS
    MutualExclusion
    SizeCounts
    SlotDiscipline
    NoWakeupLost
CHECK_DEADLOCK FALSE
