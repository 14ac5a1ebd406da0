\* The pool of pcq_pool.cfg against the promise of producer-consumer.h.
SPECIFICATION Spec
CONSTANTS
    main = main
    s1 = s1
    s2 = s2
    none = none
    Producers <- OneProducer
    Consumers <- TwoSessions
    Nobody <- none
    Capacity = 2
    SizeMod = 8
    MaxRequests = 3
    MaxTaken = 3
SYMMETRY SessionSymmetry
INVARIANT SleepsWhenEmpty
CHECK_DEADLOCK FALSE
