\* One main thread, one session (mbroker with max_sessions 1), and a ring of
\* two slots, so that both ends can wait.
SPECIFICATION FairSpec
CONSTANTS
    main = main
    s1 = s1
    s2 = s2
    none = none
    Producers <- OneProducer
    Consumers <- OneSession
    Nobody <- none
    Capacity = 2
    SizeMod = 8
    MaxRequests = 5
    MaxTaken = 6
INVARIANTS
    TypeOK
    FIFOInv
    TakenOnce
PROPERTIES
    ImplementsBoundedQueue
    DequeueReturns
    EnqueueReturns
