\* Two subscribers with two sessions each; the box and the open file table
\* are too small for what the publisher sends.
SPECIFICATION FairSpec
CONSTANTS
    pub = pub
    sub1 = sub1
    sub2 = sub2
    none = none
    Publisher = pub
    Subscribers <- TwoSubscribers
    FirstThread = pub
    Nobody = none
    Lengths <- ShortAndLong
    FrameSize = 3
    BoxSize = 5
    MaxOpenFiles = 6
    MaxMessages = 3
    MaxSessions = 2
INVARIANTS
    TypeOK
    SizeCounted
    FirstSessionInStep
    OrderPreserved
    TextsTerminated
    SleepersCaughtUp
PROPERTY
    CatchesUp
CHECK_DEADLOCK FALSE
