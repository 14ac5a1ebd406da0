\* Are messages sent to a subscriber one by one?
SPECIFICATION Spec
CONSTANTS
    pub = pub
    sub1 = sub1
    sub2 = sub2
    none = none
    Publisher = pub
    Subscribers <- OneSubscriber
    FirstThread = pub
    Nobody = none
    Lengths <- ShortAndLong
    FrameSize = 3
    BoxSize = 9
    MaxOpenFiles = 8
    MaxMessages = 3
    MaxSessions = 1
INVARIANT EachMessageSent
CHECK_DEADLOCK FALSE
