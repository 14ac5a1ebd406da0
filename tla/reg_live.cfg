\* Every kind of request, with threads that go on.
SPECIFICATION FairSpec
CONSTANTS
    box1 = box1
    box2 = box2
    box3 = box3
    empty = empty
    none = none
    MaxSessions = 2
    MaxBoxes = 2
    MaxFiles = 1
    Names <- TwoNames
    NoName = empty
    Nobody = none
    Opcodes <- AllOpcodes
    CountLimit = 4
    MaxRequests = 3
PROPERTY
    RequestsEnd
CHECK_DEADLOCK FALSE
