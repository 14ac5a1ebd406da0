\* Does a box have one publisher at most?
SPECIFICATION Spec
CONSTANTS
    box1 = box1
    box2 = box2
    box3 = box3
    empty = empty
    none = none
    MaxSessions = 3
    MaxBoxes = 1
    MaxFiles = 1
    Names <- OneName
    NoName = empty
    Nobody = none
    Opcodes <- PublisherOpcodes
    CountLimit = 4
    MaxRequests = 5
INVARIANT OnePublisher
CHECK_DEADLOCK FALSE
