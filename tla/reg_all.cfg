\* Two threads, every kind of request, two slots, one file less.
SPECIFICATION Spec
CONSTANTS
    box1 = box1
    box2 = box2
    box3 = box3
    empty = empty
    none = none
    MaxSessions = 2
    MaxBoxes = 2
    MaxFiles = 1
    Names <- ThreeNames
    NoName = empty
    Nobody = none
    Opcodes <- AllOpcodes
    CountLimit = 4
    MaxRequests = 5
SYMMETRY NameSymmetry
INVARIANTS
    TypeOK
    RegistryAgrees
    SlotAvailable
    BoxHasFile
    SessionKeepsBox
    ListExact
PROPERTY
    ImplementsBoxSet
CHECK_DEADLOCK FALSE
