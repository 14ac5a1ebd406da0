\* TecnicoFS used as the broker uses it: boxes are removed while open.
SPECIFICATION Spec
CONSTANTS
    n1 = n1
    n2 = n2
    long = long
    x = x
    junk = junk
    noname = noname
    Names <- TwoNames
    LongNames <- OneLong
    Bytes <- OneByte
    Junk <- junk
    NoName <- noname
    InodeTableSize = 3
    DataBlocks = 3
    MaxOpenFiles = 2
    MaxDirEntries = 2
    BlockSize = 2
    Modes <- BrokerModes
    MaxLen = 2
    CloseFirst = FALSE
SYMMETRY NameSymmetry
INVARIANTS
    DirectoryConsistent
    BlocksOwned
    OnlyOrphansFault
CHECK_DEADLOCK FALSE
