\* TecnicoFS used as operations.h means it to be.
SPECIFICATION Spec
CONSTANTS
    n1 = n1
    n2 = n2
    long = long
    x = x
    junk = junk
    noname = noname
    Names <- TwoNames
    LongNames <- OneLong
    Bytes <- OneByte
    Junk <- junk
    NoName <- noname
    InodeTableSize = 3
    DataBlocks = 3
    MaxOpenFiles = 2
    MaxDirEntries = 2
    BlockSize = 2
    Modes <- AllModes
    MaxLen = 2
    CloseFirst = TRUE
SYMMETRY NameSymmetry
INVARIANTS
    TypeOK
    NoBlockLeaked
PROPERTY ImplementsFileStore
