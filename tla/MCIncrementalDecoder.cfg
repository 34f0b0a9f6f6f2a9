SPECIFICATION DSpec
CONSTANTS
    MBWidth = 2
    MBHeight = 4
    HeaderSize = 2
    AlphaAt = 1
    Part0Size = 2
    ChunkSize = 3
    MBSize = 2
    MaxMBSize = 3
    BrokenRow = 2
    Decodings <- MCDecodings
INVARIANTS
    PictureRight
    NoLostWakeup
    ReadersCurrent
    OutputOutlivesJobs
PROPERTIES
    ImplementsSlot
    DecodingEnds
CHECK_DEADLOCK FALSE
