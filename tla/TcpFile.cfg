SPECIFICATION FairSpec
CONSTANTS
    File <- SevenBytes
    SizeBytes = 2
    SendChunk = 3
    RecvChunk = 4
    BufferChunk = 2
    StreamBuffer = 1
    Capacity = 4
INVARIANTS
    TypeOK
    NothingLost
    WrittenIsPrefix
    SuccessIsWhole
PROPERTIES
    NoSuccessAfterReset
    ResetEndsSender
    TransferEnds
CHECK_DEADLOCK FALSE
