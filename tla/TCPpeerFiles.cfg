SPECIFICATION FairSpec
CONSTANTS
    procs = 2
    Original = "original"
    File <- TheFile
    NamesOf <- DrawnNames
    SendChunk = 2
    RecvChunk = 4
    ShortSends = TRUE
INVARIANTS TypeOK HeldOnce
PROPERTIES FileIntact KeepsGoing
CHECK_DEADLOCK FALSE
