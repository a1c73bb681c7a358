SPECIFICATION Spec
CONSTANTS
    procs = 2
    Original = "original"
    File <- TheFile
    NamesOf <- DrawnNames
    SendChunk = 2
    RecvChunk = 4
    ShortSends = TRUE
INVARIANT SuccessMeansSent
CHECK_DEADLOCK FALSE
