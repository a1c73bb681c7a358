SPECIFICATION FairSpec
CONSTANTS
    procs = 3
    steps = 3
    StartupSettles = TRUE
    Exiting <- AllChildren
    Programs <- OneOdd
CHECK_DEADLOCK FALSE
INVARIANTS
    TypeOK
    TurnInvariant
    StoppedOnReturn
    OneRunsAtATime
    WindowIsRun
    NoStaleSigchld
    AllKilled
PROPERTIES
    EndsUnlessProgramEnds
