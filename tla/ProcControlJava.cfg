SPECIFICATION FairSpec
CONSTANTS
    procs = 2
    steps = 3
    StartupSettles = TRUE
    Exiting <- NoChild
    Programs <- Javas
CHECK_DEADLOCK FALSE
PROPERTIES
    AwakeIsAnswered
