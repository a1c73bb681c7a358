SPECIFICATION FairSpec
CONSTANTS
    procs = 2
    steps = 3
    StartupSettles = TRUE
    Exiting <- FirstChild
    Programs <- Executables
CHECK_DEADLOCK FALSE
PROPERTIES
    EmulationEnds
