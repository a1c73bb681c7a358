SPECIFICATION Spec
CONSTANTS
    procs = 2
    steps = 2
    StartupSettles = FALSE
    Exiting <- NoChild
    Programs <- Executables
CHECK_DEADLOCK FALSE
INVARIANTS
    StoppedOnReturn
