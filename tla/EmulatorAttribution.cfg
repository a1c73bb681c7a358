SPECIFICATION Spec
CONSTANTS
    procs = 3
    latency <- ThreeUneven
    steps = 3
    Traffic <- ToThird
    MaxSent = 2
    MinTick = 1
    KernelTimers = FALSE
INVARIANTS
    AttributedToSender
