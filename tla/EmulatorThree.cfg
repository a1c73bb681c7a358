SPECIFICATION FairSpec
CONSTANTS
    procs = 3
    latency <- ThreeUneven
    steps = 4
    Traffic <- ThreeMixed
    MaxSent = 2
    MinTick = 0
    KernelTimers = TRUE
INVARIANTS
    TypeOK
    SafetyInvariant
    Lookahead
    DeliveryInTimestampOrder
    CausalStamps
    AtMostOnePlace
    ChannelFIFO
PROPERTIES
    NoArrivalInPast
    WindowsMakeProgress
    OnlyUnsupportedDropped
    EmulationFinishes
    ImplementsVirtualNetwork
