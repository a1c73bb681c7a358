SPECIFICATION Spec
CONSTANTS
    SECOND = 1000000000
    Addrs <- TwoAddrs
    Inter <- TunAddr
    latency <- Latencies
    Heads <- TCPHeads
    Segments <- TextSegments
    Clocks <- Readings
INVARIANTS TypeOK ChecksumsVerify DeliveredAsSent
