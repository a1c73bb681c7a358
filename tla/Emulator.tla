------------------------------ MODULE Emulator ------------------------------
(***************************************************************************)
(* The emulation loop of SimpleEM: Emulator::start_emulation and all it    *)
(* calls to run one process at a time and to move packets between them     *)
(* (emulator.hpp, proc_control/emproc.hpp, network/network.hpp).           *)
(*                                                                         *)
(* The emulator repeats, steps times: choose the process with the smallest *)
(* virtual clock, compute for how long it may run, let it run for that     *)
(* window while reading the packets it writes to the TUN device and        *)
(* writing those that fall due, stop it, and move what it sent to the      *)
(* queues of the receivers.                                                *)
(*                                                                         *)
(* Time is counted in an abstract unit (the code counts nanoseconds).      *)
(* Signals are abstracted here: "the process runs" is the window between   *)
(* the SIGCONT and the SIGSTOP of EMProc::awake; module ProcControl has    *)
(* the signals.                                                            *)
(***************************************************************************)
EXTENDS Integers, Sequences, FiniteSetsExt

CONSTANTS
    procs,         \* number of emulated processes
    latency,       \* latency[p][q]: latency of a packet from p to q
    steps,         \* number of awakenings (STEPS of config-parser.hpp)
    Traffic,       \* the <<version, dst>> pairs the programs may send
    MaxSent,       \* bound: frames the programs send in one behaviour
    MinTick,       \* least distance of two readings of CLOCK_MONOTONIC
    KernelTimers   \* TRUE: the kernel also sends for a stopped process

EmIds == 0 .. procs - 1

\* What Network::get_em_id answers for an address of no emulated process.
Unknown == -1

(***************************************************************************)
(* ConfigParser reads procs >= 1 and an integer matrix and rejects one     *)
(* with a diagonal that is not zero; it does not reject negative entries   *)
(* (this module assumes there are none).                                   *)
(***************************************************************************)
ASSUME ProcsAssumption == procs \in Nat \ {0}
ASSUME LatencyAssumption ==
    /\ latency \in [EmIds -> [EmIds -> Nat]]
    /\ \A p \in EmIds : latency[p][p] = 0
ASSUME TrafficAssumption ==
    /\ \A t \in Traffic : t[2] \in EmIds \cup {Unknown}
    /\ steps \in Nat
    /\ MaxSent \in Nat
    /\ MinTick \in {0, 1}
    /\ KernelTimers \in BOOLEAN

VARIABLES
    pc,             \* where the emulator is in its loop
    loop,           \* awakenings completed
    cur,            \* em_id of the process chosen last
    ts,             \* length of the current window
    elapsed,        \* last reading of the time since the window began
    virtual_clock,  \* virtual_clock[p]: time p was awake
    out_packets,    \* out_packets[p]: packets p sent in this window
    in_packets,     \* in_packets[p]: packets to be received by p
    tun,            \* frames in the TUN device, not read yet
    sent,           \* number of frames sent so far; a frame's id is its rank
    delivered       \* delivered[p]: packets written to the device for p

vars == <<pc, loop, cur, ts, elapsed, virtual_clock, out_packets, in_packets,
          tun, sent, delivered>>

\* Control points between SIGCONT and SIGSTOP: the process runs.
Window == {"clock", "deliver", "stop"}

Now == virtual_clock[cur] + elapsed

-----------------------------------------------------------------------------
\* Network: the largest entry of the matrix.
max_latency == Max({0} \cup {latency[p][q] : p \in EmIds, q \in EmIds})

\* Fault: the comparison of the clocks turned round.
ChooseLatest ==
    Min({p \in EmIds : \A q \in EmIds : virtual_clock[q] =< virtual_clock[p]})

\* The first of the processes with the smallest virtual clock.
choose_next_proc ==
    Min({p \in EmIds : \A q \in EmIds : virtual_clock[p] =< virtual_clock[q]})

\* Fault: the latency of the other direction.
IntervalOfReverse(p) ==
    Min({2 * max_latency} \cup
        {virtual_clock[q] - virtual_clock[p] + latency[p][q] : q \in EmIds \ {p}})

\* Fault: the clocks in the difference swapped.
IntervalOfSwappedClocks(p) ==
    Min({2 * max_latency} \cup
        {virtual_clock[p] - virtual_clock[q] + latency[q][p] : q \in EmIds \ {p}})

\* For how long a process can run before something sent to it may be late.
get_time_interval(p) ==
    Min({2 * max_latency} \cup
        {virtual_clock[q] - virtual_clock[p] + latency[q][p] : q \in EmIds \ {p}})

Init ==
    /\ pc = "choose"
    /\ loop = 0
    /\ cur = 0
    /\ ts = 0
    /\ elapsed = 0
    /\ virtual_clock = [p \in EmIds |-> 0]
    /\ out_packets = [p \in EmIds |-> {}]
    /\ in_packets = [p \in EmIds |-> {}]
    /\ tun = <<>>
    /\ sent = 0
    /\ delivered = [p \in EmIds |-> <<>>]

-----------------------------------------------------------------------------
\* Head of the loop: choose a process and its window, and let it run.
Awake ==
    /\ pc = "choose"
    /\ loop < steps
    /\ cur' = choose_next_proc
    /\ ts' = get_time_interval(cur')
    /\ elapsed' = 0
    /\ pc' = "clock"
    /\ UNCHANGED <<loop, virtual_clock, out_packets, in_packets, tun, sent, delivered>>

\* Head of awake's loop: read the clock.  Any reading may follow the last
\* one; those past the window are alike and stand as ts + 1.
ReadClock ==
    /\ pc = "clock"
    /\ elapsed' \in elapsed + MinTick .. ts + 1
    /\ pc' = IF elapsed' > ts THEN "stop" ELSE "deliver"
    /\ UNCHANGED <<loop, cur, ts, virtual_clock, out_packets, in_packets, tun, sent,
                   delivered>>

\* to_receive_before: the packets of in_packets that have to be delivered now.
DuePackets == {m \in in_packets[cur] : m.ts < Now}

\* Fault: the queue does not order its packets.
DeliverAnyDue ==
    /\ pc = "deliver"
    /\ \E m \in DuePackets :
           /\ in_packets' = [in_packets EXCEPT ![cur] = @ \ {m}]
           /\ delivered' = [delivered EXCEPT ![cur] = Append(@, m)]
    /\ UNCHANGED <<pc, loop, cur, ts, elapsed, virtual_clock, out_packets, tun, sent>>

\* Deliver a packet that is due.  The queue is a heap: it yields a packet with
\* the smallest timestamp, any one of those if there are several.
DeliverDue ==
    /\ pc = "deliver"
    /\ \E m \in DuePackets :
           /\ \A n \in DuePackets : m.ts =< n.ts
           /\ in_packets' = [in_packets EXCEPT ![cur] = @ \ {m}]
           /\ delivered' = [delivered EXCEPT ![cur] = Append(@, m)]
    /\ UNCHANGED <<pc, loop, cur, ts, elapsed, virtual_clock, out_packets, tun, sent>>

\* Fault: at most one delivery in a round of the loop (if instead of while).
ReadTunBeforeAllDelivered ==
    /\ pc = "deliver"
    /\ pc' = "clock"
    /\ UNCHANGED <<loop, cur, ts, elapsed, virtual_clock, sent, delivered>>

\* One non-blocking read of the TUN device, after everything due was delivered.
ReadTun ==
    /\ pc = "deliver"
    /\ DuePackets = {}
    /\ pc' = "clock"
    /\ UNCHANGED <<loop, cur, ts, elapsed, virtual_clock, sent, delivered>>

\* Fault: the descriptor is not O_NONBLOCK, a read waits for a frame.
ReceiveBlocks ==
    /\ ReadTun
    /\ tun # <<>>
    /\ UNCHANGED <<tun, in_packets, out_packets>>

ReceiveNothing ==
    /\ ReadTun
    /\ tun = <<>>
    /\ UNCHANGED <<tun, in_packets, out_packets>>

\* A frame was read: it is attributed to cur and stamped with cur's time.
TakeFrame ==
    /\ ReadTun
    /\ tun # <<>>
    /\ tun' = Tail(tun)

\* Not IPv4, or not for an emulated process: dropped.
ReceiveUnsupported ==
    /\ TakeFrame
    /\ Head(tun).version # 4 \/ Head(tun).dst = Unknown
    /\ UNCHANGED <<in_packets, out_packets>>

\* Fault: a frame for the process itself goes nowhere.
ReceiveOwnLost ==
    /\ TakeFrame
    /\ Head(tun).version = 4 /\ Head(tun).dst = cur
    /\ UNCHANGED <<in_packets, out_packets>>

\* For the running process itself: no latency, straight to its in_packets.
ReceiveOwn ==
    /\ TakeFrame
    /\ Head(tun).version = 4 /\ Head(tun).dst = cur
    /\ in_packets' = [in_packets EXCEPT ![cur] = @ \cup
           {[id |-> Head(tun).id, src |-> Head(tun).src, from |-> cur, ts |-> Now]}]
    /\ UNCHANGED out_packets

ReceiveForOther ==
    /\ TakeFrame
    /\ Head(tun).version = 4 /\ Head(tun).dst \in EmIds \ {cur}
    /\ out_packets' = [out_packets EXCEPT ![cur] = @ \cup
           {[id |-> Head(tun).id, src |-> Head(tun).src, dst |-> Head(tun).dst, ts |-> Now]}]
    /\ UNCHANGED in_packets

\* Fault: the process is charged the time that was measured.
StopChargesElapsed ==
    /\ pc = "stop"
    /\ virtual_clock' = [virtual_clock EXCEPT ![cur] = @ + elapsed]
    /\ pc' = "schedule"
    /\ UNCHANGED <<loop, cur, ts, elapsed, out_packets, in_packets, tun, sent, delivered>>

\* End of awake: the process is stopped and charged the planned window.
Stop ==
    /\ pc = "stop"
    /\ virtual_clock' = [virtual_clock EXCEPT ![cur] = @ + ts]
    /\ pc' = "schedule"
    /\ UNCHANGED <<loop, cur, ts, elapsed, out_packets, in_packets, tun, sent, delivered>>

\* Fault: packets are scheduled without their latency.
ScheduleWithoutLatency ==
    /\ pc = "schedule"
    /\ in_packets' = [q \in EmIds |-> in_packets[q] \cup
           {[id |-> m.id, src |-> m.src, from |-> cur, ts |-> m.ts] :
               m \in {o \in out_packets[cur] : o.dst = q}}]
    /\ out_packets' = [out_packets EXCEPT ![cur] = {}]
    /\ loop' = loop + 1
    /\ pc' = "choose"
    /\ UNCHANGED <<cur, ts, elapsed, virtual_clock, tun, sent, delivered>>

\* Fault: packets are copied to the receivers (top without pop).
ScheduleKeepsPackets ==
    /\ pc = "schedule"
    /\ in_packets' = [q \in EmIds |-> in_packets[q] \cup
           {[id |-> m.id, src |-> m.src, from |-> cur, ts |-> m.ts + latency[cur][q]] :
               m \in {o \in out_packets[cur] : o.dst = q}}]
    /\ loop' = loop + 1
    /\ pc' = "choose"
    /\ UNCHANGED <<cur, ts, elapsed, virtual_clock, out_packets, tun, sent, delivered>>

\* Move all that cur sent to the queues of the receivers, later by the latency,
\* with the address of cur as the source.
schedule_sent_packets ==
    /\ pc = "schedule"
    /\ in_packets' = [q \in EmIds |-> in_packets[q] \cup
           {[id |-> m.id, src |-> m.src, from |-> cur, ts |-> m.ts + latency[cur][q]] :
               m \in {o \in out_packets[cur] : o.dst = q}}]
    /\ out_packets' = [out_packets EXCEPT ![cur] = {}]
    /\ loop' = loop + 1
    /\ pc' = "choose"
    /\ UNCHANGED <<cur, ts, elapsed, virtual_clock, tun, sent, delivered>>

\* All awakenings done: start_emulation returns.
Finish ==
    /\ pc = "choose"
    /\ loop >= steps
    /\ pc' = "done"
    /\ UNCHANGED <<loop, cur, ts, elapsed, virtual_clock, out_packets, in_packets, tun,
                   sent, delivered>>

\* The running process writes a frame to the device: a send of its program, or
\* a frame of the kernel for one of its sockets.  With KernelTimers, the kernel
\* does so for stopped processes too (acknowledgements, retransmissions).
Emit(p) ==
    /\ pc # "done"
    /\ (pc \in Window /\ p = cur) \/ KernelTimers
    /\ sent < MaxSent
    /\ sent' = sent + 1
    /\ \E t \in Traffic :
           tun' = Append(tun, [id |-> sent', src |-> p, version |-> t[1], dst |-> t[2]])
    /\ UNCHANGED <<pc, loop, cur, ts, elapsed, virtual_clock, out_packets, in_packets,
                   delivered>>

Terminated == pc = "done" /\ UNCHANGED vars

EmulatorStep ==
    \/ Awake
    \/ ReadClock
    \/ DeliverDue
    \/ ReceiveNothing
    \/ ReceiveUnsupported
    \/ ReceiveOwn
    \/ ReceiveForOther
    \/ Stop
    \/ schedule_sent_packets
    \/ Finish

Next == EmulatorStep \/ (\E p \in EmIds : Emit(p)) \/ Terminated

Spec == Init /\ [][Next]_vars

\* The emulator is a program that keeps running, and the clock it reads again and
\* again moves on; the programs it runs need not send anything.
FairSpec == Spec /\ WF_vars(EmulatorStep) /\ SF_vars(ReadClock /\ elapsed' > elapsed)

-----------------------------------------------------------------------------
\* Virtual time of a process: that of the running one moves on through its
\* window, and stays at the end of the window however late the clock is read.
ClockOf(p) ==
    virtual_clock[p] + (IF pc \in Window /\ p = cur THEN Min({elapsed, ts}) ELSE 0)

FrameIds == 1 .. MaxSent

Frames == [id : FrameIds, src : EmIds, version : {t[1] : t \in Traffic},
           dst : EmIds \cup {Unknown}]

OutPackets == [id : FrameIds, src : EmIds, dst : EmIds, ts : Nat]

InPackets == [id : FrameIds, src : EmIds, from : EmIds, ts : Nat]

\* The queues hold packets of their kinds and no counter or clock is negative.
TypeOK ==
    /\ pc \in {"choose", "clock", "deliver", "stop", "schedule", "done"}
    /\ loop \in Nat
    /\ cur \in EmIds
    /\ ts \in Nat
    /\ elapsed \in 0 .. ts + 1
    /\ virtual_clock \in [EmIds -> Nat]
    /\ out_packets \in [EmIds -> SUBSET OutPackets]
    /\ in_packets \in [EmIds -> SUBSET InPackets]
    /\ tun \in Seq(Frames)
    /\ sent \in 0 .. MaxSent
    /\ delivered \in [EmIds -> Seq(InPackets)]

\* No process is ever so far ahead of another that a packet the other may
\* still send would be late: get_time_interval and choose_next_proc, over any
\* sequence of windows.
Lookahead ==
    \A p, q \in EmIds : ClockOf(p) =< ClockOf(q) + latency[q][p]

\* Each process receives packets in the order of their timestamps, whatever
\* processes sent them and in whichever windows they were read.
DeliveryInTimestampOrder ==
    \A p \in EmIds : \A i, j \in DOMAIN delivered[p] :
        i < j => delivered[p][i].ts =< delivered[p][j].ts

\* Virtual times at which p sent the packets that exist for q.
StampsFor(p, q) ==
    {m.ts : m \in {o \in out_packets[p] : o.dst = q}} \cup
    {m.ts - latency[p][q] : m \in {o \in in_packets[q] : o.from = p}} \cup
    {delivered[q][i].ts - latency[p][q] :
        i \in {j \in DOMAIN delivered[q] : delivered[q][j].from = p}}

\* What a process sent at virtual time t, it sent after receiving everything
\* that was due to it before t: nothing still queued for it, or queued for it
\* later, is older than a packet it already sent (awake delivers before it
\* reads, and arrivals are never in the past).
CausalStamps ==
    \A p, q \in EmIds : \A t \in StampsFor(p, q) : \A m \in in_packets[p] : t =< m.ts

\* Packets of one process to another are received in the order they were read
\* from the device, over all windows and both queues; only two that were read at
\* equal readings of the clock may change places (the heaps order by timestamp
\* alone), so none if no two readings are equal.
ChannelFIFO ==
    \A p \in EmIds : \A i, j \in DOMAIN delivered[p] :
        i < j /\ delivered[p][i].from = delivered[p][j].from
            => \/ delivered[p][i].id < delivered[p][j].id
               \/ MinTick = 0 /\ delivered[p][i].ts = delivered[p][j].ts

\* Where frame n is.
Places(n) ==
    {<<"tun", i>> : i \in {j \in DOMAIN tun : tun[j].id = n}} \cup
    {<<"out", m>> : m \in {o \in UNION {out_packets[p] : p \in EmIds} : o.id = n}} \cup
    (UNION {{<<"in", p, m>> : m \in {o \in in_packets[p] : o.id = n}} : p \in EmIds}) \cup
    UNION {{<<"delivered", p, i>> :
               i \in {j \in DOMAIN delivered[p] : delivered[p][j].id = n}} : p \in EmIds}

\* A frame is in one place at most on its way through the device, the two queues
\* and the windows: the emulator does not duplicate it.
AtMostOnePlace == \A n \in 1 .. sent : Cardinality(Places(n)) =< 1

\* The emulator loses no frame, in whatever window it is read: the only ones that
\* disappear are those awake drops, not IPv4 or for no emulated process.
OnlyUnsupportedDropped ==
    [][\A n \in 1 .. sent : Places(n) # {} /\ Places(n)' = {} =>
           LET f == Head(tun)
           IN  tun # <<>> /\ f.id = n /\ (f.version # 4 \/ f.dst = Unknown)]_vars

\* A packet that joins a process' in_packets is not due before the virtual time
\* that process has already reached (schedule_sent_packets).
NoArrivalInPast ==
    [][\A p \in EmIds : \A m \in in_packets'[p] \ in_packets[p] : ClockOf(p) =< m.ts]_vars

\* A window is never empty: if no latency between two processes is zero, each
\* awakening is for at least the smallest latency towards the chosen process.
WindowsMakeProgress ==
    [][pc = "choose" /\ pc' = "clock" /\ procs > 1
        => ts' >= Min({latency[q][cur'] : q \in EmIds \ {cur'}})]_vars

\* The emulator performs its steps awakenings and ends (start_emulation).
EmulationFinishes == <>(pc = "done")

\* emproc.hpp documents out_packets as the packets the awake process sent, which
\* are then sent on with its address and its clock.
AttributedToSender == \A p \in EmIds : \A m \in out_packets[p] : m.src = p

-----------------------------------------------------------------------------
(* The inductive invariant behind Lookahead, DeliveryInTimestampOrder,     *)
(* CausalStamps and NoArrivalInPast (module EmulatorProofs).               *)

\* Between windows the clocks are close, and a window keeps them so.
ClocksClose ==
    /\ \A p, q \in EmIds : virtual_clock[p] =< virtual_clock[q] + latency[q][p]
    /\ pc \in Window =>
           \A q \in EmIds \ {cur} : virtual_clock[cur] + ts =< virtual_clock[q] + latency[q][cur]

\* A reading past the window is followed by the end of the window.
ReadingInWindow ==
    /\ pc \in {"clock", "deliver"} => elapsed =< ts
    /\ pc = "stop" => elapsed > ts

\* Only the process of the current window has sent packets not yet scheduled.
OutOnlyInWindow ==
    \A p \in EmIds : out_packets[p] # {} => p = cur /\ pc \in Window \cup {"schedule"}

\* A packet not yet scheduled is for another process, stamped in the past of
\* its sender, and will not be due in the past of its receiver.
SentInTime ==
    \A p \in EmIds : \A m \in out_packets[p] :
        /\ m.dst # p
        /\ m.ts =< ClockOf(p)
        /\ virtual_clock[m.dst] =< m.ts + latency[p][m.dst]

\* What was received was due in the past, and nothing older is still queued.
DeliveredInPast ==
    \A p \in EmIds : \A i \in DOMAIN delivered[p] :
        /\ delivered[p][i].ts =< ClockOf(p)
        /\ \A m \in in_packets[p] : delivered[p][i].ts =< m.ts

\* What a process sent, it sent in its past.
StampsInPast ==
    \A p, q \in EmIds : \A t \in StampsFor(p, q) : t =< ClockOf(p)

SafetyInvariant ==
    /\ TypeOK
    /\ ClocksClose
    /\ ReadingInWindow
    /\ OutOnlyInWindow
    /\ SentInTime
    /\ DeliveredInPast
    /\ DeliveryInTimestampOrder

\* Frames leave the device in the order of their ids, and a packet that was read
\* has a smaller id than those not read yet.
IdsInOrder ==
    /\ Len(tun) =< sent
    /\ \A i \in DOMAIN tun : tun[i].id = sent - Len(tun) + i
    /\ \A p \in EmIds : \A m \in in_packets[p] \cup out_packets[p] : m.id =< sent - Len(tun)
    /\ \A p \in EmIds : \A i \in DOMAIN delivered[p] : delivered[p][i].id =< sent - Len(tun)

\* No two queued packets are the same frame.
QueuedIdsUnique ==
    /\ \A p, q \in EmIds : \A m \in in_packets[p], n \in in_packets[q] :
           m.id = n.id => p = q /\ m = n
    /\ \A p, q \in EmIds : \A m \in in_packets[p], n \in out_packets[q] : m.id # n.id
    /\ \A p, q \in EmIds : \A m \in out_packets[p], n \in out_packets[q] :
           m.id = n.id => p = q /\ m = n

-----------------------------------------------------------------------------
\* What a queued packet is to the abstract network.
Queued(p, m) == [id |-> m.id, from |-> m.from, dst |-> p, due |-> m.ts]

\* What a sent packet is: its latency is added when the window has ended.
Unscheduled(p, m) ==
    [id |-> m.id, from |-> p, dst |-> m.dst, due |-> m.ts + latency[p][m.dst]]

AbstractClock == [p \in EmIds |-> ClockOf(p)]

AbstractFlight ==
    UNION {{Queued(p, m) : m \in in_packets[p]} \cup
           {Unscheduled(p, m) : m \in out_packets[p]} : p \in EmIds}

AbstractReceived ==
    [p \in EmIds |-> [i \in DOMAIN delivered[p] |-> Queued(p, delivered[p][i])]]

VN == INSTANCE VirtualNetwork WITH
    Procs <- EmIds,
    Latency <- latency,
    Ids <- FrameIds,
    clock <- AbstractClock,
    flight <- AbstractFlight,
    received <- AbstractReceived

\* The emulation loop implements the virtual network it promises.
ImplementsVirtualNetwork == VN!Spec
=============================================================================
