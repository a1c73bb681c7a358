--------------------------- MODULE EmulatorProofs ---------------------------
(***************************************************************************)
(* Proofs about the emulation loop, for every number of processes, every   *)
(* latency matrix with a zero diagonal and every number of awakenings.     *)
(***************************************************************************)
EXTENDS Emulator, WellFoundedInduction, TLAPS

-----------------------------------------------------------------------------
(* Smallest and largest elements                                           *)

\* A nonempty set of natural numbers has a smallest element, which Min yields.
LEMMA MinOfNaturals ==
    ASSUME NEW S \in SUBSET Nat, S # {}
    PROVE  /\ Min(S) \in S
           /\ \A x \in S : Min(S) =< x
<1> DEFINE R == {ss \in Nat \X Nat : ss[1] < ss[2]}
<1>1. \E x \in S : \A y \in S : x =< y
  <2>1. IsWellFoundedOn(R, Nat)
    BY NatLessThanWellFounded DEF OpToRel
  <2>2. \E x \in S : \A y \in S : <<y, x>> \notin R
    BY <2>1, WFMin
  <2>3. \A x, y \in S : <<y, x>> \notin R => x =< y
    OBVIOUS
  <2> QED  BY <2>2, <2>3
<1> QED  BY <1>1 DEF Min

\* So does a nonempty set of natural numbers with an upper bound, with Max.
LEMMA MaxOfNaturals ==
    ASSUME NEW S \in SUBSET Nat, S # {},
           NEW b \in Nat, \A x \in S : x =< b
    PROVE  /\ Max(S) \in S
           /\ \A x \in S : x =< Max(S)
<1> DEFINE T == {n \in Nat : \E x \in S : n = b - x}
<1>1. PICK t \in T : \A u \in T : t =< u
  <2>1. T \in SUBSET Nat
    OBVIOUS
  <2>2. T # {}
    <3>1. PICK x \in S : TRUE
      OBVIOUS
    <3>2. b - x \in T
      OBVIOUS
    <3> QED  BY <3>2
  <2> HIDE DEF T
  <2> QED  BY <2>1, <2>2, MinOfNaturals
<1>2. PICK m \in S : t = b - m
  OBVIOUS
<1>3. ASSUME NEW x \in S  PROVE x =< m
  <2>1. b - x \in T
    OBVIOUS
  <2>2. b - m =< b - x
    BY <2>1, <1>1, <1>2
  <2> QED  BY <2>2
<1>4. \A x \in S : m >= x
  BY <1>3
<1> QED  BY <1>4 DEF Max

\* Finitely many natural numbers, f[0] .. f[n - 1], have an upper bound.
LEMMA FiniteSequenceBounded ==
    ASSUME NEW n \in Nat, NEW f \in [0 .. n - 1 -> Nat]
    PROVE  \E b \in Nat : \A i \in 0 .. n - 1 : f[i] =< b
<1> DEFINE Bounds(k, b) == \A i \in 0 .. n - 1 : i < k => f[i] =< b
           Bad == {k \in 0 .. n : \A b \in Nat : ~ Bounds(k, b)}
<1>1. Bad = {}
  <2> SUFFICES ASSUME Bad # {}  PROVE FALSE
    OBVIOUS
  <2>1. PICK k \in Bad : \A j \in Bad : k =< j
    <3>1. Bad \in SUBSET Nat
      OBVIOUS
    <3> HIDE DEF Bad
    <3> QED  BY <3>1, MinOfNaturals
  <2>2. k \in 1 .. n
    <3>1. Bounds(0, 0)
      OBVIOUS
    <3> QED  BY <3>1
  <2>3. k - 1 \in 0 .. n /\ k - 1 \notin Bad
    <3>1. k - 1 \in 0 .. n /\ ~ (k =< k - 1)
      BY <2>2
    <3> HIDE DEF Bad
    <3> QED  BY <3>1, <2>1
  <2>4. PICK b \in Nat : Bounds(k - 1, b)
    BY <2>3
  <2>5. f[k - 1] \in Nat
    <3>1. k - 1 \in 0 .. n - 1
      BY <2>2
    <3> QED  BY <3>1
  <2>6. PICK c \in Nat : b =< c /\ f[k - 1] =< c
    <3>1. \A x, y \in Nat : x + y \in Nat /\ x =< x + y /\ y =< x + y
      OBVIOUS
    <3> QED  BY <2>5, <3>1
  <2>7. Bounds(k, c)
    <3> SUFFICES ASSUME NEW i \in 0 .. n - 1, i < k  PROVE f[i] =< c
      OBVIOUS
    <3>1. CASE i = k - 1
      BY <3>1, <2>6
    <3>2. CASE i < k - 1
      <4>1. f[i] =< b /\ f[i] \in Nat
        BY <3>2, <2>4
      <4> QED  BY <4>1, <2>6
    <3> QED  BY <3>1, <3>2, <2>2
  <2> QED  BY <2>7
<1>2. n \in 0 .. n
  OBVIOUS
<1>3. PICK b \in Nat : Bounds(n, b)
  BY <1>1, <1>2
<1> QED  BY <1>3

\* The largest latency is a natural number that no latency exceeds.
LEMMA MaxLatencyType ==
    /\ max_latency \in Nat
    /\ \A p, q \in EmIds : latency[p][q] =< max_latency
<1> USE ProcsAssumption, LatencyAssumption
<1> DEFINE S == {0} \cup {latency[p][q] : p \in EmIds, q \in EmIds}
<1>1. ASSUME NEW p \in EmIds
      PROVE  \E b \in Nat : \A q \in EmIds : latency[p][q] =< b
  BY FiniteSequenceBounded DEF EmIds
<1> DEFINE row == [p \in EmIds |->
                      CHOOSE b \in Nat : \A q \in EmIds : latency[p][q] =< b]
<1>2. \A p \in EmIds : row[p] \in Nat /\ \A q \in EmIds : latency[p][q] =< row[p]
  BY <1>1
<1>3. row \in [EmIds -> Nat]
  BY <1>2
<1> HIDE DEF row
<1>4. PICK b \in Nat : \A p \in EmIds : row[p] =< b
  BY <1>3, FiniteSequenceBounded DEF EmIds
<1>5. \A x \in S : x \in Nat /\ x =< b
  <2>1. \A p, q \in EmIds : latency[p][q] \in Nat /\ latency[p][q] =< b
    BY <1>2, <1>3, <1>4
  <2> QED  BY <2>1
<1>6. /\ Max(S) \in S
      /\ \A x \in S : x =< Max(S)
  <2>1. S \in SUBSET Nat /\ S # {} /\ \A x \in S : x =< b
    BY <1>5
  <2> HIDE DEF S
  <2> QED  BY <2>1, MaxOfNaturals
<1>7. max_latency = Max(S)
  BY DEF max_latency
<1> HIDE DEF max_latency
<1> QED  BY <1>5, <1>6, <1>7

-----------------------------------------------------------------------------
(* The scheduler                                                           *)

\* choose_next_proc yields a process none is behind of.
LEMMA ChooseEarliest ==
    ASSUME virtual_clock \in [EmIds -> Nat]
    PROVE  /\ choose_next_proc \in EmIds
           /\ \A q \in EmIds : virtual_clock[choose_next_proc] =< virtual_clock[q]
<1> USE ProcsAssumption
<1> DEFINE Clocks == {virtual_clock[p] : p \in EmIds}
           Earliest == {p \in EmIds : \A q \in EmIds : virtual_clock[p] =< virtual_clock[q]}
<1>1. Earliest # {}
  <2>1. Clocks \in SUBSET Nat /\ Clocks # {}
    <3>1. 0 \in EmIds
      BY DEF EmIds
    <3> QED  BY <3>1
  <2>2. PICK c \in Clocks : \A d \in Clocks : c =< d
    <3> HIDE DEF Clocks
    <3> QED  BY <2>1, MinOfNaturals
  <2> QED  BY <2>2
<1>2. Earliest \in SUBSET Nat
  BY DEF EmIds
<1>3. Min(Earliest) \in Earliest
  <2> HIDE DEF Earliest
  <2> QED  BY <1>1, <1>2, MinOfNaturals
<1> QED  BY <1>3 DEF choose_next_proc

\* The window of a process none is behind of is not negative, and ends before
\* anything another process may still send to it is due.
LEMMA IntervalIsSafe ==
    ASSUME virtual_clock \in [EmIds -> Nat],
           NEW p \in EmIds,
           \A q \in EmIds : virtual_clock[p] =< virtual_clock[q]
    PROVE  /\ get_time_interval(p) \in Nat
           /\ \A q \in EmIds \ {p} :
                  virtual_clock[p] + get_time_interval(p) =< virtual_clock[q] + latency[q][p]
<1> DEFINE bound(q) == virtual_clock[q] - virtual_clock[p] + latency[q][p]
           S == {2 * max_latency} \cup {bound(q) : q \in EmIds \ {p}}
<1>1. \A q \in EmIds : bound(q) \in Nat
  <2> SUFFICES ASSUME NEW q \in EmIds  PROVE bound(q) \in Nat
    OBVIOUS
  <2>1. virtual_clock[q] \in Nat /\ virtual_clock[p] \in Nat /\ latency[q][p] \in Nat
    BY LatencyAssumption
  <2> QED  BY <2>1
<1>2. 2 * max_latency \in Nat
  BY MaxLatencyType
<1>3. S \in SUBSET Nat /\ S # {}
  BY <1>1, <1>2
<1>4. Min(S) \in Nat /\ \A x \in S : Min(S) =< x
  <2> HIDE DEF S
  <2> QED  BY <1>3, MinOfNaturals
<1>5. get_time_interval(p) = Min(S)
  BY DEF get_time_interval
<1>6. ASSUME NEW q \in EmIds \ {p}
      PROVE  virtual_clock[p] + get_time_interval(p) =< virtual_clock[q] + latency[q][p]
  <2>1. get_time_interval(p) =< bound(q)
    BY <1>4, <1>5
  <2>2. virtual_clock[q] \in Nat /\ virtual_clock[p] \in Nat /\ latency[q][p] \in Nat
        /\ get_time_interval(p) \in Nat
    BY <1>4, <1>5, LatencyAssumption
  <2> QED  BY <2>1, <2>2
<1> QED  BY <1>4, <1>5, <1>6

-----------------------------------------------------------------------------
(* Types                                                                   *)

\* What a program sends has the fields the emulator reads.
LEMMA FrameType ==
    ASSUME NEW p \in EmIds, NEW n \in FrameIds, NEW t \in Traffic
    PROVE  [id |-> n, src |-> p, version |-> t[1], dst |-> t[2]] \in Frames
BY TrafficAssumption DEF Frames

\* The initial state is well typed.
LEMMA TypeInit == Init => TypeOK
BY ProcsAssumption, TrafficAssumption DEF Init, TypeOK, EmIds

\* Every step of the emulation loop and of the programs keeps the state well typed.
LEMMA TypeStep == TypeOK /\ [Next]_vars => TypeOK'
<1> SUFFICES ASSUME TypeOK, [Next]_vars  PROVE TypeOK'
  OBVIOUS
<1> USE DEF TypeOK
<1>1. CASE Awake
  <2>1. cur' \in EmIds /\ \A q \in EmIds : virtual_clock[cur'] =< virtual_clock[q]
    BY <1>1, ChooseEarliest DEF Awake
  <2>2. ts' \in Nat
    BY <1>1, <2>1, IntervalIsSafe DEF Awake
  <2> QED  BY <1>1, <2>1, <2>2 DEF Awake
<1>2. CASE ReadClock
  BY <1>2, TrafficAssumption DEF ReadClock
<1>3. CASE DeliverDue
  BY <1>3 DEF DeliverDue, DuePackets
<1>4. CASE ReceiveNothing
  BY <1>4 DEF ReceiveNothing, ReadTun
<1>5. ASSUME TakeFrame
      PROVE  /\ Head(tun) \in Frames
             /\ tun' \in Seq(Frames)
             /\ Now \in Nat
  <2>1. Head(tun) \in Frames /\ Tail(tun) \in Seq(Frames)
    BY <1>5 DEF TakeFrame
  <2> QED  BY <1>5, <2>1 DEF TakeFrame, Now
<1>6. CASE ReceiveUnsupported
  BY <1>5, <1>6 DEF ReceiveUnsupported, TakeFrame, ReadTun
<1>7. CASE ReceiveOwn
  <2>1. [id |-> Head(tun).id, src |-> Head(tun).src, from |-> cur, ts |-> Now] \in InPackets
    BY <1>5, <1>7 DEF ReceiveOwn, Frames, InPackets
  <2>2. in_packets' \in [EmIds -> SUBSET InPackets]
    BY <1>7, <2>1 DEF ReceiveOwn
  <2> QED  BY <1>5, <1>7, <2>2 DEF ReceiveOwn, TakeFrame, ReadTun
<1>8. CASE ReceiveForOther
  <2>1. [id |-> Head(tun).id, src |-> Head(tun).src, dst |-> Head(tun).dst, ts |-> Now]
            \in OutPackets
    BY <1>5, <1>8 DEF ReceiveForOther, Frames, OutPackets
  <2>2. out_packets' \in [EmIds -> SUBSET OutPackets]
    BY <1>8, <2>1 DEF ReceiveForOther
  <2> QED  BY <1>5, <1>8, <2>2 DEF ReceiveForOther, TakeFrame, ReadTun
<1>9. CASE Stop
  BY <1>9 DEF Stop
<1>10. CASE schedule_sent_packets
  <2>1. ASSUME NEW q \in EmIds, NEW m \in out_packets[cur]
        PROVE  [id |-> m.id, src |-> m.src, from |-> cur, ts |-> m.ts + latency[cur][q]]
                   \in InPackets
    <3>1. m \in OutPackets /\ latency[cur][q] \in Nat
      BY LatencyAssumption
    <3> QED  BY <3>1 DEF OutPackets, InPackets
  <2>2. in_packets' \in [EmIds -> SUBSET InPackets]
    BY <1>10, <2>1 DEF schedule_sent_packets
  <2> QED  BY <1>10, <2>2 DEF schedule_sent_packets
<1>11. CASE Finish
  BY <1>11 DEF Finish
<1>12. ASSUME NEW p \in EmIds, Emit(p)
       PROVE  TypeOK'
  <2>1. sent' \in 0 .. MaxSent /\ sent' \in FrameIds
    BY <1>12, TrafficAssumption DEF Emit, FrameIds
  <2>2. tun' \in Seq(Frames)
    <3>1. PICK t \in Traffic :
              tun' = Append(tun, [id |-> sent', src |-> p, version |-> t[1], dst |-> t[2]])
      BY <1>12 DEF Emit
    <3>2. [id |-> sent', src |-> p, version |-> t[1], dst |-> t[2]] \in Frames
      BY <2>1, FrameType
    <3> QED  BY <3>1, <3>2
  <2> QED  BY <1>12, <2>1, <2>2 DEF Emit
<1>13. CASE UNCHANGED vars
  BY <1>13 DEF vars
<1> QED
  BY <1>1, <1>2, <1>3, <1>4, <1>6, <1>7, <1>8, <1>9, <1>10, <1>11, <1>12, <1>13
     DEF Next, EmulatorStep, Terminated

\* Type correctness of the loop; the point that is not a matter of types is
\* that no window is negative (the process chosen has the smallest clock).
THEOREM TypeCorrect == Spec => []TypeOK
BY TypeInit, TypeStep, PTL DEF Spec

-----------------------------------------------------------------------------
(* Virtual time                                                            *)

\* The smaller of two integers.
LEMMA MinOfTwo ==
    ASSUME NEW a \in Nat, NEW b \in Nat
    PROVE  Min({a, b}) = IF a =< b THEN a ELSE b
<1>1. {a, b} \in SUBSET Nat /\ {a, b} # {}
  OBVIOUS
<1>2. Min({a, b}) \in {a, b} /\ \A x \in {a, b} : Min({a, b}) =< x
  BY <1>1, MinOfNaturals
<1> QED  BY <1>2

\* The virtual time of a process is its clock, and within its window as much
\* later as the clock was read.
LEMMA ClockOfValue ==
    ASSUME TypeOK, NEW p \in EmIds
    PROVE  /\ ClockOf(p) = virtual_clock[p]
                  + (IF pc \in Window /\ p = cur
                     THEN IF elapsed =< ts THEN elapsed ELSE ts
                     ELSE 0)
           /\ ClockOf(p) \in Nat
           /\ virtual_clock[p] =< ClockOf(p)
<1>1. elapsed \in Nat /\ ts \in Nat /\ virtual_clock[p] \in Nat
  BY DEF TypeOK
<1>2. Min({elapsed, ts}) = IF elapsed =< ts THEN elapsed ELSE ts
  BY <1>1, MinOfTwo
<1> QED  BY <1>1, <1>2 DEF ClockOf

\* ClockOfValue, for the next state.
LEMMA ClockOfNextValue ==
    ASSUME TypeOK', NEW p \in EmIds
    PROVE  /\ ClockOf(p)' = virtual_clock'[p]
                  + (IF pc' \in Window /\ p = cur'
                     THEN IF elapsed' =< ts' THEN elapsed' ELSE ts'
                     ELSE 0)
           /\ ClockOf(p)' \in Nat
           /\ virtual_clock'[p] =< ClockOf(p)'
<1>1. elapsed' \in Nat /\ ts' \in Nat /\ virtual_clock'[p] \in Nat
  BY DEF TypeOK
<1>2. Min({elapsed', ts'}) = IF elapsed' =< ts' THEN elapsed' ELSE ts'
  BY <1>1, MinOfTwo
<1> QED  BY <1>1, <1>2 DEF ClockOf, Window

\* No step sets a virtual time back; in particular the end of a window does
\* not, however late the last reading of the clock was.
LEMMA ClocksMonotone ==
    ASSUME TypeOK, TypeOK', ReadingInWindow, [Next]_vars, NEW p \in EmIds
    PROVE  ClockOf(p) =< ClockOf(p)'
<1>1. /\ ClockOf(p) = virtual_clock[p]
            + (IF pc \in Window /\ p = cur
               THEN IF elapsed =< ts THEN elapsed ELSE ts
               ELSE 0)
      /\ ClockOf(p)' = virtual_clock'[p]
            + (IF pc' \in Window /\ p = cur'
               THEN IF elapsed' =< ts' THEN elapsed' ELSE ts'
               ELSE 0)
  BY ClockOfValue, ClockOfNextValue
<1>2. /\ elapsed \in Nat /\ ts \in Nat /\ elapsed' \in Nat /\ ts' \in Nat
      /\ virtual_clock \in [EmIds -> Nat] /\ cur \in EmIds
  BY DEF TypeOK
<1> USE DEF Window
<1>3. CASE Awake
  BY <1>1, <1>2, <1>3 DEF Awake
<1>4. CASE ReadClock
  BY <1>1, <1>2, <1>4, TrafficAssumption DEF ReadClock
<1>5. CASE Stop
  BY <1>1, <1>2, <1>5 DEF Stop
<1>6. CASE schedule_sent_packets \/ Finish
  BY <1>1, <1>2, <1>6 DEF schedule_sent_packets, Finish
<1>7. CASE DeliverDue \/ ReadTun
  BY <1>1, <1>2, <1>7 DEF DeliverDue, ReadTun
<1>8. ASSUME NEW q \in EmIds, Emit(q)
      PROVE  ClockOf(p) =< ClockOf(p)'
  BY <1>1, <1>2, <1>8 DEF Emit
<1>9. CASE UNCHANGED vars
  BY <1>1, <1>2, <1>9 DEF vars
<1> QED
  BY <1>3, <1>4, <1>5, <1>6, <1>7, <1>8, <1>9
     DEF Next, EmulatorStep, Terminated, ReceiveNothing, ReceiveUnsupported, ReceiveOwn,
         ReceiveForOther, TakeFrame

-----------------------------------------------------------------------------
(* The safety invariant                                                    *)

\* All clocks are equal and all queues empty in the initial state.
LEMMA SafetyInit == Init => SafetyInvariant
<1> SUFFICES ASSUME Init  PROVE SafetyInvariant
  OBVIOUS
<1>1. TypeOK
  BY TypeInit
<1>2. ClocksClose
  BY <1>1, LatencyAssumption DEF Init, ClocksClose, Window
<1> QED
  BY <1>1, <1>2
     DEF Init, SafetyInvariant, ReadingInWindow, OutOnlyInWindow, SentInTime,
         DeliveredInPast, DeliveryInTimestampOrder

\* ClocksClose: the scheduler opens a window that keeps the clocks close, and
\* the end of the window adds just that window.
LEMMA ClocksCloseStep ==
    ASSUME SafetyInvariant, [Next]_vars  PROVE ClocksClose'
<1> USE DEF Window
<1>1. TypeOK /\ TypeOK' /\ ClocksClose
  BY TypeStep DEF SafetyInvariant
<1>2. \A p, q \in EmIds : virtual_clock[p] \in Nat /\ latency[p][q] \in Nat
  BY <1>1, LatencyAssumption DEF TypeOK
<1>3. CASE Awake
  <2>1. cur' \in EmIds /\ \A q \in EmIds : virtual_clock[cur'] =< virtual_clock[q]
    BY <1>1, <1>3, ChooseEarliest DEF Awake, TypeOK
  <2>2. \A q \in EmIds \ {cur'} : virtual_clock[cur'] + ts' =< virtual_clock[q] + latency[q][cur']
    BY <1>1, <1>3, <2>1, IntervalIsSafe DEF Awake, TypeOK
  <2> QED  BY <1>1, <1>3, <2>2 DEF Awake, ClocksClose
<1>4. CASE Stop
  <2>1. ts \in Nat /\ cur \in EmIds /\ virtual_clock \in [EmIds -> Nat]
    BY <1>1 DEF TypeOK
  <2>2. ASSUME NEW p \in EmIds, NEW q \in EmIds
        PROVE  virtual_clock'[p] =< virtual_clock'[q] + latency[q][p]
    <3>1. virtual_clock[p] =< virtual_clock[q] + latency[q][p]
      BY <1>1 DEF ClocksClose
    <3>2. CASE p = cur /\ q # cur
      BY <1>1, <1>4, <2>1, <3>2 DEF Stop, ClocksClose
    <3>3. CASE p = cur /\ q = cur
      BY <1>2, <1>4, <2>1, <3>3 DEF Stop
    <3>4. CASE p # cur
      BY <1>2, <1>4, <2>1, <3>1, <3>4 DEF Stop
    <3> QED  BY <3>2, <3>3, <3>4
  <2> QED  BY <1>4, <2>2 DEF Stop, ClocksClose
<1>5. CASE ReadClock \/ DeliverDue \/ ReadTun \/ schedule_sent_packets \/ Finish
  BY <1>1, <1>5
     DEF ReadClock, DeliverDue, ReadTun, schedule_sent_packets, Finish, ClocksClose
<1>6. ASSUME NEW q \in EmIds, Emit(q)
      PROVE  ClocksClose'
  BY <1>1, <1>6 DEF Emit, ClocksClose
<1>7. CASE UNCHANGED vars
  BY <1>1, <1>7 DEF vars, ClocksClose
<1> QED
  BY <1>3, <1>4, <1>5, <1>6, <1>7
     DEF Next, EmulatorStep, Terminated, ReceiveNothing, ReceiveUnsupported, ReceiveOwn,
         ReceiveForOther, TakeFrame

\* ReadingInWindow and OutOnlyInWindow: the control of the loop.
LEMMA ControlStep ==
    ASSUME SafetyInvariant, [Next]_vars  PROVE ReadingInWindow' /\ OutOnlyInWindow'
<1> USE DEF Window, ReadingInWindow, OutOnlyInWindow, SafetyInvariant
<1>1. TypeOK /\ TypeOK'
  BY TypeStep
<1>2. CASE Awake
  BY <1>1, <1>2 DEF Awake, TypeOK
<1>3. CASE ReadClock
  BY <1>1, <1>3 DEF ReadClock, TypeOK
<1>4. CASE DeliverDue \/ ReceiveNothing \/ ReceiveUnsupported \/ ReceiveOwn
  BY <1>4 DEF DeliverDue, ReceiveNothing, ReceiveUnsupported, ReceiveOwn, TakeFrame, ReadTun
<1>5. CASE ReceiveForOther
  <2>1. pc = "deliver" /\ pc' = "clock" /\ UNCHANGED <<cur, elapsed, ts>>
    BY <1>5 DEF ReceiveForOther, TakeFrame, ReadTun
  <2>2. \A p \in EmIds \ {cur} : out_packets'[p] = out_packets[p]
    BY <1>1, <1>5 DEF ReceiveForOther, TypeOK
  <2> QED  BY <2>1, <2>2
<1>6. CASE Stop
  BY <1>6 DEF Stop
<1>7. CASE schedule_sent_packets
  <2>1. \A p \in EmIds : out_packets'[p] = IF p = cur THEN {} ELSE out_packets[p]
    BY <1>1, <1>7 DEF schedule_sent_packets, TypeOK
  <2> QED  BY <1>7, <2>1 DEF schedule_sent_packets
<1>8. CASE Finish
  BY <1>8 DEF Finish
<1>9. ASSUME NEW q \in EmIds, Emit(q)
      PROVE  ReadingInWindow' /\ OutOnlyInWindow'
  BY <1>9 DEF Emit
<1>10. CASE UNCHANGED vars
  BY <1>10 DEF vars
<1> QED
  BY <1>2, <1>3, <1>4, <1>5, <1>6, <1>7, <1>8, <1>9, <1>10
     DEF Next, EmulatorStep, Terminated

\* SentInTime: a stamp is taken when the clocks are close, and the receiver,
\* which does not run before the packet is scheduled, stays close.
LEMMA SentInTimeStep ==
    ASSUME SafetyInvariant, [Next]_vars  PROVE SentInTime'
<1>1. TypeOK /\ TypeOK' /\ ClocksClose /\ ReadingInWindow /\ OutOnlyInWindow /\ SentInTime
  BY TypeStep DEF SafetyInvariant
<1>2. \A p, q \in EmIds : virtual_clock[p] \in Nat /\ latency[p][q] \in Nat
  BY <1>1, LatencyAssumption DEF TypeOK
<1>3. \A p \in EmIds : ClockOf(p) \in Nat /\ ClockOf(p)' \in Nat /\ ClockOf(p) =< ClockOf(p)'
  BY <1>1, ClockOfValue, ClockOfNextValue, ClocksMonotone
<1>4. \A p \in EmIds : \A m \in out_packets[p] : m.ts \in Nat /\ m.dst \in EmIds
  <2>1. \A p \in EmIds : \A m \in out_packets[p] : m \in OutPackets
    BY <1>1 DEF TypeOK
  <2> QED  BY <2>1 DEF OutPackets
<1>5. CASE out_packets' = out_packets /\ virtual_clock' = virtual_clock
  <2> SUFFICES ASSUME NEW p \in EmIds, NEW m \in out_packets[p]
               PROVE  m.dst # p /\ m.ts =< ClockOf(p)' /\ virtual_clock[m.dst] =< m.ts + latency[p][m.dst]
    BY <1>5 DEF SentInTime
  <2> QED  BY <1>1, <1>3, <1>4 DEF SentInTime
<1>6. CASE ReceiveForOther
  <2> DEFINE f == Head(tun)
             new == [id |-> f.id, src |-> f.src, dst |-> f.dst, ts |-> Now]
  <2>1. f.dst \in EmIds \ {cur} /\ cur \in EmIds /\ elapsed \in Nat /\ elapsed =< ts /\ pc = "deliver"
    BY <1>1, <1>6 DEF ReceiveForOther, TakeFrame, ReadTun, TypeOK, ReadingInWindow
  <2>2. Now = ClockOf(cur) /\ virtual_clock[cur] =< Now
    BY <1>1, <2>1, ClockOfValue DEF Now, Window
  <2>3. virtual_clock[f.dst] =< Now + latency[cur][f.dst]
    <3>1. virtual_clock[f.dst] =< virtual_clock[cur] + latency[cur][f.dst]
      BY <1>1, <2>1 DEF ClocksClose
    <3>2. Now \in Nat
      BY <1>3, <2>1, <2>2
    <3> QED  BY <1>2, <2>1, <2>2, <3>1, <3>2
  <2>4. virtual_clock' = virtual_clock
    BY <1>6 DEF ReceiveForOther, TakeFrame, ReadTun
  <2> SUFFICES ASSUME NEW p \in EmIds, NEW m \in out_packets'[p]
               PROVE  m.dst # p /\ m.ts =< ClockOf(p)' /\ virtual_clock[m.dst] =< m.ts + latency[p][m.dst]
    BY <2>4 DEF SentInTime
  <2>5. m \in out_packets[p] \/ (p = cur /\ m = new)
    BY <1>1, <1>6, <2>1 DEF ReceiveForOther, TypeOK
  <2>6. CASE m \in out_packets[p]
    BY <1>1, <1>3, <1>4, <2>6 DEF SentInTime
  <2>7. CASE p = cur /\ m = new
    BY <1>3, <2>1, <2>2, <2>3, <2>7
  <2> QED  BY <2>5, <2>6, <2>7
<1>7. CASE Stop
  <2> SUFFICES ASSUME NEW p \in EmIds, NEW m \in out_packets[p]
               PROVE  m.dst # p /\ m.ts =< ClockOf(p)' /\ virtual_clock'[m.dst] =< m.ts + latency[p][m.dst]
    BY <1>7 DEF SentInTime, Stop
  <2>1. p = cur /\ m.dst # cur
    BY <1>1 DEF OutOnlyInWindow, SentInTime
  <2>2. virtual_clock'[m.dst] = virtual_clock[m.dst]
    BY <1>1, <1>4, <1>7, <2>1 DEF Stop, TypeOK
  <2> QED  BY <1>1, <1>3, <1>4, <2>1, <2>2 DEF SentInTime
<1>8. CASE schedule_sent_packets
  <2>1. \A p \in EmIds : out_packets'[p] = {}
    BY <1>1, <1>8 DEF schedule_sent_packets, OutOnlyInWindow, TypeOK
  <2> QED  BY <2>1 DEF SentInTime
<1>9. ASSUME NEW q \in EmIds, Emit(q)
      PROVE  SentInTime'
  BY <1>5, <1>9 DEF Emit
<1> QED
  BY <1>5, <1>6, <1>7, <1>8, <1>9
     DEF Next, EmulatorStep, Terminated, vars, Awake, ReadClock, DeliverDue, ReceiveNothing,
         ReceiveUnsupported, ReceiveOwn, TakeFrame, ReadTun, Finish

\* What joins the queue of a process is not due in its past: a packet to itself
\* is stamped now, and packets of others were sent in time.
LEMMA ArrivalInFuture ==
    ASSUME SafetyInvariant, [Next]_vars,
           NEW p \in EmIds, NEW m \in in_packets'[p] \ in_packets[p]
    PROVE  ClockOf(p) =< m.ts
<1>1. TypeOK /\ TypeOK' /\ ReadingInWindow /\ SentInTime
  BY TypeStep DEF SafetyInvariant
<1>2. ReceiveOwn \/ schedule_sent_packets
  <2>1. \A q \in EmIds : Emit(q) => in_packets' = in_packets
    BY DEF Emit
  <2>2. DeliverDue => in_packets'[p] \subseteq in_packets[p]
    BY <1>1 DEF DeliverDue, DuePackets, TypeOK
  <2> QED
    BY <2>1, <2>2
       DEF Next, EmulatorStep, Terminated, vars, Awake, ReadClock, ReceiveNothing,
           ReceiveUnsupported, ReceiveForOther, Stop, Finish
<1>3. CASE ReceiveOwn
  <2>1. p = cur /\ m.ts = Now
    BY <1>1, <1>3 DEF ReceiveOwn, TypeOK
  <2>2. cur \in EmIds /\ elapsed \in Nat /\ elapsed =< ts /\ pc = "deliver"
    BY <1>1, <1>3 DEF ReceiveOwn, TakeFrame, ReadTun, TypeOK, ReadingInWindow
  <2>3. ClockOf(cur) = Now /\ Now \in Nat
    BY <1>1, <2>2, ClockOfValue DEF Now, Window
  <2> QED  BY <2>1, <2>3
<1>4. CASE schedule_sent_packets
  <2>1. PICK o \in out_packets[cur] : o.dst = p /\ m.ts = o.ts + latency[cur][p]
    BY <1>1, <1>4 DEF schedule_sent_packets
  <2>2. virtual_clock[p] =< m.ts
    <3>1. cur \in EmIds
      BY <1>1 DEF TypeOK
    <3>2. virtual_clock[o.dst] =< o.ts + latency[cur][o.dst]
      BY <1>1, <2>1, <3>1 DEF SentInTime
    <3> QED  BY <2>1, <3>2
  <2>3. ClockOf(p) = virtual_clock[p]
    BY <1>1, <1>4, ClockOfValue DEF schedule_sent_packets, Window, TypeOK
  <2> QED  BY <2>2, <2>3
<1> QED  BY <1>2, <1>3, <1>4

\* The packets in the two kinds of queues, and their timestamps.
LEMMA QueuedTypes ==
    ASSUME TypeOK, NEW p \in EmIds
    PROVE  /\ \A m \in in_packets[p] : m \in InPackets /\ m.ts \in Nat /\ m.from \in EmIds
           /\ \A m \in out_packets[p] : m \in OutPackets /\ m.ts \in Nat /\ m.dst \in EmIds
           /\ \A i \in DOMAIN delivered[p] :
                  /\ delivered[p][i] \in InPackets
                  /\ delivered[p][i].ts \in Nat
                  /\ delivered[p][i].from \in EmIds
<1>1. \A m \in in_packets[p] : m \in InPackets
  BY DEF TypeOK
<1>2. \A m \in out_packets[p] : m \in OutPackets
  BY DEF TypeOK
<1>3. \A i \in DOMAIN delivered[p] : delivered[p][i] \in InPackets
  BY DEF TypeOK
<1> QED  BY <1>1, <1>2, <1>3 DEF InPackets, OutPackets

\* A delivery appends to what the running process received.
LEMMA DeliveryAppends ==
    ASSUME TypeOK, DeliverDue
    PROVE  \E m \in in_packets[cur] :
               /\ m.ts < Now
               /\ \A n \in in_packets[cur] : m.ts =< n.ts
               /\ \A p \in EmIds \ {cur} :
                      in_packets'[p] = in_packets[p] /\ delivered'[p] = delivered[p]
               /\ in_packets'[cur] = in_packets[cur] \ {m}
               /\ delivered'[cur] = Append(delivered[cur], m)
               /\ DOMAIN delivered'[cur] = DOMAIN delivered[cur] \cup {Len(delivered[cur]) + 1}
               /\ \A i \in DOMAIN delivered[cur] : delivered'[cur][i] = delivered[cur][i]
               /\ delivered'[cur][Len(delivered[cur]) + 1] = m
<1>1. PICK m \in DuePackets :
          /\ \A n \in DuePackets : m.ts =< n.ts
          /\ in_packets' = [in_packets EXCEPT ![cur] = @ \ {m}]
          /\ delivered' = [delivered EXCEPT ![cur] = Append(@, m)]
  BY DEF DeliverDue
<1>2. cur \in EmIds /\ Now \in Nat
  BY DEF TypeOK, Now
<1>3. m \in in_packets[cur] /\ m.ts < Now /\ m \in InPackets
  BY <1>2, QueuedTypes DEF DuePackets
<1>4. ASSUME NEW n \in in_packets[cur]
      PROVE  m.ts =< n.ts
  <2>1. n.ts \in Nat /\ m.ts \in Nat
    BY <1>2, <1>3, QueuedTypes
  <2>2. CASE n.ts < Now
    BY <1>1, <2>2 DEF DuePackets
  <2>3. CASE ~ (n.ts < Now)
    BY <1>2, <1>3, <2>1, <2>3
  <2> QED  BY <2>2, <2>3
<1>5. /\ \A p \in EmIds \ {cur} :
             in_packets'[p] = in_packets[p] /\ delivered'[p] = delivered[p]
      /\ in_packets'[cur] = in_packets[cur] \ {m}
      /\ delivered'[cur] = Append(delivered[cur], m)
  BY <1>1, <1>2 DEF TypeOK
<1>6. delivered[cur] \in Seq(InPackets)
  BY <1>2 DEF TypeOK
<1>7. /\ DOMAIN delivered'[cur] = DOMAIN delivered[cur] \cup {Len(delivered[cur]) + 1}
      /\ \A i \in DOMAIN delivered[cur] : delivered'[cur][i] = delivered[cur][i]
      /\ delivered'[cur][Len(delivered[cur]) + 1] = m
  BY <1>3, <1>5, <1>6
<1> QED  BY <1>3, <1>4, <1>5, <1>7

\* Only a delivery changes what was received.
LEMMA OnlyDeliveryDelivers ==
    ASSUME [Next]_vars  PROVE DeliverDue \/ delivered' = delivered
<1>1. \A q \in EmIds : Emit(q) => delivered' = delivered
  BY DEF Emit
<1> QED
  BY <1>1
     DEF Next, EmulatorStep, Terminated, vars, Awake, ReadClock, ReceiveNothing,
         ReceiveUnsupported, ReceiveOwn, ReceiveForOther, TakeFrame, ReadTun, Stop,
         schedule_sent_packets, Finish

\* DeliveredInPast and DeliveryInTimestampOrder: the heap yields the oldest
\* packet, and everything that joins it later is due later than the clock,
\* which has passed everything received.
LEMMA DeliveryStep ==
    ASSUME SafetyInvariant, [Next]_vars
    PROVE  DeliveredInPast' /\ DeliveryInTimestampOrder'
<1>1. TypeOK /\ TypeOK' /\ ReadingInWindow /\ DeliveredInPast /\ DeliveryInTimestampOrder
  BY TypeStep DEF SafetyInvariant
<1>2. \A p \in EmIds : ClockOf(p) \in Nat /\ ClockOf(p)' \in Nat /\ ClockOf(p) =< ClockOf(p)'
  BY <1>1, ClockOfValue, ClockOfNextValue, ClocksMonotone
<1>3. CASE DeliverDue
  <2>1. PICK m \in in_packets[cur] :
            /\ m.ts < Now
            /\ \A n \in in_packets[cur] : m.ts =< n.ts
            /\ \A p \in EmIds \ {cur} :
                   in_packets'[p] = in_packets[p] /\ delivered'[p] = delivered[p]
            /\ in_packets'[cur] = in_packets[cur] \ {m}
            /\ DOMAIN delivered'[cur] = DOMAIN delivered[cur] \cup {Len(delivered[cur]) + 1}
            /\ \A i \in DOMAIN delivered[cur] : delivered'[cur][i] = delivered[cur][i]
            /\ delivered'[cur][Len(delivered[cur]) + 1] = m
    BY <1>1, <1>3, DeliveryAppends
  <2>2. /\ cur \in EmIds
        /\ DOMAIN delivered[cur] = 1 .. Len(delivered[cur])
        /\ Len(delivered[cur]) \in Nat
    BY <1>1 DEF TypeOK
  <2>3. m.ts \in Nat /\ m.ts =< ClockOf(cur)
    <3>1. Now = ClockOf(cur)
      BY <1>1, <1>3, <2>2, ClockOfValue DEF DeliverDue, ReadingInWindow, Window, Now, TypeOK
    <3>2. m.ts \in Nat
      BY <1>1, <2>2, QueuedTypes
    <3> QED  BY <1>2, <2>1, <2>2, <3>1, <3>2
  <2>4. ASSUME NEW p \in EmIds, NEW i \in DOMAIN delivered'[p]
        PROVE  /\ delivered'[p][i].ts =< ClockOf(p)'
               /\ \A n \in in_packets'[p] : delivered'[p][i].ts =< n.ts
    <3>1. CASE p = cur /\ i = Len(delivered[cur]) + 1
      BY <1>2, <2>1, <2>2, <2>3, <3>1
    <3>2. CASE i \in DOMAIN delivered[p]
      <4>1. /\ delivered'[p][i] = delivered[p][i]
            /\ in_packets'[p] \subseteq in_packets[p]
        BY <2>1, <2>2, <3>2
      <4>2. /\ delivered[p][i].ts \in Nat
            /\ delivered[p][i].ts =< ClockOf(p)
            /\ \A n \in in_packets[p] : delivered[p][i].ts =< n.ts
        BY <1>1, <3>2, QueuedTypes DEF DeliveredInPast
      <4> QED  BY <1>2, <4>1, <4>2
    <3> QED  BY <2>1, <2>2, <3>1, <3>2
  <2>5. ASSUME NEW p \in EmIds, NEW i \in DOMAIN delivered'[p],
               NEW j \in DOMAIN delivered'[p], i < j
        PROVE  delivered'[p][i].ts =< delivered'[p][j].ts
    <3>1. CASE p # cur
      BY <1>1, <2>1, <2>5, <3>1 DEF DeliveryInTimestampOrder
    <3>2. CASE p = cur /\ j = Len(delivered[cur]) + 1
      <4>1. i \in DOMAIN delivered[cur]
        BY <2>1, <2>2, <2>5, <3>2
      <4>2. delivered[cur][i].ts =< m.ts
        BY <1>1, <2>2, <4>1 DEF DeliveredInPast
      <4> QED  BY <2>1, <3>2, <4>1, <4>2
    <3>3. CASE p = cur /\ j # Len(delivered[cur]) + 1
      <4>1. i \in DOMAIN delivered[cur] /\ j \in DOMAIN delivered[cur]
        BY <2>1, <2>2, <2>5, <3>3
      <4> QED  BY <1>1, <2>1, <2>2, <2>5, <3>3, <4>1 DEF DeliveryInTimestampOrder
    <3> QED  BY <3>1, <3>2, <3>3
  <2> QED  BY <2>4, <2>5 DEF DeliveredInPast, DeliveryInTimestampOrder
<1>4. CASE delivered' = delivered
  <2>1. DeliveryInTimestampOrder'
    BY <1>1, <1>4 DEF DeliveryInTimestampOrder
  <2>2. ASSUME NEW p \in EmIds, NEW i \in DOMAIN delivered[p]
        PROVE  /\ delivered[p][i].ts =< ClockOf(p)'
               /\ \A m \in in_packets'[p] : delivered[p][i].ts =< m.ts
    <3>1. /\ delivered[p][i].ts \in Nat
          /\ delivered[p][i].ts =< ClockOf(p)
          /\ \A m \in in_packets[p] : delivered[p][i].ts =< m.ts
      BY <1>1, QueuedTypes DEF DeliveredInPast
    <3>2. ASSUME NEW m \in in_packets'[p] \ in_packets[p]
          PROVE  delivered[p][i].ts =< m.ts
      <4>1. ClockOf(p) =< m.ts
        BY ArrivalInFuture
      <4>2. m.ts \in Nat
        <5>1. m \in InPackets
          BY <1>1 DEF TypeOK
        <5> QED  BY <5>1 DEF InPackets
      <4> QED  BY <1>2, <3>1, <4>1, <4>2
    <3> QED  BY <1>2, <3>1, <3>2
  <2> QED  BY <1>4, <2>1, <2>2 DEF DeliveredInPast
<1> QED  BY <1>3, <1>4, OnlyDeliveryDelivers

\* Every step keeps the clocks close and the queues in the past and future they belong to.
LEMMA SafetyStep == SafetyInvariant /\ [Next]_vars => SafetyInvariant'
<1> SUFFICES ASSUME SafetyInvariant, [Next]_vars  PROVE SafetyInvariant'
  OBVIOUS
<1>1. TypeOK'
  BY TypeStep DEF SafetyInvariant
<1>2. ClocksClose'
  BY ClocksCloseStep
<1>3. ReadingInWindow' /\ OutOnlyInWindow'
  BY ControlStep
<1>4. SentInTime'
  BY SentInTimeStep
<1>5. DeliveredInPast' /\ DeliveryInTimestampOrder'
  BY DeliveryStep
<1> QED  BY <1>1, <1>2, <1>3, <1>4, <1>5 DEF SafetyInvariant

\* The inductive invariant holds throughout the emulation loop.
THEOREM SafetyInvariantHolds == Spec => []SafetyInvariant
BY SafetyInit, SafetyStep, PTL DEF Spec

\* Clocks that are close leave no process ahead of what may be sent to it.
LEMMA SafetyImpliesLookahead == SafetyInvariant => Lookahead
<1> SUFFICES ASSUME SafetyInvariant, NEW p \in EmIds, NEW q \in EmIds
             PROVE  ClockOf(p) =< ClockOf(q) + latency[q][p]
  BY DEF Lookahead
<1>1. TypeOK /\ ClocksClose
  BY DEF SafetyInvariant
<1>2. /\ ClockOf(p) = virtual_clock[p]
            + (IF pc \in Window /\ p = cur
               THEN IF elapsed =< ts THEN elapsed ELSE ts
               ELSE 0)
      /\ virtual_clock[q] =< ClockOf(q) /\ ClockOf(q) \in Nat
  BY <1>1, ClockOfValue
<1>3. /\ elapsed \in Nat /\ ts \in Nat /\ cur \in EmIds
      /\ virtual_clock[p] \in Nat /\ virtual_clock[q] \in Nat /\ latency[q][p] \in Nat
  BY <1>1, LatencyAssumption DEF TypeOK
<1>4. CASE pc \in Window /\ p = cur /\ q # cur
  BY <1>1, <1>2, <1>3, <1>4 DEF ClocksClose
<1>5. CASE p = q
  BY <1>2, <1>3, <1>5
<1>6. CASE ~ (pc \in Window /\ p = cur)
  BY <1>1, <1>2, <1>3, <1>6 DEF ClocksClose
<1> QED  BY <1>4, <1>5, <1>6

\* No process is ever so far ahead of another that a packet of the other could
\* be late: choose_next_proc and get_time_interval.
THEOREM LookaheadHolds == Spec => []Lookahead
BY SafetyImpliesLookahead, SafetyInvariantHolds, PTL

\* Every process receives packets in the order of their timestamps.
THEOREM TimestampOrderHolds == Spec => []DeliveryInTimestampOrder
<1>1. SafetyInvariant => DeliveryInTimestampOrder
  BY DEF SafetyInvariant
<1> QED  BY <1>1, SafetyInvariantHolds, PTL

\* No packet joins the queue of a process in that process' past.
THEOREM NoArrivalInPastHolds == Spec => NoArrivalInPast
<1>1. SafetyInvariant /\ [Next]_vars
        => [\A p \in EmIds : \A m \in in_packets'[p] \ in_packets[p] : ClockOf(p) =< m.ts]_vars
  BY ArrivalInFuture
<1> QED  BY <1>1, SafetyInvariantHolds, PTL DEF Spec, NoArrivalInPast

-----------------------------------------------------------------------------
(* The emulation loop implements the virtual network (VirtualNetwork):     *)
(* every reading of the clock advances the clock of the running process,   *)
(* reading a frame for an emulated process transmits it, delivering a      *)
(* packet receives it, and every other step is invisible.                  *)

RefinementInvariant == SafetyInvariant /\ IdsInOrder /\ QueuedIdsUnique

\* The invariant of the refinement holds initially.
LEMMA RefinementInvariantInit == Init => RefinementInvariant
BY SafetyInit DEF Init, RefinementInvariant, IdsInOrder, QueuedIdsUnique

\* The frame read is newer than all that was read before, and leaves the
\* frames behind it in order.
LEMMA TakeFrameIds ==
    ASSUME TypeOK, IdsInOrder, TakeFrame
    PROVE  /\ Head(tun) \in Frames
           /\ Head(tun).id = sent - Len(tun) + 1
           /\ Len(tun) \in Nat \ {0}
           /\ Len(tun') = Len(tun) - 1
           /\ \A i \in DOMAIN tun' : tun'[i].id = sent - Len(tun') + i
           /\ sent' = sent
<1>1. tun \in Seq(Frames) /\ tun # <<>> /\ tun' = Tail(tun) /\ sent' = sent /\ sent \in Nat
  BY TrafficAssumption DEF TypeOK, TakeFrame, ReadTun
<1>2. /\ Head(tun) \in Frames
      /\ Head(tun) = tun[1]
      /\ 1 \in DOMAIN tun
      /\ Len(tun) \in Nat \ {0}
      /\ Len(tun') = Len(tun) - 1
      /\ DOMAIN tun' = 1 .. Len(tun) - 1
      /\ \A i \in 1 .. Len(tun) - 1 : tun'[i] = tun[i + 1] /\ i + 1 \in DOMAIN tun
  BY <1>1
<1>3. Head(tun).id = sent - Len(tun) + 1
  BY <1>2 DEF IdsInOrder
<1>4. ASSUME NEW i \in DOMAIN tun'
      PROVE  tun'[i].id = sent - Len(tun') + i
  <2>1. tun'[i].id = sent - Len(tun) + (i + 1)
    BY <1>2 DEF IdsInOrder
  <2> QED  BY <1>1, <1>2, <2>1
<1> QED  BY <1>1, <1>2, <1>3, <1>4

\* Frames leave the device in the order they were written.
LEMMA IdsInOrderStep ==
    ASSUME RefinementInvariant, [Next]_vars  PROVE IdsInOrder'
<1>1. TypeOK /\ TypeOK' /\ IdsInOrder
  BY TypeStep DEF RefinementInvariant, SafetyInvariant
<1>2. sent \in Nat /\ Len(tun) \in Nat
  BY <1>1, TrafficAssumption DEF TypeOK
<1>3. \A p \in EmIds : \A m \in in_packets[p] \cup out_packets[p] : m.id \in Nat
  <2>1. \A p \in EmIds : \A m \in in_packets[p] \cup out_packets[p] :
            m \in InPackets \/ m \in OutPackets
    BY <1>1, QueuedTypes
  <2> QED  BY <2>1, TrafficAssumption DEF InPackets, OutPackets, FrameIds
<1>4. \A p \in EmIds : \A i \in DOMAIN delivered[p] : delivered[p][i].id \in Nat
  BY <1>1, QueuedTypes, TrafficAssumption DEF InPackets, FrameIds
<1>5. CASE DeliverDue
  <2>1. PICK m \in in_packets[cur] :
            /\ \A p \in EmIds \ {cur} :
                   in_packets'[p] = in_packets[p] /\ delivered'[p] = delivered[p]
            /\ in_packets'[cur] = in_packets[cur] \ {m}
            /\ DOMAIN delivered'[cur] = DOMAIN delivered[cur] \cup {Len(delivered[cur]) + 1}
            /\ \A i \in DOMAIN delivered[cur] : delivered'[cur][i] = delivered[cur][i]
            /\ delivered'[cur][Len(delivered[cur]) + 1] = m
    BY <1>1, <1>5, DeliveryAppends
  <2>2. UNCHANGED <<tun, sent, out_packets>> /\ cur \in EmIds
    BY <1>1, <1>5 DEF DeliverDue, TypeOK
  <2>3. \A p \in EmIds : in_packets'[p] \subseteq in_packets[p]
    BY <2>1
  <2>4. ASSUME NEW p \in EmIds, NEW i \in DOMAIN delivered'[p]
        PROVE  delivered'[p][i].id =< sent - Len(tun)
    <3>1. CASE i \in DOMAIN delivered[p]
      BY <1>1, <2>1, <2>2, <3>1 DEF IdsInOrder
    <3>2. CASE p = cur /\ i = Len(delivered[cur]) + 1
      BY <1>1, <2>1, <2>2, <3>2 DEF IdsInOrder
    <3> QED  BY <2>1, <3>1, <3>2
  <2> QED  BY <1>1, <2>2, <2>3, <2>4 DEF IdsInOrder
<1>6. CASE TakeFrame /\ (ReceiveUnsupported \/ ReceiveOwn \/ ReceiveForOther)
  <2>1. /\ Head(tun).id = sent - Len(tun) + 1
        /\ Len(tun) \in Nat \ {0}
        /\ Len(tun') = Len(tun) - 1
        /\ \A i \in DOMAIN tun' : tun'[i].id = sent - Len(tun') + i
        /\ sent' = sent
    BY <1>1, <1>6, TakeFrameIds
  <2>2. \A p \in EmIds : \A m \in in_packets'[p] \cup out_packets'[p] :
            m \in in_packets[p] \cup out_packets[p] \/ m.id = Head(tun).id
    <3>1. cur \in EmIds
      BY <1>1 DEF TypeOK
    <3>2. CASE ReceiveUnsupported
      BY <3>2 DEF ReceiveUnsupported
    <3>3. CASE ReceiveOwn
      BY <1>1, <3>1, <3>3 DEF ReceiveOwn, TypeOK
    <3>4. CASE ReceiveForOther
      BY <1>1, <3>1, <3>4 DEF ReceiveForOther, TypeOK
    <3> QED  BY <1>6, <3>2, <3>3, <3>4
  <2>3. delivered' = delivered
    BY <1>6 DEF TakeFrame, ReadTun
  <2>4. \A p \in EmIds : \A m \in in_packets'[p] \cup out_packets'[p] :
            m.id =< sent - Len(tun')
    BY <1>1, <1>2, <1>3, <2>1, <2>2 DEF IdsInOrder
  <2>5. \A p \in EmIds : \A i \in DOMAIN delivered[p] : delivered[p][i].id =< sent - Len(tun')
    BY <1>1, <1>2, <1>4, <2>1 DEF IdsInOrder
  <2> QED  BY <1>1, <1>2, <2>1, <2>3, <2>4, <2>5 DEF IdsInOrder
<1>7. CASE schedule_sent_packets
  <2>1. UNCHANGED <<tun, sent, delivered>>
    BY <1>7 DEF schedule_sent_packets
  <2>2. ASSUME NEW p \in EmIds, NEW n \in in_packets'[p] \cup out_packets'[p]
        PROVE  n.id =< sent - Len(tun)
    <3>1. in_packets'[p] = in_packets[p] \cup
              {[id |-> m.id, src |-> m.src, from |-> cur, ts |-> m.ts + latency[cur][p]] :
                  m \in {o \in out_packets[cur] : o.dst = p}}
      BY <1>7 DEF schedule_sent_packets
    <3>2. out_packets'[p] \subseteq out_packets[p] /\ cur \in EmIds
      BY <1>1, <1>7 DEF schedule_sent_packets, TypeOK
    <3>3. n \in in_packets[p] \cup out_packets[p] \/ \E m \in out_packets[cur] : n.id = m.id
      BY <3>1, <3>2
    <3> QED  BY <1>1, <3>2, <3>3 DEF IdsInOrder
  <2> QED  BY <1>1, <2>1, <2>2 DEF IdsInOrder
<1>8. ASSUME NEW q \in EmIds, Emit(q)
      PROVE  IdsInOrder'
  <2>1. PICK f \in Frames : tun' = Append(tun, f) /\ f.id = sent + 1
    <3>1. PICK t \in Traffic :
              tun' = Append(tun, [id |-> sent', src |-> q, version |-> t[1], dst |-> t[2]])
      BY <1>8 DEF Emit
    <3>2. sent' = sent + 1 /\ sent' \in FrameIds
      BY <1>1, <1>2, <1>8, TrafficAssumption DEF Emit, FrameIds, TypeOK
    <3> QED  BY <3>1, <3>2, FrameType
  <2>2. UNCHANGED <<in_packets, out_packets, delivered>> /\ sent' = sent + 1
    BY <1>8 DEF Emit
  <2>3. /\ tun \in Seq(Frames)
        /\ Len(tun') = Len(tun) + 1
        /\ DOMAIN tun' = DOMAIN tun \cup {Len(tun) + 1}
        /\ \A i \in DOMAIN tun : tun'[i] = tun[i] /\ i \in Nat
        /\ tun'[Len(tun) + 1] = f
    <3>1. tun \in Seq(Frames)
      BY <1>1 DEF TypeOK
    <3>2. \A i \in DOMAIN tun : i \in Nat
      BY <3>1
    <3> QED  BY <2>1, <3>1, <3>2
  <2>4. sent' - Len(tun') = sent - Len(tun)
    BY <1>2, <2>2, <2>3
  <2>5. ASSUME NEW i \in DOMAIN tun'
        PROVE  tun'[i].id = sent' - Len(tun') + i
    <3>1. CASE i \in DOMAIN tun
      BY <1>1, <2>3, <2>4, <3>1 DEF IdsInOrder
    <3>2. CASE i = Len(tun) + 1
      BY <1>2, <2>1, <2>3, <2>4, <3>2
    <3> QED  BY <2>3, <3>1, <3>2
  <2>6. Len(tun') =< sent'
    BY <1>1, <1>2, <2>2, <2>3 DEF IdsInOrder
  <2> QED  BY <1>1, <2>2, <2>4, <2>5, <2>6 DEF IdsInOrder
<1>9. CASE UNCHANGED <<in_packets, out_packets, delivered, tun, sent>>
  BY <1>1, <1>9 DEF IdsInOrder
<1> QED
  BY <1>5, <1>6, <1>7, <1>8, <1>9
     DEF Next, EmulatorStep, Terminated, vars, Awake, ReadClock, ReceiveNothing, ReadTun,
         ReceiveUnsupported, ReceiveOwn, ReceiveForOther, Stop, Finish

\* Reading and scheduling never make two packets of one frame.
LEMMA QueuedIdsUniqueStep ==
    ASSUME RefinementInvariant, [Next]_vars  PROVE QueuedIdsUnique'
<1>1. TypeOK /\ TypeOK' /\ IdsInOrder /\ QueuedIdsUnique /\ OutOnlyInWindow /\ SentInTime
  BY TypeStep DEF RefinementInvariant, SafetyInvariant
<1>2. cur \in EmIds
  BY <1>1 DEF TypeOK
<1>3. CASE UNCHANGED <<in_packets, out_packets>>
  BY <1>1, <1>3 DEF QueuedIdsUnique
<1>4. CASE DeliverDue
  <2>1. \A p \in EmIds : in_packets'[p] \subseteq in_packets[p] /\ out_packets' = out_packets
    BY <1>1, <1>4 DEF DeliverDue, TypeOK
  <2> QED  BY <1>1, <2>1 DEF QueuedIdsUnique
<1>5. ASSUME TakeFrame
      PROVE  \A p \in EmIds : \A m \in in_packets[p] \cup out_packets[p] : m.id # Head(tun).id
  <2>1. Head(tun).id = sent - Len(tun) + 1 /\ sent \in Nat /\ Len(tun) \in Nat
    BY <1>1, <1>5, TakeFrameIds, TrafficAssumption DEF TypeOK
  <2>2. \A p \in EmIds : \A m \in in_packets[p] \cup out_packets[p] : m.id =< sent - Len(tun)
    BY <1>1 DEF IdsInOrder
  <2> QED  BY <2>1, <2>2
<1>6. CASE ReceiveOwn
  <2> DEFINE new == [id |-> Head(tun).id, src |-> Head(tun).src, from |-> cur, ts |-> Now]
  <2>1. /\ \A p \in EmIds \ {cur} : in_packets'[p] = in_packets[p]
        /\ in_packets'[cur] = in_packets[cur] \cup {new}
        /\ out_packets' = out_packets
        /\ TakeFrame
    BY <1>1, <1>2, <1>6 DEF ReceiveOwn, TypeOK
  <2>2. \A p \in EmIds : \A m \in in_packets'[p] : m \in in_packets[p] \/ (p = cur /\ m = new)
    BY <2>1
  <2>3. new.id = Head(tun).id
    OBVIOUS
  <2> HIDE DEF new
  <2> QED  BY <1>1, <1>5, <2>1, <2>2, <2>3 DEF QueuedIdsUnique
<1>7. CASE ReceiveForOther
  <2> DEFINE new == [id |-> Head(tun).id, src |-> Head(tun).src, dst |-> Head(tun).dst,
                     ts |-> Now]
  <2>1. /\ \A p \in EmIds \ {cur} : out_packets'[p] = out_packets[p]
        /\ out_packets'[cur] = out_packets[cur] \cup {new}
        /\ in_packets' = in_packets
        /\ TakeFrame
    BY <1>1, <1>2, <1>7 DEF ReceiveForOther, TypeOK
  <2>2. \A p \in EmIds : \A m \in out_packets'[p] : m \in out_packets[p] \/ (p = cur /\ m = new)
    BY <2>1
  <2>3. new.id = Head(tun).id
    OBVIOUS
  <2> HIDE DEF new
  <2> QED  BY <1>1, <1>5, <2>1, <2>2, <2>3 DEF QueuedIdsUnique
<1>8. CASE schedule_sent_packets
  <2>1. \A p \in EmIds : out_packets'[p] = {}
    BY <1>1, <1>2, <1>8 DEF schedule_sent_packets, OutOnlyInWindow, TypeOK
  <2> DEFINE moved(m) ==
                 [id |-> m.id, src |-> m.src, from |-> cur, ts |-> m.ts + latency[cur][m.dst]]
  <2>2. ASSUME NEW p \in EmIds, NEW n \in in_packets'[p]
        PROVE  n \in in_packets[p] \/ \E m \in out_packets[cur] : m.dst = p /\ n = moved(m)
    <3>1. in_packets'[p] = in_packets[p] \cup
              {[id |-> m.id, src |-> m.src, from |-> cur, ts |-> m.ts + latency[cur][p]] :
                  m \in {o \in out_packets[cur] : o.dst = p}}
      BY <1>8 DEF schedule_sent_packets
    <3> QED  BY <3>1
  <2>3. \A m \in out_packets[cur] : moved(m).id = m.id
    OBVIOUS
  <2> HIDE DEF moved
  <2>4. ASSUME NEW p \in EmIds, NEW q \in EmIds, NEW m \in in_packets'[p],
               NEW n \in in_packets'[q], m.id = n.id
        PROVE  p = q /\ m = n
    <3>1. CASE m \in in_packets[p] /\ n \in in_packets[q]
      BY <1>1, <2>4, <3>1 DEF QueuedIdsUnique
    <3>2. CASE m \in in_packets[p] /\ n \notin in_packets[q]
      <4>1. PICK o \in out_packets[cur] : n = moved(o)
        BY <2>2, <3>2
      <4> QED  BY <1>1, <1>2, <2>3, <2>4, <3>2, <4>1 DEF QueuedIdsUnique
    <3>3. CASE m \notin in_packets[p] /\ n \in in_packets[q]
      <4>1. PICK o \in out_packets[cur] : m = moved(o)
        BY <2>2, <3>3
      <4> QED  BY <1>1, <1>2, <2>3, <2>4, <3>3, <4>1 DEF QueuedIdsUnique
    <3>4. CASE m \notin in_packets[p] /\ n \notin in_packets[q]
      <4>1. PICK o \in out_packets[cur] : o.dst = p /\ m = moved(o)
        BY <2>2, <3>4
      <4>2. PICK u \in out_packets[cur] : u.dst = q /\ n = moved(u)
        BY <2>2, <3>4
      <4>3. o = u
        BY <1>1, <1>2, <2>3, <2>4, <4>1, <4>2 DEF QueuedIdsUnique
      <4> QED  BY <4>1, <4>2, <4>3
    <3> QED  BY <3>1, <3>2, <3>3, <3>4
  <2> QED  BY <2>1, <2>4 DEF QueuedIdsUnique
<1>9. ASSUME NEW q \in EmIds, Emit(q)
      PROVE  UNCHANGED <<in_packets, out_packets>>
  BY <1>9 DEF Emit
<1> QED
  BY <1>3, <1>4, <1>6, <1>7, <1>8, <1>9
     DEF Next, EmulatorStep, Terminated, vars, Awake, ReadClock, ReceiveNothing, TakeFrame,
         ReadTun, ReceiveUnsupported, Stop, Finish

\* Every step keeps the invariant of the refinement.
LEMMA RefinementInvariantStep ==
    RefinementInvariant /\ [Next]_vars => RefinementInvariant'
BY SafetyStep, IdsInOrderStep, QueuedIdsUniqueStep DEF RefinementInvariant

-----------------------------------------------------------------------------
(* The refinement mapping                                                  *)

\* The messages in flight, one at a time, in a state and in the next one.
LEMMA FlightElements ==
    ASSUME NEW x
    PROVE  /\ x \in AbstractFlight <=>
                  \E p \in EmIds : \/ \E m \in in_packets[p] : x = Queued(p, m)
                                   \/ \E m \in out_packets[p] : x = Unscheduled(p, m)
           /\ x \in AbstractFlight' <=>
                  \E p \in EmIds : \/ \E m \in in_packets'[p] : x = Queued(p, m)
                                   \/ \E m \in out_packets'[p] : x = Unscheduled(p, m)
BY DEF AbstractFlight, Queued, Unscheduled

\* A frame that is read for an emulated process is in flight from then on.
LEMMA FrameJoinsFlight ==
    ASSUME TypeOK, ReadingInWindow, ReceiveOwn \/ ReceiveForOther
    PROVE  AbstractFlight' = AbstractFlight \cup
               {[id |-> Head(tun).id, from |-> cur, dst |-> Head(tun).dst,
                 due |-> Now + latency[cur][Head(tun).dst]]}
<1> DEFINE msg == [id |-> Head(tun).id, from |-> cur, dst |-> Head(tun).dst,
                   due |-> Now + latency[cur][Head(tun).dst]]
<1>1. cur \in EmIds /\ Now \in Nat
  BY DEF TypeOK, Now
<1>2. CASE ReceiveOwn
  <2> DEFINE new == [id |-> Head(tun).id, src |-> Head(tun).src, from |-> cur, ts |-> Now]
  <2>1. /\ \A p \in EmIds \ {cur} : in_packets'[p] = in_packets[p]
        /\ in_packets'[cur] = in_packets[cur] \cup {new}
        /\ out_packets' = out_packets
        /\ Head(tun).dst = cur
    BY <1>1, <1>2 DEF ReceiveOwn, TypeOK
  <2>2. Queued(cur, new) = msg
    <3>1. latency[cur][cur] = 0
      BY <1>1, LatencyAssumption
    <3>2. Now + 0 = Now
      BY <1>1
    <3> QED  BY <2>1, <3>1, <3>2 DEF Queued
  <2> HIDE DEF new, msg
  <2>3. ASSUME NEW x
        PROVE  x \in AbstractFlight' <=> x \in AbstractFlight \/ x = msg
    BY <1>1, <2>1, <2>2, FlightElements
  <2>4. AbstractFlight' = AbstractFlight \cup {msg}
    BY <2>3
  <2> QED  BY <2>4 DEF msg
<1>3. CASE ReceiveForOther
  <2> DEFINE new == [id |-> Head(tun).id, src |-> Head(tun).src, dst |-> Head(tun).dst,
                     ts |-> Now]
  <2>1. /\ \A p \in EmIds \ {cur} : out_packets'[p] = out_packets[p]
        /\ out_packets'[cur] = out_packets[cur] \cup {new}
        /\ in_packets' = in_packets
    BY <1>1, <1>3 DEF ReceiveForOther, TypeOK
  <2>2. Unscheduled(cur, new) = msg
    BY DEF Unscheduled
  <2> HIDE DEF new, msg
  <2>3. ASSUME NEW x
        PROVE  x \in AbstractFlight' <=> x \in AbstractFlight \/ x = msg
    BY <1>1, <2>1, <2>2, FlightElements
  <2>4. AbstractFlight' = AbstractFlight \cup {msg}
    BY <2>3
  <2> QED  BY <2>4 DEF msg
<1> QED  BY <1>2, <1>3

\* Frames that were not read yet have ids no message has.
LEMMA UsedIdsWereRead ==
    ASSUME IdsInOrder, NEW n \in VN!UsedIds
    PROVE  n =< sent - Len(tun)
<1>1. CASE n \in {m.id : m \in AbstractFlight}
  <2>1. PICK x \in AbstractFlight : n = x.id
    BY <1>1
  <2>2. PICK p \in EmIds : \E m \in in_packets[p] \cup out_packets[p] : x.id = m.id
    BY <2>1, FlightElements DEF Queued, Unscheduled
  <2> QED  BY <2>1, <2>2 DEF IdsInOrder
<1>2. CASE \E p \in EmIds : n \in {AbstractReceived[p][i].id : i \in DOMAIN AbstractReceived[p]}
  <2>1. PICK p \in EmIds : \E i \in DOMAIN AbstractReceived[p] : n = AbstractReceived[p][i].id
    BY <1>2
  <2>2. \E i \in DOMAIN delivered[p] : n = delivered[p][i].id
    BY <2>1 DEF AbstractReceived, Queued
  <2> QED  BY <2>2 DEF IdsInOrder
<1> QED  BY <1>1, <1>2 DEF VN!UsedIds

\* Only the time of the chosen process moves.
LEMMA OthersStandStill ==
    ASSUME SafetyInvariant, [Next]_vars, NEW p \in EmIds, p # cur
    PROVE  ClockOf(p)' = ClockOf(p)
<1>1. TypeOK /\ TypeOK'
  BY TypeStep DEF SafetyInvariant
<1>2. /\ ClockOf(p) = virtual_clock[p]
      /\ ClockOf(p)' = virtual_clock'[p]
            + (IF pc' \in Window /\ p = cur'
               THEN IF elapsed' =< ts' THEN elapsed' ELSE ts'
               ELSE 0)
      /\ virtual_clock[p] \in Nat
  <2>1. virtual_clock[p] \in Nat
    BY <1>1 DEF TypeOK
  <2>2. ClockOf(p) = virtual_clock[p] + 0
    BY <1>1, ClockOfValue
  <2> QED  BY <1>1, <2>1, <2>2, ClockOfNextValue
<1>3. CASE Awake
  <2>1. /\ virtual_clock' = virtual_clock /\ elapsed' = 0
        /\ ts' \in Nat /\ virtual_clock[p] \in Nat
    BY <1>1, <1>3 DEF Awake, TypeOK
  <2> QED  BY <1>2, <2>1
<1>4. CASE Stop
  <2>1. virtual_clock'[p] = virtual_clock[p] /\ pc' = "schedule"
    BY <1>1, <1>4 DEF Stop, TypeOK
  <2> QED  BY <1>2, <2>1 DEF Window
<1>5. CASE UNCHANGED <<virtual_clock, cur>>
  BY <1>2, <1>5
<1>6. ASSUME NEW q \in EmIds, Emit(q)
      PROVE  UNCHANGED <<virtual_clock, cur>>
  BY <1>6 DEF Emit
<1> QED
  BY <1>3, <1>4, <1>5, <1>6
     DEF Next, EmulatorStep, Terminated, vars, ReadClock, DeliverDue, ReceiveNothing, TakeFrame,
         ReadTun, ReceiveUnsupported, ReceiveOwn, ReceiveForOther, schedule_sent_packets, Finish

\* A step that only moves virtual time advances one clock, or none.
LEMMA TimeStep ==
    ASSUME SafetyInvariant, [Next]_vars,
           UNCHANGED <<in_packets, out_packets, delivered>>
    PROVE  VN!Next \/ UNCHANGED VN!avars
<1>1. SafetyInvariant /\ SafetyInvariant' /\ TypeOK /\ TypeOK' /\ ReadingInWindow
  BY SafetyStep DEF SafetyInvariant
<1>2. \A p \in EmIds : ClockOf(p) \in Nat /\ ClockOf(p)' \in Nat /\ ClockOf(p) =< ClockOf(p)'
  BY <1>1, ClockOfValue, ClockOfNextValue, ClocksMonotone
<1>3. AbstractFlight' = AbstractFlight /\ AbstractReceived' = AbstractReceived
  BY DEF AbstractFlight, AbstractReceived
<1>4. PICK c \in EmIds : c = cur
  BY <1>1 DEF TypeOK
<1>5. CASE ClockOf(c)' = ClockOf(c)
  <2>1. ASSUME NEW p \in EmIds  PROVE ClockOf(p)' = ClockOf(p)
    BY <1>4, <1>5, OthersStandStill
  <2>2. AbstractClock' = AbstractClock
    BY <2>1 DEF AbstractClock
  <2> QED  BY <1>3, <2>2 DEF VN!avars
<1>6. CASE ClockOf(c)' # ClockOf(c)
  <2>1. /\ AbstractClock'[c] = ClockOf(c)'
        /\ \A q \in EmIds : AbstractClock[q] = ClockOf(q)
    BY DEF AbstractClock
  <2>2. AbstractClock' = [AbstractClock EXCEPT ![c] = AbstractClock'[c]]
    <3>1. ASSUME NEW q \in EmIds
          PROVE  ClockOf(q)' = IF q = c THEN ClockOf(c)' ELSE ClockOf(q)
      BY <1>4, OthersStandStill
    <3> QED  BY <3>1 DEF AbstractClock
  <2>3. Lookahead'
    BY <1>1, SafetyImpliesLookahead, PTL
  <2>4. \A q \in EmIds \ {c} : AbstractClock'[c] =< AbstractClock[q] + latency[q][c]
    <3>1. ASSUME NEW q \in EmIds \ {c}
          PROVE  ClockOf(c)' =< ClockOf(q) + latency[q][c]
      <4>1. ClockOf(c)' =< ClockOf(q)' + latency[q][c]
        BY <2>3 DEF Lookahead
      <4> QED  BY <1>4, <4>1, OthersStandStill
    <3> QED  BY <2>1, <3>1
  <2>5. AbstractClock'[c] \in Nat /\ AbstractClock[c] < AbstractClock'[c]
    BY <1>2, <1>6, <2>1
  <2>6. VN!Advance(c)
    BY <1>3, <2>2, <2>4, <2>5 DEF VN!Advance
  <2> QED  BY <2>6 DEF VN!Next
<1> QED  BY <1>5, <1>6

\* Reading a frame for an emulated process transmits a message: to itself with
\* no latency, or to another process.
LEMMA TransmitStep ==
    ASSUME RefinementInvariant, [Next]_vars, ReceiveOwn \/ ReceiveForOther
    PROVE  VN!Next
<1>1. /\ SafetyInvariant /\ TypeOK /\ TypeOK' /\ ReadingInWindow
      /\ IdsInOrder /\ OutOnlyInWindow /\ SentInTime
  BY TypeStep DEF RefinementInvariant, SafetyInvariant
<1>2. TakeFrame /\ pc = "deliver" /\ DuePackets = {}
      /\ UNCHANGED <<cur, ts, elapsed, virtual_clock, delivered>> /\ pc' = "clock"
  BY DEF ReceiveOwn, ReceiveForOther, TakeFrame, ReadTun
<1>3. PICK c \in EmIds : c = cur
  BY <1>1 DEF TypeOK
<1> DEFINE f == Head(tun)
           msg == [id |-> f.id, from |-> c, dst |-> f.dst, due |-> Now + latency[c][f.dst]]
<1>4. f \in Frames /\ f.id = sent - Len(tun) + 1 /\ sent \in Nat /\ Len(tun) \in Nat
  BY <1>1, <1>2, TakeFrameIds, TrafficAssumption DEF TypeOK
<1>5. f.id \in FrameIds /\ f.dst \in EmIds
  <2>1. f.dst \in EmIds
    BY <1>3 DEF ReceiveOwn, ReceiveForOther
  <2> QED  BY <1>4, <2>1 DEF Frames
<1>6. Now = ClockOf(c) /\ Now \in Nat /\ AbstractClock[c] = Now
  <2>1. Now = ClockOf(c) /\ ClockOf(c) \in Nat
    <3>1. elapsed =< ts
      BY <1>1, <1>2 DEF ReadingInWindow
    <3> QED  BY <1>1, <1>2, <1>3, <3>1, ClockOfValue DEF Now, Window
  <2> QED  BY <2>1 DEF AbstractClock
<1>7. AbstractClock' = AbstractClock
  <2>1. \A p \in EmIds : ClockOf(p)' = ClockOf(p)
    BY <1>2 DEF ClockOf, Window
  <2> QED  BY <2>1 DEF AbstractClock
<1>8. AbstractReceived' = AbstractReceived
  BY <1>2 DEF AbstractReceived
<1>9. f.id \notin VN!UsedIds
  <2> SUFFICES ASSUME f.id \in VN!UsedIds  PROVE FALSE
    OBVIOUS
  <2>1. f.id =< sent - Len(tun)
    BY <1>1, UsedIdsWereRead
  <2> QED  BY <1>4, <2>1
<1>10. ASSUME NEW x \in VN!InFlightTo(c)
       PROVE  AbstractClock[c] =< x.due
  <2>1. x \in AbstractFlight /\ x.dst = c
    BY DEF VN!InFlightTo
  <2>2. PICK p \in EmIds : \/ \E m \in in_packets[p] : x = Queued(p, m)
                           \/ \E m \in out_packets[p] : x = Unscheduled(p, m)
    BY <2>1, FlightElements
  <2>3. CASE \E m \in in_packets[p] : x = Queued(p, m)
    <3>1. PICK m \in in_packets[p] : x = Queued(p, m)
      BY <2>3
    <3>2. p = c /\ x.due = m.ts
      BY <2>1, <3>1 DEF Queued
    <3>3. ~ (m.ts < Now)
      BY <1>2, <1>3, <3>2 DEF DuePackets
    <3>4. m.ts \in Nat
      BY <1>1, QueuedTypes
    <3> QED  BY <1>6, <3>2, <3>3, <3>4
  <2>4. CASE \E m \in out_packets[p] : x = Unscheduled(p, m)
    <3>1. PICK m \in out_packets[p] : x = Unscheduled(p, m)
      BY <2>4
    <3>2. m.dst = c /\ p = c
      BY <1>1, <1>3, <2>1, <3>1 DEF Unscheduled, OutOnlyInWindow
    <3> QED  BY <1>1, <3>2 DEF SentInTime
  <2> QED  BY <2>2, <2>3, <2>4
<1>11. AbstractFlight' = AbstractFlight \cup {msg}
  BY <1>1, <1>3, FrameJoinsFlight
<1>12. VN!Transmit(c, f.dst, f.id)
  BY <1>6, <1>7, <1>8, <1>9, <1>10, <1>11 DEF VN!Transmit
<1> QED  BY <1>5, <1>12 DEF VN!Next

\* Delivering a packet receives the message that is due first.
LEMMA ReceiveStep ==
    ASSUME RefinementInvariant, [Next]_vars, DeliverDue
    PROVE  VN!Next
<1>1. /\ SafetyInvariant /\ TypeOK /\ TypeOK' /\ ReadingInWindow
      /\ QueuedIdsUnique /\ OutOnlyInWindow /\ SentInTime
  BY TypeStep DEF RefinementInvariant, SafetyInvariant
<1>2. pc = "deliver"
      /\ UNCHANGED <<pc, cur, ts, elapsed, virtual_clock, out_packets>>
  BY DEF DeliverDue
<1>3. PICK c \in EmIds : c = cur
  BY <1>1 DEF TypeOK
<1>4. PICK m \in in_packets[c] :
          /\ m.ts < Now
          /\ \A n \in in_packets[c] : m.ts =< n.ts
          /\ \A p \in EmIds \ {c} :
                 in_packets'[p] = in_packets[p] /\ delivered'[p] = delivered[p]
          /\ in_packets'[c] = in_packets[c] \ {m}
          /\ DOMAIN delivered'[c] = DOMAIN delivered[c] \cup {Len(delivered[c]) + 1}
          /\ \A i \in DOMAIN delivered[c] : delivered'[c][i] = delivered[c][i]
          /\ delivered'[c][Len(delivered[c]) + 1] = m
  BY <1>1, <1>3, DeliveryAppends
<1> DEFINE msg == Queued(c, m)
<1>5. Now = ClockOf(c) /\ Now \in Nat /\ AbstractClock[c] = Now
  <2>1. Now = ClockOf(c) /\ ClockOf(c) \in Nat
    <3>1. elapsed =< ts
      BY <1>1, <1>2 DEF ReadingInWindow
    <3> QED  BY <1>1, <1>2, <1>3, <3>1, ClockOfValue DEF Now, Window
  <2> QED  BY <2>1 DEF AbstractClock
<1>6. AbstractClock' = AbstractClock
  <2>1. \A p \in EmIds : ClockOf(p)' = ClockOf(p)
    BY <1>2 DEF ClockOf, Window
  <2> QED  BY <2>1 DEF AbstractClock
<1>7. msg \in VN!InFlightTo(c) /\ msg.due =< AbstractClock[c]
  <2>1. msg \in AbstractFlight
    BY FlightElements
  <2>2. m.ts \in Nat
    BY <1>1, QueuedTypes
  <2> QED  BY <1>4, <1>5, <2>1, <2>2 DEF VN!InFlightTo, Queued
<1>8. ASSUME NEW x \in VN!InFlightTo(c)
      PROVE  msg.due =< x.due
  <2>1. x \in AbstractFlight /\ x.dst = c
    BY DEF VN!InFlightTo
  <2>2. CASE \E p \in EmIds : \E n \in in_packets[p] : x = Queued(p, n)
    BY <1>4, <2>1, <2>2 DEF Queued
  <2>3. CASE \E p \in EmIds : \E n \in out_packets[p] : x = Unscheduled(p, n)
    <3>1. PICK p \in EmIds : \E n \in out_packets[p] : x = Unscheduled(p, n)
      BY <2>3
    <3>2. PICK n \in out_packets[p] : x = Unscheduled(p, n)
      BY <3>1
    <3>3. n.dst = c /\ p = c
      BY <1>1, <1>3, <2>1, <3>2 DEF Unscheduled, OutOnlyInWindow
    <3> QED  BY <1>1, <3>3 DEF SentInTime
  <2> QED  BY <2>1, <2>2, <2>3, FlightElements
<1>9. AbstractFlight' = AbstractFlight \ {msg}
  <2>1. msg.id = m.id /\ \A p \in EmIds : \A n \in in_packets[p] : Queued(p, n).id = n.id
    BY DEF Queued
  <2>2. \A p \in EmIds : \A n \in out_packets[p] : Unscheduled(p, n).id = n.id
    BY DEF Unscheduled
  <2>3. \A p \in EmIds : \A n \in in_packets[p] : Queued(p, n) = msg => p = c /\ n = m
    BY <1>1, <2>1 DEF QueuedIdsUnique
  <2>4. \A p \in EmIds : \A n \in out_packets[p] : Unscheduled(p, n) # msg
    BY <1>1, <2>1, <2>2 DEF QueuedIdsUnique
  <2>5. \A p \in EmIds : \A n : n \in in_packets'[p] <=> n \in in_packets[p] /\ ~ (p = c /\ n = m)
    BY <1>4
  <2> HIDE DEF msg
  <2>6. ASSUME NEW x
        PROVE  x \in AbstractFlight' <=> x \in AbstractFlight /\ x # msg
    <3>1. CASE x \in AbstractFlight'
      <4>1. PICK p \in EmIds : \/ \E n \in in_packets'[p] : x = Queued(p, n)
                               \/ \E n \in out_packets[p] : x = Unscheduled(p, n)
        BY <1>2, <3>1, FlightElements
      <4>2. x \in AbstractFlight
        BY <2>5, <4>1, FlightElements
      <4>3. x # msg
        BY <2>3, <2>4, <2>5, <4>1
      <4> QED  BY <3>1, <4>2, <4>3
    <3>2. CASE x \in AbstractFlight /\ x # msg
      <4>1. PICK p \in EmIds : \/ \E n \in in_packets[p] : x = Queued(p, n)
                               \/ \E n \in out_packets[p] : x = Unscheduled(p, n)
        BY <3>2, FlightElements
      <4>2. \A n \in in_packets[p] : x = Queued(p, n) => n \in in_packets'[p]
        BY <2>5, <3>2 DEF msg
      <4>3. out_packets' = out_packets
        BY <1>2
      <4> QED  BY <3>2, <4>1, <4>2, <4>3, FlightElements
    <3> QED  BY <3>1, <3>2
  <2> QED  BY <2>6
<1>10. AbstractReceived' = [AbstractReceived EXCEPT ![c] = Append(@, msg)]
  <2>1. Len(delivered[c]) \in Nat /\ DOMAIN delivered[c] = 1 .. Len(delivered[c])
    BY <1>1 DEF TypeOK
  <2>2. AbstractReceived'[c] = Append(AbstractReceived[c], msg)
    <3> DEFINE r == AbstractReceived[c]
    <3>1. /\ r = [i \in 1 .. Len(delivered[c]) |-> Queued(c, delivered[c][i])]
          /\ AbstractReceived'[c] =
                 [i \in 1 .. Len(delivered[c]) + 1 |-> Queued(c, delivered'[c][i])]
      <4>1. DOMAIN delivered'[c] = 1 .. Len(delivered[c]) + 1
        BY <1>4, <2>1
      <4> QED  BY <2>1, <4>1 DEF AbstractReceived, Queued
    <3>2. r \in Seq({Queued(c, delivered[c][i]) : i \in 1 .. Len(delivered[c])})
          /\ Len(r) = Len(delivered[c])
      BY <2>1, <3>1
    <3>3. Append(r, msg) =
              [i \in 1 .. Len(r) + 1 |-> IF i = Len(r) + 1 THEN msg ELSE r[i]]
      BY <3>2
    <3> QED  BY <1>4, <2>1, <3>1, <3>2, <3>3
  <2>3. \A p \in EmIds \ {c} : AbstractReceived'[p] = AbstractReceived[p]
    BY <1>4 DEF AbstractReceived
  <2>4. DOMAIN AbstractReceived = EmIds /\ DOMAIN AbstractReceived' = EmIds
    BY DEF AbstractReceived
  <2>5. /\ AbstractReceived = [p \in EmIds |-> AbstractReceived[p]]
        /\ AbstractReceived' = [p \in EmIds |-> AbstractReceived'[p]]
    BY DEF AbstractReceived
  <2> HIDE DEF msg
  <2> QED  BY <2>2, <2>3, <2>4, <2>5
<1>11. VN!Receive(c, msg)
  BY <1>6, <1>7, <1>8, <1>9, <1>10 DEF VN!Receive
<1>12. msg \in AbstractFlight
  BY <1>7 DEF VN!InFlightTo
<1> QED  BY <1>11, <1>12 DEF VN!Next

\* Moving the packets to the receivers' queues does not move the messages.
LEMMA ScheduleStep ==
    ASSUME RefinementInvariant, [Next]_vars, schedule_sent_packets
    PROVE  UNCHANGED VN!avars
<1>1. TypeOK /\ OutOnlyInWindow
  BY DEF RefinementInvariant, SafetyInvariant
<1>2. AbstractClock' = AbstractClock /\ AbstractReceived' = AbstractReceived
  BY DEF AbstractClock, AbstractReceived, ClockOf, Window, schedule_sent_packets
<1>3. PICK c \in EmIds : c = cur
  BY <1>1 DEF TypeOK
<1> DEFINE moved(m, q) == [id |-> m.id, src |-> m.src, from |-> c, ts |-> m.ts + latency[c][q]]
<1>4. \A q \in EmIds : \A n :
          n \in in_packets'[q] <=>
              n \in in_packets[q] \/ \E m \in out_packets[c] : m.dst = q /\ n = moved(m, q)
  <2> SUFFICES ASSUME NEW q \in EmIds
               PROVE  \A n : n \in in_packets'[q] <=>
                          n \in in_packets[q]
                              \/ \E m \in out_packets[c] : m.dst = q /\ n = moved(m, q)
    OBVIOUS
  <2>1. in_packets'[q] = in_packets[q] \cup
            {[id |-> m.id, src |-> m.src, from |-> c, ts |-> m.ts + latency[c][q]] :
                m \in {o \in out_packets[c] : o.dst = q}}
    BY <1>3 DEF schedule_sent_packets
  <2> QED  BY <2>1
<1>5. /\ \A p \in EmIds : out_packets'[p] = {}
      /\ \A p \in EmIds \ {c} : out_packets[p] = {}
  BY <1>1, <1>3 DEF OutOnlyInWindow, schedule_sent_packets, TypeOK
<1>6. ASSUME NEW m \in out_packets[c]
      PROVE  m.dst \in EmIds /\ Queued(m.dst, moved(m, m.dst)) = Unscheduled(c, m)
  BY <1>1, QueuedTypes DEF Queued, Unscheduled
<1> HIDE DEF moved
<1>7. ASSUME NEW x
      PROVE  x \in AbstractFlight' <=> x \in AbstractFlight
  <2>1. CASE x \in AbstractFlight'
    <3>1. PICK q \in EmIds, n \in UNION {in_packets'[p] : p \in EmIds} :
              n \in in_packets'[q] /\ x = Queued(q, n)
      BY <1>5, <2>1, FlightElements
    <3>2. CASE n \in in_packets[q]
      BY <2>1, <3>1, <3>2, FlightElements
    <3>3. CASE \E m \in out_packets[c] : m.dst = q /\ n = moved(m, q)
      <4>1. PICK m \in out_packets[c] : m.dst = q /\ n = moved(m, q)
        BY <3>3
      <4>2. x = Unscheduled(c, m)
        BY <1>6, <3>1, <4>1
      <4> QED  BY <2>1, <4>2, FlightElements
    <3> QED  BY <1>4, <3>1, <3>2, <3>3
  <2>2. CASE x \in AbstractFlight
    <3>1. PICK p \in EmIds : \/ \E m \in in_packets[p] : x = Queued(p, m)
                             \/ \E m \in out_packets[p] : x = Unscheduled(p, m)
      BY <2>2, FlightElements
    <3>2. CASE \E m \in in_packets[p] : x = Queued(p, m)
      BY <1>4, <2>2, <3>2, FlightElements
    <3>3. CASE \E m \in out_packets[p] : x = Unscheduled(p, m)
      <4>1. PICK m \in out_packets[p] : x = Unscheduled(p, m)
        BY <3>3
      <4>2. p = c /\ m \in out_packets[c]
        BY <1>5, <4>1
      <4>3. moved(m, m.dst) \in in_packets'[m.dst] /\ x = Queued(m.dst, moved(m, m.dst))
        BY <1>4, <1>6, <4>1, <4>2
      <4> QED  BY <1>6, <2>2, <4>2, <4>3, FlightElements
    <3> QED  BY <3>1, <3>2, <3>3
  <2> QED  BY <2>1, <2>2
<1>8. AbstractFlight' = AbstractFlight
  BY <1>7
<1> QED  BY <1>2, <1>8 DEF VN!avars

\* The initial state of the loop is one of the virtual network.
LEMMA RefinementInit == Init => VN!Init
<1> SUFFICES ASSUME Init  PROVE VN!Init
  OBVIOUS
<1>1. AbstractClock = [p \in EmIds |-> 0]
  BY DEF Init, AbstractClock, ClockOf, Window
<1>2. AbstractFlight = {}
  BY DEF Init, AbstractFlight
<1>3. AbstractReceived = [p \in EmIds |-> <<>>]
  BY DEF Init, AbstractReceived
<1> QED  BY <1>1, <1>2, <1>3 DEF VN!Init

\* Every step of the loop is a step of the virtual network, or none.
LEMMA RefinementStep ==
    RefinementInvariant /\ [Next]_vars => [VN!Next]_(VN!avars)
<1> SUFFICES ASSUME RefinementInvariant, [Next]_vars
             PROVE  VN!Next \/ UNCHANGED VN!avars
  OBVIOUS
<1>1. SafetyInvariant
  BY DEF RefinementInvariant
<1>2. CASE ReceiveOwn \/ ReceiveForOther
  BY <1>2, TransmitStep
<1>3. CASE DeliverDue
  BY <1>3, ReceiveStep
<1>4. CASE schedule_sent_packets
  BY <1>4, ScheduleStep
<1>5. CASE UNCHANGED <<in_packets, out_packets, delivered>>
  BY <1>1, <1>5, TimeStep
<1>6. ASSUME NEW q \in EmIds, Emit(q)
      PROVE  UNCHANGED <<in_packets, out_packets, delivered>>
  BY <1>6 DEF Emit
<1> QED
  BY <1>2, <1>3, <1>4, <1>5, <1>6
     DEF Next, EmulatorStep, Terminated, vars, Awake, ReadClock, ReceiveNothing, TakeFrame,
         ReadTun, ReceiveUnsupported, Stop, Finish

\* The emulation loop implements the virtual network: for any number of
\* processes and any latencies, the programs see clocks that never let a message
\* arrive late, and messages in the order in which they are due.
THEOREM EmulatorImplementsVirtualNetwork == Spec => ImplementsVirtualNetwork
BY RefinementInvariantInit, RefinementInvariantStep, RefinementInit, RefinementStep, PTL
   DEF Spec, ImplementsVirtualNetwork, VN!Spec
=============================================================================
