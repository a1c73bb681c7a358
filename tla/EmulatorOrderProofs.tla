------------------------- MODULE EmulatorOrderProofs -------------------------
(***************************************************************************)
(* What becomes of each frame: it is in one place at most, only unsupported *)
(* ones disappear, and those of one process to another arrive in the order *)
(* they were read.  The windows make progress, and what a process sends at *)
(* a virtual time comes after all that was due to it before.               *)
(***************************************************************************)
EXTENDS EmulatorProofs, FiniteSetTheorems

\* A frame is delivered once, and is queued no longer.
DeliveredIdsUnique ==
    /\ \A p, q \in EmIds : \A i \in DOMAIN delivered[p], m \in in_packets[q] \cup out_packets[q] :
           delivered[p][i].id # m.id
    /\ \A p, q \in EmIds : \A i \in DOMAIN delivered[p], j \in DOMAIN delivered[q] :
           delivered[p][i].id = delivered[q][j].id => p = q /\ i = j

\* All packets that were read: in flight, or delivered.
Messages ==
    AbstractFlight \cup
    UNION {{Queued(p, delivered[p][i]) : i \in DOMAIN delivered[p]} : p \in EmIds}

SentAt(x) == x.due - latency[x.from][x.dst]

\* Every packet was read in the past of its sender, and before the last reading
\* of the clock.
SentBeforeReading ==
    \A x \in Messages :
        /\ SentAt(x) =< ClockOf(x.from)
        /\ pc = "deliver" /\ x.from = cur => SentAt(x) + MinTick =< ClockOf(x.from)

\* Of two packets from one process to another the one read first is due first.
ReadInOrder ==
    \A x, y \in Messages :
        x.from = y.from /\ x.dst = y.dst /\ x.id < y.id => x.due + MinTick =< y.due

OrderInvariant ==
    RefinementInvariant /\ DeliveredIdsUnique /\ SentBeforeReading /\ ReadInOrder

-----------------------------------------------------------------------------
(* What was read                                                           *)

\* The packets that were read, one at a time, in a state and in the next one.
LEMMA MessageElements ==
    ASSUME NEW x
    PROVE  /\ x \in Messages <=>
                  \/ x \in AbstractFlight
                  \/ \E p \in EmIds : \E i \in DOMAIN delivered[p] : x = Queued(p, delivered[p][i])
           /\ x \in Messages' <=>
                  \/ x \in AbstractFlight'
                  \/ \E p \in EmIds : \E i \in DOMAIN delivered'[p] :
                         x = Queued(p, delivered'[p][i])
BY DEF Messages

\* Their fields, and that they are older than what was not read yet.
LEMMA MessageTypes ==
    ASSUME TypeOK, IdsInOrder, NEW x \in Messages
    PROVE  /\ x.id \in Nat /\ x.id =< sent - Len(tun)
           /\ x.from \in EmIds /\ x.dst \in EmIds
           /\ x.due \in Nat
           /\ SentAt(x) \in Int
<1>1. \A p, q \in EmIds : latency[p][q] \in Nat
  BY LatencyAssumption
<1>2. CASE \E p \in EmIds : \E m \in in_packets[p] : x = Queued(p, m)
  <2>1. PICK p \in EmIds, m \in UNION {in_packets[q] : q \in EmIds} :
            m \in in_packets[p] /\ x = Queued(p, m)
    BY <1>2
  <2>2. m \in InPackets /\ m.ts \in Nat /\ m.from \in EmIds
    BY <2>1, QueuedTypes
  <2>3. m.id \in Nat /\ m.id =< sent - Len(tun)
    BY <2>1, <2>2, TrafficAssumption DEF InPackets, FrameIds, IdsInOrder
  <2> QED  BY <1>1, <2>1, <2>2, <2>3 DEF Queued, SentAt
<1>3. CASE \E p \in EmIds : \E m \in out_packets[p] : x = Unscheduled(p, m)
  <2>1. PICK p \in EmIds, m \in UNION {out_packets[q] : q \in EmIds} :
            m \in out_packets[p] /\ x = Unscheduled(p, m)
    BY <1>3
  <2>2. m \in OutPackets /\ m.ts \in Nat /\ m.dst \in EmIds
    BY <2>1, QueuedTypes
  <2>3. m.id \in Nat /\ m.id =< sent - Len(tun)
    BY <2>1, <2>2, TrafficAssumption DEF OutPackets, FrameIds, IdsInOrder
  <2> QED  BY <1>1, <2>1, <2>2, <2>3 DEF Unscheduled, SentAt
<1>4. CASE \E p \in EmIds : \E i \in DOMAIN delivered[p] : x = Queued(p, delivered[p][i])
  <2>1. PICK p \in EmIds : \E i \in DOMAIN delivered[p] : x = Queued(p, delivered[p][i])
    BY <1>4
  <2>2. PICK i \in DOMAIN delivered[p] : x = Queued(p, delivered[p][i])
    BY <2>1
  <2> DEFINE m == delivered[p][i]
  <2>3. m \in InPackets /\ m.ts \in Nat /\ m.from \in EmIds
    BY QueuedTypes
  <2>4. m.id \in Nat /\ m.id =< sent - Len(tun)
    BY <2>3, TrafficAssumption DEF InPackets, FrameIds, IdsInOrder
  <2>5. x = Queued(p, m)
    BY <2>2
  <2> HIDE DEF m
  <2> QED  BY <1>1, <2>3, <2>4, <2>5 DEF Queued, SentAt
<1> QED  BY <1>2, <1>3, <1>4, MessageElements, FlightElements

\* Only reading a frame for an emulated process adds to them.
LEMMA MessagesStep ==
    ASSUME RefinementInvariant, [Next]_vars
    PROVE  \/ Messages' = Messages
           \/ /\ TakeFrame /\ Head(tun).dst \in EmIds
              /\ delivered' = delivered
              /\ Messages' = Messages \cup
                     {[id |-> Head(tun).id, from |-> cur, dst |-> Head(tun).dst,
                       due |-> Now + latency[cur][Head(tun).dst]]}
<1>1. TypeOK /\ TypeOK' /\ ReadingInWindow
  BY TypeStep DEF RefinementInvariant, SafetyInvariant
<1>2. CASE UNCHANGED <<in_packets, out_packets, delivered>>
  <2>1. AbstractFlight' = AbstractFlight
    BY <1>2 DEF AbstractFlight
  <2> QED  BY <1>2, <2>1 DEF Messages
<1>3. CASE DeliverDue
  <2>1. PICK m \in in_packets[cur] :
            /\ \A p \in EmIds \ {cur} :
                   in_packets'[p] = in_packets[p] /\ delivered'[p] = delivered[p]
            /\ in_packets'[cur] = in_packets[cur] \ {m}
            /\ DOMAIN delivered'[cur] = DOMAIN delivered[cur] \cup {Len(delivered[cur]) + 1}
            /\ \A i \in DOMAIN delivered[cur] : delivered'[cur][i] = delivered[cur][i]
            /\ delivered'[cur][Len(delivered[cur]) + 1] = m
    BY <1>1, <1>3, DeliveryAppends
  <2>2. out_packets' = out_packets /\ cur \in EmIds
    BY <1>1, <1>3 DEF DeliverDue, TypeOK
  <2>3. ASSUME NEW x \in Messages'  PROVE x \in Messages
    <3>1. CASE x \in AbstractFlight'
      <4>1. x \in AbstractFlight
        BY <2>1, <2>2, <3>1, FlightElements
      <4> QED  BY <4>1, MessageElements
    <3>2. CASE \E p \in EmIds : \E i \in DOMAIN delivered'[p] : x = Queued(p, delivered'[p][i])
      <4>1. PICK p \in EmIds : \E i \in DOMAIN delivered'[p] : x = Queued(p, delivered'[p][i])
        BY <3>2
      <4>2. PICK i \in DOMAIN delivered'[p] : x = Queued(p, delivered'[p][i])
        BY <4>1
      <4>3. CASE p = cur /\ i = Len(delivered[cur]) + 1
        <5>1. x \in AbstractFlight
          BY <2>1, <4>2, <4>3, FlightElements
        <5> QED  BY <5>1, MessageElements
      <4>4. CASE i \in DOMAIN delivered[p] /\ delivered'[p][i] = delivered[p][i]
        BY <4>2, <4>4, MessageElements
      <4> QED  BY <2>1, <4>3, <4>4
    <3> QED  BY <3>1, <3>2, MessageElements
  <2>4. ASSUME NEW x \in Messages  PROVE x \in Messages'
    <3>1. CASE \E p \in EmIds : \E n \in in_packets[p] : x = Queued(p, n)
      <4>1. PICK p \in EmIds : \E n \in in_packets[p] : x = Queued(p, n)
        BY <3>1
      <4>2. PICK n \in in_packets[p] : x = Queued(p, n)
        BY <4>1
      <4>3. CASE p = cur /\ n = m
        <5>1. \E i \in DOMAIN delivered'[p] : x = Queued(p, delivered'[p][i])
          BY <2>1, <4>2, <4>3
        <5> QED  BY <5>1, MessageElements
      <4>4. CASE n \in in_packets'[p]
        <5>1. x \in AbstractFlight'
          BY <4>2, <4>4, FlightElements
        <5> QED  BY <5>1, MessageElements
      <4> QED  BY <2>1, <4>3, <4>4
    <3>2. CASE \E p \in EmIds : \E n \in out_packets[p] : x = Unscheduled(p, n)
      <4>1. x \in AbstractFlight'
        BY <2>2, <3>2, FlightElements
      <4> QED  BY <4>1, MessageElements
    <3>3. CASE \E p \in EmIds : \E i \in DOMAIN delivered[p] : x = Queued(p, delivered[p][i])
      <4>1. PICK p \in EmIds : \E i \in DOMAIN delivered[p] : x = Queued(p, delivered[p][i])
        BY <3>3
      <4>2. PICK i \in DOMAIN delivered[p] : x = Queued(p, delivered[p][i])
        BY <4>1
      <4>3. i \in DOMAIN delivered'[p] /\ delivered'[p][i] = delivered[p][i]
        BY <2>1
      <4>4. \E j \in DOMAIN delivered'[p] : x = Queued(p, delivered'[p][j])
        BY <4>2, <4>3
      <4> QED  BY <4>4, MessageElements
    <3> QED  BY <3>1, <3>2, <3>3, MessageElements, FlightElements
  <2> QED  BY <2>3, <2>4
<1>4. CASE schedule_sent_packets
  <2>1. AbstractFlight' = AbstractFlight
    BY <1>4, ScheduleStep DEF VN!avars
  <2>2. delivered' = delivered
    BY <1>4 DEF schedule_sent_packets
  <2> QED  BY <2>1, <2>2 DEF Messages
<1>5. CASE ReceiveOwn \/ ReceiveForOther
  <2>1. TakeFrame /\ Head(tun).dst \in EmIds /\ delivered' = delivered
    BY <1>1, <1>5 DEF ReceiveOwn, ReceiveForOther, TakeFrame, ReadTun, TypeOK
  <2>2. AbstractFlight' = AbstractFlight \cup
            {[id |-> Head(tun).id, from |-> cur, dst |-> Head(tun).dst,
              due |-> Now + latency[cur][Head(tun).dst]]}
    BY <1>1, <1>5, FrameJoinsFlight
  <2> QED  BY <2>1, <2>2 DEF Messages
<1>6. ASSUME NEW q \in EmIds, Emit(q)
      PROVE  UNCHANGED <<in_packets, out_packets, delivered>>
  BY <1>6 DEF Emit
<1> QED
  BY <1>2, <1>3, <1>4, <1>5, <1>6
     DEF Next, EmulatorStep, Terminated, vars, Awake, ReadClock, ReceiveNothing, TakeFrame,
         ReadTun, ReceiveUnsupported, Stop, Finish

-----------------------------------------------------------------------------
(* The order of the packets of a channel                                   *)

\* A reading of the clock that is used is later than every stamp made before.
LEMMA SentBeforeReadingStep ==
    ASSUME OrderInvariant, [Next]_vars  PROVE SentBeforeReading'
<1>1. /\ RefinementInvariant /\ SafetyInvariant /\ TypeOK /\ TypeOK'
      /\ ReadingInWindow /\ ReadingInWindow' /\ IdsInOrder /\ SentBeforeReading
  BY SafetyStep DEF OrderInvariant, RefinementInvariant, SafetyInvariant
<1>2. \A p \in EmIds : ClockOf(p) \in Nat /\ ClockOf(p)' \in Nat /\ ClockOf(p) =< ClockOf(p)'
  BY <1>1, ClockOfValue, ClockOfNextValue, ClocksMonotone
<1>3. cur \in EmIds /\ MinTick \in {0, 1}
  BY <1>1, TrafficAssumption DEF TypeOK
<1> SUFFICES ASSUME NEW x \in Messages'
             PROVE  /\ SentAt(x) =< ClockOf(x.from)'
                    /\ pc' = "deliver" /\ x.from = cur' => SentAt(x) + MinTick =< ClockOf(x.from)'
  BY DEF SentBeforeReading, SentAt
<1>4. CASE x \in Messages
  <2>1. x.from \in EmIds /\ SentAt(x) \in Int
    BY <1>1, <1>4, MessageTypes
  <2>2. /\ SentAt(x) =< ClockOf(x.from)
        /\ pc = "deliver" /\ x.from = cur => SentAt(x) + MinTick =< ClockOf(x.from)
    BY <1>1, <1>4 DEF SentBeforeReading
  <2>3. SentAt(x) =< ClockOf(x.from)'
    BY <1>2, <2>1, <2>2
  <2>4. ASSUME pc' = "deliver", x.from = cur'
        PROVE  SentAt(x) + MinTick =< ClockOf(x.from)'
    <3>1. CASE pc = "deliver" /\ cur' = cur
      <4>1. SentAt(x) + MinTick =< ClockOf(x.from) /\ SentAt(x) + MinTick \in Int
        BY <1>3, <2>1, <2>2, <2>4, <3>1
      <4> QED  BY <1>2, <2>1, <4>1
    <3>2. CASE ReadClock
      <4>1. /\ pc = "clock" /\ cur' = cur /\ ts' = ts
            /\ virtual_clock'[cur] = virtual_clock[cur]
            /\ elapsed + MinTick =< elapsed'
        BY <1>3, <3>2 DEF ReadClock
      <4>2. elapsed =< ts /\ elapsed' =< ts'
        BY <1>1, <2>4, <4>1 DEF ReadingInWindow
      <4>3. x.from = cur
        BY <2>4, <4>1
      <4>4. ClockOf(x.from) = virtual_clock[cur] + elapsed
        BY <1>1, <1>3, <4>1, <4>2, <4>3, ClockOfValue DEF Window
      <4>5. ClockOf(x.from)' = virtual_clock[cur] + elapsed'
        BY <1>1, <1>3, <2>4, <4>1, <4>2, <4>3, ClockOfNextValue DEF Window
      <4>6. /\ virtual_clock[cur] \in Nat /\ elapsed \in Nat /\ elapsed' \in Nat
        BY <1>1, <1>3 DEF TypeOK
      <4> QED  BY <1>3, <2>1, <2>2, <4>1, <4>4, <4>5, <4>6
    <3>3. \A q \in EmIds : Emit(q) => pc' = pc /\ cur' = cur
      BY DEF Emit
    <3> QED
      BY <2>4, <3>1, <3>2, <3>3
         DEF Next, EmulatorStep, Terminated, vars, Awake, DeliverDue, ReceiveNothing, TakeFrame,
             ReadTun, ReceiveUnsupported, ReceiveOwn, ReceiveForOther, Stop,
             schedule_sent_packets, Finish
  <2> QED  BY <2>3, <2>4
<1>5. CASE x \notin Messages
  <2>1. /\ TakeFrame /\ Head(tun).dst \in EmIds
        /\ x = [id |-> Head(tun).id, from |-> cur, dst |-> Head(tun).dst,
                due |-> Now + latency[cur][Head(tun).dst]]
    BY <1>1, <1>5, MessagesStep
  <2>2. x.from = cur /\ x.dst = Head(tun).dst /\ x.due = Now + latency[cur][Head(tun).dst]
    BY <2>1
  <2>3. pc = "deliver" /\ pc' = "clock"
    BY <2>1 DEF TakeFrame, ReadTun
  <2>4. Now = ClockOf(cur)
    BY <1>1, <1>3, <2>3, ClockOfValue DEF ReadingInWindow, Window, Now
  <2>5. SentAt(x) = Now
    <3>1. x.dst \in EmIds
      BY <2>1, <2>2
    <3>2. latency[cur][x.dst] \in Nat /\ Now \in Nat
      BY <1>2, <1>3, <2>4, <3>1, LatencyAssumption
    <3> QED  BY <2>2, <3>2 DEF SentAt
  <2> QED  BY <1>2, <1>3, <2>2, <2>3, <2>4, <2>5
<1> QED  BY <1>4, <1>5

\* What is due by the time of its sender and the latency keeps the order in
\* which it was read.
LEMMA ReadInOrderStep ==
    ASSUME OrderInvariant, [Next]_vars  PROVE ReadInOrder'
<1>1. /\ RefinementInvariant /\ TypeOK /\ TypeOK' /\ ReadingInWindow
      /\ IdsInOrder /\ SentBeforeReading /\ ReadInOrder
  BY TypeStep DEF OrderInvariant, RefinementInvariant, SafetyInvariant
<1>2. cur \in EmIds /\ MinTick \in {0, 1} /\ sent \in Nat /\ Len(tun) \in Nat
  BY <1>1, TrafficAssumption DEF TypeOK
<1> SUFFICES ASSUME NEW x \in Messages', NEW y \in Messages',
                    x.from = y.from, x.dst = y.dst, x.id < y.id
             PROVE  x.due + MinTick =< y.due
  BY DEF ReadInOrder
<1>3. CASE x \in Messages /\ y \in Messages
  BY <1>1, <1>3 DEF ReadInOrder
<1>4. ASSUME NEW z \in Messages', z \notin Messages
      PROVE  /\ TakeFrame
             /\ z.id = Head(tun).id /\ z.from = cur
             /\ z.due = Now + latency[cur][z.dst]
             /\ z.id = sent - Len(tun) + 1
  <2>1. /\ TakeFrame
        /\ z = [id |-> Head(tun).id, from |-> cur, dst |-> Head(tun).dst,
                due |-> Now + latency[cur][Head(tun).dst]]
    BY <1>1, <1>4, MessagesStep
  <2> QED  BY <1>1, <2>1, TakeFrameIds
<1>5. CASE x \notin Messages
  <2>1. x.id = sent - Len(tun) + 1
    BY <1>4, <1>5
  <2>2. CASE y \in Messages
    <3>1. y.id =< sent - Len(tun) /\ y.id \in Nat
      BY <1>1, <2>2, MessageTypes
    <3> QED  BY <1>2, <2>1, <3>1
  <2>3. CASE y \notin Messages
    BY <1>2, <1>4, <2>1, <2>3
  <2> QED  BY <2>2, <2>3
<1>6. CASE x \in Messages /\ y \notin Messages
  <2>1. TakeFrame /\ y.from = cur /\ y.due = Now + latency[cur][y.dst]
    BY <1>4, <1>6
  <2>2. /\ x.from \in EmIds /\ x.dst \in EmIds /\ x.due \in Nat /\ SentAt(x) \in Int
    BY <1>1, <1>6, MessageTypes
  <2>3. pc = "deliver"
    BY <2>1 DEF TakeFrame, ReadTun
  <2>4. Now = ClockOf(cur) /\ Now \in Nat
    BY <1>1, <1>2, <2>3, ClockOfValue DEF ReadingInWindow, Window, Now
  <2>5. SentAt(x) + MinTick =< Now
    BY <1>1, <1>6, <2>1, <2>3, <2>4 DEF SentBeforeReading
  <2>6. x.due - latency[cur][y.dst] + MinTick =< Now
    BY <2>1, <2>5 DEF SentAt
  <2>7. latency[cur][y.dst] \in Nat
    BY <1>2, <2>2, LatencyAssumption
  <2> QED  BY <1>2, <2>1, <2>2, <2>4, <2>6, <2>7
<1> QED  BY <1>3, <1>5, <1>6

-----------------------------------------------------------------------------
(* Each frame is delivered once                                            *)

\* A packet that is delivered leaves its queue, and none comes back.
LEMMA DeliveredIdsUniqueStep ==
    ASSUME OrderInvariant, [Next]_vars  PROVE DeliveredIdsUnique'
<1>1. /\ TypeOK /\ TypeOK' /\ IdsInOrder /\ QueuedIdsUnique /\ DeliveredIdsUnique
  BY TypeStep DEF OrderInvariant, RefinementInvariant, SafetyInvariant
<1>2. cur \in EmIds /\ sent \in Nat /\ Len(tun) \in Nat
  BY <1>1, TrafficAssumption DEF TypeOK
<1>3. CASE UNCHANGED <<in_packets, out_packets, delivered>>
  BY <1>1, <1>3 DEF DeliveredIdsUnique
<1>4. CASE DeliverDue
  <2>1. PICK m \in in_packets[cur] :
            /\ \A p \in EmIds \ {cur} :
                   in_packets'[p] = in_packets[p] /\ delivered'[p] = delivered[p]
            /\ in_packets'[cur] = in_packets[cur] \ {m}
            /\ DOMAIN delivered'[cur] = DOMAIN delivered[cur] \cup {Len(delivered[cur]) + 1}
            /\ \A i \in DOMAIN delivered[cur] : delivered'[cur][i] = delivered[cur][i]
            /\ delivered'[cur][Len(delivered[cur]) + 1] = m
    BY <1>1, <1>4, DeliveryAppends
  <2>2. out_packets' = out_packets
    BY <1>4 DEF DeliverDue
  <2>3. \A p \in EmIds : \A i \in DOMAIN delivered'[p] :
            \/ i \in DOMAIN delivered[p] /\ delivered'[p][i] = delivered[p][i]
            \/ p = cur /\ i = Len(delivered[cur]) + 1 /\ delivered'[p][i] = m
    BY <2>1
  <2>4. ASSUME NEW p \in EmIds, NEW q \in EmIds, NEW i \in DOMAIN delivered'[p],
               NEW n \in in_packets'[q] \cup out_packets'[q]
        PROVE  delivered'[p][i].id # n.id
    <3>1. n \in in_packets[q] \cup out_packets[q] /\ (q = cur /\ n \in in_packets'[q] => n # m)
      BY <2>1, <2>2
    <3>2. n.id # m.id
      BY <1>1, <1>2, <2>1, <2>2, <3>1 DEF QueuedIdsUnique
    <3> QED  BY <1>1, <2>3, <3>1, <3>2 DEF DeliveredIdsUnique
  <2>5. ASSUME NEW p \in EmIds, NEW q \in EmIds,
               NEW i \in DOMAIN delivered'[p], NEW j \in DOMAIN delivered'[q],
               delivered'[p][i].id = delivered'[q][j].id
        PROVE  p = q /\ i = j
    <3>1. CASE /\ i \in DOMAIN delivered[p] /\ delivered'[p][i] = delivered[p][i]
               /\ j \in DOMAIN delivered[q] /\ delivered'[q][j] = delivered[q][j]
      BY <1>1, <2>5, <3>1 DEF DeliveredIdsUnique
    <3>2. ASSUME NEW r \in EmIds, NEW k \in DOMAIN delivered[r]
          PROVE  delivered[r][k].id # m.id
      BY <1>1, <1>2 DEF DeliveredIdsUnique
    <3> QED  BY <2>3, <2>5, <3>1, <3>2
  <2> QED  BY <2>4, <2>5 DEF DeliveredIdsUnique
<1>5. CASE ReceiveOwn \/ ReceiveForOther
  <2>1. TakeFrame /\ delivered' = delivered
    BY <1>5 DEF ReceiveOwn, ReceiveForOther, TakeFrame, ReadTun
  <2>2. Head(tun).id = sent - Len(tun) + 1
    BY <1>1, <2>1, TakeFrameIds
  <2>3. \A q \in EmIds : \A n \in in_packets'[q] \cup out_packets'[q] :
            n \in in_packets[q] \cup out_packets[q] \/ n.id = Head(tun).id
    <3>1. /\ DOMAIN in_packets = EmIds /\ DOMAIN out_packets = EmIds
      BY <1>1 DEF TypeOK
    <3>2. CASE ReceiveOwn
      <4> DEFINE k == [id |-> Head(tun).id, src |-> Head(tun).src, from |-> cur, ts |-> Now]
      <4>1. /\ in_packets' = [in_packets EXCEPT ![cur] = @ \cup {k}]
            /\ out_packets' = out_packets /\ k.id = Head(tun).id
        BY <3>2 DEF ReceiveOwn
      <4> HIDE DEF k
      <4> QED  BY <1>2, <3>1, <4>1
    <3>3. CASE ReceiveForOther
      <4> DEFINE k == [id |-> Head(tun).id, src |-> Head(tun).src,
                       dst |-> Head(tun).dst, ts |-> Now]
      <4>1. /\ out_packets' = [out_packets EXCEPT ![cur] = @ \cup {k}]
            /\ in_packets' = in_packets /\ k.id = Head(tun).id
        BY <3>3 DEF ReceiveForOther
      <4> HIDE DEF k
      <4> QED  BY <1>2, <3>1, <4>1
    <3> QED  BY <1>5, <3>2, <3>3
  <2>4. \A p \in EmIds : \A i \in DOMAIN delivered[p] : delivered[p][i].id # Head(tun).id
    <3>1. \A p \in EmIds : \A i \in DOMAIN delivered[p] : delivered[p][i].id =< sent - Len(tun)
      BY <1>1 DEF IdsInOrder
    <3>2. ~ (sent - Len(tun) + 1 =< sent - Len(tun))
      BY <1>2
    <3> QED  BY <2>2, <3>1, <3>2
  <2> QED  BY <1>1, <2>1, <2>3, <2>4 DEF DeliveredIdsUnique
<1>6. CASE schedule_sent_packets
  <2>1. delivered' = delivered
    BY <1>6 DEF schedule_sent_packets
  <2>2. ASSUME NEW q \in EmIds, NEW n \in in_packets'[q] \cup out_packets'[q]
        PROVE  \/ n \in in_packets[q] \cup out_packets[q]
               \/ \E m \in out_packets[cur] : n.id = m.id
    <3>1. in_packets'[q] = in_packets[q] \cup
              {[id |-> m.id, src |-> m.src, from |-> cur, ts |-> m.ts + latency[cur][q]] :
                  m \in {o \in out_packets[cur] : o.dst = q}}
      BY <1>6 DEF schedule_sent_packets
    <3>2. out_packets'[q] \subseteq out_packets[q]
      BY <1>1, <1>6 DEF schedule_sent_packets, TypeOK
    <3> QED  BY <3>1, <3>2
  <2> QED  BY <1>1, <1>2, <2>1, <2>2 DEF DeliveredIdsUnique
<1>7. ASSUME NEW q \in EmIds, Emit(q)
      PROVE  UNCHANGED <<in_packets, out_packets, delivered>>
  BY <1>7 DEF Emit
<1> QED
  BY <1>3, <1>4, <1>5, <1>6, <1>7
     DEF Next, EmulatorStep, Terminated, vars, Awake, ReadClock, ReceiveNothing, TakeFrame,
         ReadTun, ReceiveUnsupported, Stop, Finish

-----------------------------------------------------------------------------
(* The theorems                                                            *)

\* Nothing was read in the initial state.
LEMMA OrderInit == Init => OrderInvariant
<1> SUFFICES ASSUME Init  PROVE OrderInvariant
  OBVIOUS
<1>1. Messages = {}
  BY DEF Init, Messages, AbstractFlight
<1>2. DeliveredIdsUnique
  BY DEF Init, DeliveredIdsUnique
<1> QED
  BY <1>1, <1>2, RefinementInvariantInit DEF OrderInvariant, SentBeforeReading, ReadInOrder

\* Every step keeps the order in which the frames were read.
LEMMA OrderStep == OrderInvariant /\ [Next]_vars => OrderInvariant'
BY RefinementInvariantStep, DeliveredIdsUniqueStep, SentBeforeReadingStep, ReadInOrderStep
   DEF OrderInvariant

\* So it holds of every state of every behaviour.
LEMMA OrderInvariantHolds == Spec => []OrderInvariant
BY OrderInit, OrderStep, PTL DEF Spec

\* The order in which they are due is the order of the deliveries.
LEMMA OrderImpliesFIFO == OrderInvariant => ChannelFIFO
<1> SUFFICES ASSUME OrderInvariant, NEW p \in EmIds,
                    NEW i \in DOMAIN delivered[p], NEW j \in DOMAIN delivered[p],
                    i < j, delivered[p][i].from = delivered[p][j].from
             PROVE  \/ delivered[p][i].id < delivered[p][j].id
                    \/ MinTick = 0 /\ delivered[p][i].ts = delivered[p][j].ts
  BY DEF ChannelFIFO
<1>1. TypeOK /\ IdsInOrder /\ DeliveryInTimestampOrder /\ DeliveredIdsUnique /\ ReadInOrder
  BY DEF OrderInvariant, RefinementInvariant, SafetyInvariant
<1> DEFINE x == Queued(p, delivered[p][i])
           y == Queued(p, delivered[p][j])
<1>2. x \in Messages /\ y \in Messages
  BY DEF Messages
<1>3. /\ x.id = delivered[p][i].id /\ y.id = delivered[p][j].id
      /\ x.due = delivered[p][i].ts /\ y.due = delivered[p][j].ts
      /\ x.from = y.from /\ x.dst = y.dst
  BY DEF Queued
<1> HIDE DEF x, y
<1>4. x.id \in Nat /\ y.id \in Nat /\ x.due \in Nat /\ y.due \in Nat
  BY <1>1, <1>2, MessageTypes
<1>5. i \in Nat /\ j \in Nat /\ i # j
  BY <1>1 DEF TypeOK
<1>6. x.id # y.id
  BY <1>1, <1>3, <1>5 DEF DeliveredIdsUnique
<1>7. x.due =< y.due
  BY <1>1, <1>3 DEF DeliveryInTimestampOrder
<1>8. CASE y.id < x.id
  <2>1. y.due + MinTick =< x.due
    BY <1>1, <1>2, <1>3, <1>8 DEF ReadInOrder
  <2> QED  BY <1>3, <1>4, <1>7, <2>1, TrafficAssumption
<1> QED  BY <1>3, <1>4, <1>6, <1>8

\* Packets of one process to another are received in the order they were read,
\* except those read at equal readings of the clock (awake, schedule_sent_packets).
THEOREM ChannelFIFOHolds == Spec => []ChannelFIFO
BY OrderInvariantHolds, OrderImpliesFIFO, PTL

-----------------------------------------------------------------------------
(* Where each frame is                                                     *)

\* The places of a frame, one at a time, in a state and in the next one.
LEMMA PlaceElements ==
    ASSUME NEW n, NEW x
    PROVE  /\ x \in Places(n) <=>
                  \/ \E j \in DOMAIN tun : tun[j].id = n /\ x = <<"tun", j>>
                  \/ \E p \in EmIds : \E m \in out_packets[p] : m.id = n /\ x = <<"out", m>>
                  \/ \E p \in EmIds : \E m \in in_packets[p] : m.id = n /\ x = <<"in", p, m>>
                  \/ \E p \in EmIds : \E i \in DOMAIN delivered[p] :
                         delivered[p][i].id = n /\ x = <<"delivered", p, i>>
           /\ x \in Places(n)' <=>
                  \/ \E j \in DOMAIN tun' : tun'[j].id = n /\ x = <<"tun", j>>
                  \/ \E p \in EmIds : \E m \in out_packets'[p] : m.id = n /\ x = <<"out", m>>
                  \/ \E p \in EmIds : \E m \in in_packets'[p] : m.id = n /\ x = <<"in", p, m>>
                  \/ \E p \in EmIds : \E i \in DOMAIN delivered'[p] :
                         delivered'[p][i].id = n /\ x = <<"delivered", p, i>>
BY DEF Places

\* No frame is in two places.
LEMMA OnePlace ==
    ASSUME OrderInvariant, NEW n \in Nat, NEW x \in Places(n), NEW y \in Places(n)
    PROVE  x = y
<1>1. /\ TypeOK /\ IdsInOrder /\ QueuedIdsUnique /\ DeliveredIdsUnique
  BY DEF OrderInvariant, RefinementInvariant, SafetyInvariant
<1>2. sent \in Nat /\ Len(tun) \in Nat /\ \A j \in DOMAIN tun : j \in Nat \ {0}
  BY <1>1, TrafficAssumption DEF TypeOK
<1>3. \A j \in DOMAIN tun : tun[j].id = sent - Len(tun) + j
  BY <1>1 DEF IdsInOrder
<1>4. /\ \A p \in EmIds : \A m \in in_packets[p] \cup out_packets[p] : m.id =< sent - Len(tun)
      /\ \A p \in EmIds : \A i \in DOMAIN delivered[p] : delivered[p][i].id =< sent - Len(tun)
  BY <1>1 DEF IdsInOrder
<1>5. CASE \E j \in DOMAIN tun : tun[j].id = n /\ x = <<"tun", j>>
  <2>1. PICK j \in DOMAIN tun : tun[j].id = n /\ x = <<"tun", j>>
    BY <1>5
  <2>2. n = sent - Len(tun) + j /\ j \in Nat \ {0}
    BY <1>2, <1>3, <2>1
  <2>3. ~ (n =< sent - Len(tun))
    BY <1>2, <2>2
  <2>4. \E k \in DOMAIN tun : tun[k].id = n /\ y = <<"tun", k>>
    BY <1>4, <2>3, PlaceElements
  <2>5. PICK k \in DOMAIN tun : tun[k].id = n /\ y = <<"tun", k>>
    BY <2>4
  <2>6. n = sent - Len(tun) + k /\ k \in Nat
    BY <1>2, <1>3, <2>5
  <2> QED  BY <1>2, <2>1, <2>2, <2>5, <2>6
<1>6. CASE \E j \in DOMAIN tun : tun[j].id = n /\ y = <<"tun", j>>
  <2>1. PICK j \in DOMAIN tun : tun[j].id = n /\ y = <<"tun", j>>
    BY <1>6
  <2>2. n = sent - Len(tun) + j /\ j \in Nat \ {0}
    BY <1>2, <1>3, <2>1
  <2>3. ~ (n =< sent - Len(tun))
    BY <1>2, <2>2
  <2> QED  BY <1>4, <1>5, <2>3, PlaceElements
<1>7. CASE \E p \in EmIds : \E m \in out_packets[p] : m.id = n /\ x = <<"out", m>>
  BY <1>1, <1>6, <1>7, PlaceElements DEF QueuedIdsUnique, DeliveredIdsUnique
<1>8. CASE \E p \in EmIds : \E m \in in_packets[p] : m.id = n /\ x = <<"in", p, m>>
  BY <1>1, <1>6, <1>8, PlaceElements DEF QueuedIdsUnique, DeliveredIdsUnique
<1>9. CASE \E p \in EmIds : \E i \in DOMAIN delivered[p] :
              delivered[p][i].id = n /\ x = <<"delivered", p, i>>
  BY <1>1, <1>6, <1>9, PlaceElements DEF DeliveredIdsUnique
<1> QED  BY <1>5, <1>7, <1>8, <1>9, PlaceElements

\* The emulator duplicates no frame, in the device, its queues or a delivery,
\* over any number of windows.
THEOREM AtMostOnePlaceHolds == Spec => []AtMostOnePlace
<1>1. OrderInvariant => AtMostOnePlace
  <2> SUFFICES ASSUME OrderInvariant, NEW n \in 1 .. sent
               PROVE  Cardinality(Places(n)) =< 1
    BY DEF AtMostOnePlace
  <2>1. n \in Nat
    <3>1. sent \in Nat
      BY TrafficAssumption DEF OrderInvariant, RefinementInvariant, SafetyInvariant, TypeOK
    <3> QED  BY <3>1
  <2>2. CASE Places(n) = {}
    BY <2>2, FS_EmptySet
  <2>3. CASE Places(n) # {}
    <3>1. PICK x \in Places(n) : TRUE
      BY <2>3
    <3>2. Places(n) = {x}
      BY <2>1, <3>1, OnePlace
    <3> QED  BY <3>2, FS_Singleton
  <2> QED  BY <2>2, <2>3
<1> QED  BY <1>1, OrderInvariantHolds, PTL

\* A frame that was somewhere still is, unless awake has just read and dropped it.
LEMMA StaysSomewhere ==
    ASSUME RefinementInvariant, [Next]_vars, NEW n \in Nat, Places(n) # {}, Places(n)' = {}
    PROVE  /\ tun # <<>> /\ Head(tun).id = n
           /\ Head(tun).version # 4 \/ Head(tun).dst = Unknown
<1>1. TypeOK /\ IdsInOrder /\ OutOnlyInWindow
  BY DEF RefinementInvariant, SafetyInvariant
<1>2. cur \in EmIds
  BY <1>1 DEF TypeOK
<1>3. /\ \A j \in DOMAIN tun' : tun'[j].id # n
      /\ \A p \in EmIds : \A m \in in_packets'[p] \cup out_packets'[p] : m.id # n
      /\ \A p \in EmIds : \A i \in DOMAIN delivered'[p] : delivered'[p][i].id # n
  <2>1. ASSUME NEW j \in DOMAIN tun', tun'[j].id = n  PROVE FALSE
    <3>1. <<"tun", j>> \in Places(n)'
      BY <2>1, PlaceElements
    <3> QED  BY <3>1
  <2>2. ASSUME NEW p \in EmIds, NEW m \in out_packets'[p], m.id = n  PROVE FALSE
    <3>1. <<"out", m>> \in Places(n)'
      BY <2>2, PlaceElements
    <3> QED  BY <3>1
  <2>3. ASSUME NEW p \in EmIds, NEW m \in in_packets'[p], m.id = n  PROVE FALSE
    <3>1. <<"in", p, m>> \in Places(n)'
      BY <2>3, PlaceElements
    <3> QED  BY <3>1
  <2>4. ASSUME NEW p \in EmIds, NEW i \in DOMAIN delivered'[p], delivered'[p][i].id = n
        PROVE  FALSE
    <3>1. <<"delivered", p, i>> \in Places(n)'
      BY <2>4, PlaceElements
    <3> QED  BY <3>1
  <2> QED  BY <2>1, <2>2, <2>3, <2>4
<1>4. \/ \E j \in DOMAIN tun : tun[j].id = n
      \/ \E p \in EmIds : \E m \in in_packets[p] \cup out_packets[p] : m.id = n
      \/ \E p \in EmIds : \E i \in DOMAIN delivered[p] : delivered[p][i].id = n
  BY PlaceElements
<1>5. CASE UNCHANGED <<tun, in_packets, out_packets, delivered>>
  BY <1>3, <1>4, <1>5
<1>6. CASE DeliverDue
  <2>1. PICK m \in in_packets[cur] :
            /\ \A p \in EmIds \ {cur} :
                   in_packets'[p] = in_packets[p] /\ delivered'[p] = delivered[p]
            /\ in_packets'[cur] = in_packets[cur] \ {m}
            /\ DOMAIN delivered'[cur] = DOMAIN delivered[cur] \cup {Len(delivered[cur]) + 1}
            /\ \A i \in DOMAIN delivered[cur] : delivered'[cur][i] = delivered[cur][i]
            /\ delivered'[cur][Len(delivered[cur]) + 1] = m
    BY <1>1, <1>6, DeliveryAppends
  <2>2. out_packets' = out_packets /\ tun' = tun
    BY <1>6 DEF DeliverDue
  <2>3. m.id # n
    BY <1>2, <1>3, <2>1
  <2>4. \A p \in EmIds : \A i \in DOMAIN delivered[p] : delivered[p][i].id # n
    BY <1>3, <2>1
  <2>5. \A p \in EmIds : \A o \in in_packets[p] : o.id # n
    BY <1>3, <2>1, <2>3
  <2> QED  BY <1>3, <1>4, <2>2, <2>4, <2>5
<1>7. ASSUME TakeFrame
      PROVE  /\ tun # <<>> /\ delivered' = delivered
             /\ \A j \in DOMAIN tun : j = 1 \/ tun[j].id # n
             /\ tun[1] = Head(tun)
  <2>1. tun \in Seq(Frames) /\ tun # <<>> /\ tun' = Tail(tun) /\ delivered' = delivered
    BY <1>1, <1>7 DEF TypeOK, TakeFrame, ReadTun
  <2>2. ASSUME NEW j \in DOMAIN tun, j # 1
        PROVE  tun[j].id # n
    <3>1. j - 1 \in DOMAIN tun' /\ tun'[j - 1] = tun[j]
      BY <2>1, <2>2
    <3> QED  BY <1>3, <3>1
  <2> QED  BY <2>1, <2>2
<1>8. CASE ReceiveUnsupported
  <2>1. TakeFrame /\ UNCHANGED <<in_packets, out_packets>>
    BY <1>8 DEF ReceiveUnsupported
  <2>2. Head(tun).version # 4 \/ Head(tun).dst = Unknown
    BY <1>8 DEF ReceiveUnsupported
  <2> QED  BY <1>3, <1>4, <1>7, <2>1, <2>2
<1>9. CASE ReceiveOwn
  <2> DEFINE new == [id |-> Head(tun).id, src |-> Head(tun).src, from |-> cur, ts |-> Now]
  <2>1. /\ TakeFrame /\ out_packets' = out_packets
        /\ in_packets' = [in_packets EXCEPT ![cur] = @ \cup {new}]
        /\ new.id = Head(tun).id
    BY <1>9 DEF ReceiveOwn
  <2> HIDE DEF new
  <2>2. /\ \A p \in EmIds : in_packets[p] \subseteq in_packets'[p]
        /\ \E m \in in_packets'[cur] : m.id = Head(tun).id
    BY <1>1, <1>2, <2>1 DEF TypeOK
  <2> QED  BY <1>2, <1>3, <1>4, <1>7, <2>1, <2>2
<1>10. CASE ReceiveForOther
  <2> DEFINE new == [id |-> Head(tun).id, src |-> Head(tun).src, dst |-> Head(tun).dst,
                     ts |-> Now]
  <2>1. /\ TakeFrame /\ in_packets' = in_packets
        /\ out_packets' = [out_packets EXCEPT ![cur] = @ \cup {new}]
        /\ new.id = Head(tun).id
    BY <1>10 DEF ReceiveForOther
  <2> HIDE DEF new
  <2>2. /\ \A p \in EmIds : out_packets[p] \subseteq out_packets'[p]
        /\ \E m \in out_packets'[cur] : m.id = Head(tun).id
    BY <1>1, <1>2, <2>1 DEF TypeOK
  <2> QED  BY <1>2, <1>3, <1>4, <1>7, <2>1, <2>2
<1>11. CASE schedule_sent_packets
  <2>1. tun' = tun /\ delivered' = delivered
    BY <1>11 DEF schedule_sent_packets
  <2>2. \A p \in EmIds : in_packets[p] \subseteq in_packets'[p]
    BY <1>11 DEF schedule_sent_packets
  <2>3. ASSUME NEW p \in EmIds, NEW m \in out_packets[p]
        PROVE  m.id # n
    <3>1. p = cur /\ m.dst \in EmIds
      BY <1>1, QueuedTypes DEF OutOnlyInWindow
    <3>2. in_packets'[m.dst] = in_packets[m.dst] \cup
              {[id |-> o.id, src |-> o.src, from |-> cur, ts |-> o.ts + latency[cur][m.dst]] :
                  o \in {u \in out_packets[cur] : u.dst = m.dst}}
      BY <1>11, <3>1 DEF schedule_sent_packets
    <3>3. [id |-> m.id, src |-> m.src, from |-> cur, ts |-> m.ts + latency[cur][m.dst]]
              \in in_packets'[m.dst]
      BY <3>1, <3>2
    <3> QED  BY <1>3, <3>1, <3>3
  <2> QED  BY <1>3, <1>4, <2>1, <2>2, <2>3
<1>12. ASSUME NEW q \in EmIds, Emit(q)
       PROVE  FALSE
  <2>1. UNCHANGED <<in_packets, out_packets, delivered>>
    BY <1>12 DEF Emit
  <2>2. \A j \in DOMAIN tun : j \in DOMAIN tun' /\ tun'[j] = tun[j]
    <3>1. PICK f : tun' = Append(tun, f)
      BY <1>12 DEF Emit
    <3>2. tun \in Seq(Frames)
      BY <1>1 DEF TypeOK
    <3> QED  BY <3>1, <3>2
  <2> QED  BY <1>3, <1>4, <2>1, <2>2
<1> QED
  BY <1>5, <1>6, <1>8, <1>9, <1>10, <1>11, <1>12
     DEF Next, EmulatorStep, Terminated, vars, Awake, ReadClock, ReceiveNothing, ReadTun,
         Stop, Finish

\* awake drops what is not IPv4 or for no emulated process; no other frame is
\* ever lost.
THEOREM OnlyUnsupportedDroppedHolds == Spec => OnlyUnsupportedDropped
<1>1. OrderInvariant /\ [Next]_vars
        => [\A n \in 1 .. sent : Places(n) # {} /\ Places(n)' = {} =>
               LET f == Head(tun)
               IN  tun # <<>> /\ f.id = n /\ (f.version # 4 \/ f.dst = Unknown)]_vars
  <2> SUFFICES ASSUME OrderInvariant, [Next]_vars, NEW n \in 1 .. sent,
                      Places(n) # {}, Places(n)' = {}
               PROVE  /\ tun # <<>> /\ Head(tun).id = n
                      /\ Head(tun).version # 4 \/ Head(tun).dst = Unknown
    OBVIOUS
  <2>1. RefinementInvariant /\ n \in Nat
    BY TrafficAssumption DEF OrderInvariant, RefinementInvariant, SafetyInvariant, TypeOK
  <2> QED  BY <2>1, StaysSomewhere
<1> QED  BY <1>1, OrderInvariantHolds, PTL DEF Spec, OnlyUnsupportedDropped

-----------------------------------------------------------------------------
(* Progress of the windows                                                 *)

\* A window is as long as the smallest latency towards the chosen process, or
\* longer.
LEMMA WindowIsLong ==
    ASSUME TypeOK, Awake, procs > 1
    PROVE  ts' >= Min({latency[q][cur'] : q \in EmIds \ {cur'}})
<1>1. virtual_clock \in [EmIds -> Nat]
  BY DEF TypeOK
<1>2. /\ cur' = choose_next_proc /\ cur' \in EmIds
      /\ \A q \in EmIds : virtual_clock[cur'] =< virtual_clock[q]
      /\ ts' = get_time_interval(cur')
  BY <1>1, ChooseEarliest DEF Awake
<1> DEFINE c == cur'
           L == {latency[q][c] : q \in EmIds \ {c}}
           S == {2 * max_latency} \cup
                {virtual_clock[q] - virtual_clock[c] + latency[q][c] : q \in EmIds \ {c}}
<1>3. \A q \in EmIds : latency[q][c] \in Nat /\ virtual_clock[q] \in Nat
  BY <1>1, <1>2, LatencyAssumption
<1>4. L \in SUBSET Nat /\ L # {}
  <2>1. \E q \in EmIds : q # c
    BY ProcsAssumption DEF EmIds
  <2> QED  BY <1>3, <2>1
<1>5. Min(L) \in L /\ Min(L) \in Nat /\ \A x \in L : Min(L) =< x
  <2> HIDE DEF L
  <2> QED  BY <1>4, MinOfNaturals
<1>6. \A x \in S : x \in Nat /\ Min(L) =< x
  <2>1. ASSUME NEW q \in EmIds \ {c}
        PROVE  /\ virtual_clock[q] - virtual_clock[c] + latency[q][c] \in Nat
               /\ Min(L) =< virtual_clock[q] - virtual_clock[c] + latency[q][c]
    <3>1. latency[q][c] \in L
      OBVIOUS
    <3>2. /\ Min(L) =< latency[q][c] /\ virtual_clock[c] =< virtual_clock[q]
          /\ Min(L) \in Nat /\ latency[q][c] \in Nat
          /\ virtual_clock[q] \in Nat /\ virtual_clock[c] \in Nat
      BY <1>2, <1>3, <1>5, <3>1
    <3> HIDE DEF L, c
    <3> QED  BY <3>2
  <2>2. 2 * max_latency \in Nat /\ Min(L) =< 2 * max_latency
    <3>1. PICK q \in EmIds : Min(L) = latency[q][c]
      BY <1>5
    <3>2. latency[q][c] =< max_latency /\ max_latency \in Nat
      BY <1>2, MaxLatencyType
    <3>3. Min(L) =< max_latency /\ Min(L) \in Nat
      BY <1>5, <3>1, <3>2
    <3> HIDE DEF L
    <3> QED  BY <3>2, <3>3
  <2> HIDE DEF L
  <2> QED  BY <2>1, <2>2
<1>7. Min(S) \in S
  <2>1. S \in SUBSET Nat /\ S # {}
    BY <1>6
  <2> HIDE DEF S
  <2> QED  BY <2>1, MinOfNaturals
<1>8. ts' = Min(S)
  BY <1>2 DEF get_time_interval
<1>9. Min(L) =< ts' /\ ts' \in Nat
  <2> HIDE DEF L, S
  <2> QED  BY <1>6, <1>7, <1>8
<1>10. Min(L) \in Nat
  BY <1>5
<1> HIDE DEF L
<1>11. ts' >= Min(L)
  BY <1>9, <1>10
<1> QED  BY <1>11 DEF L

\* Where no latency between two processes is zero, no window is empty
\* (choose_next_proc, get_time_interval).
THEOREM WindowsMakeProgressHolds == Spec => WindowsMakeProgress
<1>1. TypeOK /\ [Next]_vars
        => [pc = "choose" /\ pc' = "clock" /\ procs > 1
               => ts' >= Min({latency[q][cur'] : q \in EmIds \ {cur'}})]_vars
  <2> SUFFICES ASSUME TypeOK, [Next]_vars, pc = "choose", pc' = "clock", procs > 1
               PROVE  ts' >= Min({latency[q][cur'] : q \in EmIds \ {cur'}})
    OBVIOUS
  <2>1. \A q \in EmIds : Emit(q) => pc' = pc
    BY DEF Emit
  <2>2. Awake
    BY <2>1
       DEF Next, EmulatorStep, Terminated, vars, ReadClock, DeliverDue, ReceiveNothing, TakeFrame,
           ReadTun, ReceiveUnsupported, ReceiveOwn, ReceiveForOther, Stop,
           schedule_sent_packets, Finish
  <2> QED  BY <2>2, WindowIsLong
<1> QED  BY <1>1, TypeCorrect, PTL DEF Spec, WindowsMakeProgress

-----------------------------------------------------------------------------
(* What a process sends at a virtual time comes after everything that was  *)
(* due to it before: CausalStamps, on top of the safety invariant of       *)
(* EmulatorProofs.                                                         *)

CausalInvariant == SafetyInvariant /\ StampsInPast /\ CausalStamps

\* The sets that make up StampsFor, one element at a time.
LEMMA StampsForElements ==
    ASSUME NEW p \in EmIds, NEW q \in EmIds, NEW t
    PROVE  t \in StampsFor(p, q) <=>
               \/ \E m \in out_packets[p] : m.dst = q /\ t = m.ts
               \/ \E m \in in_packets[q] : m.from = p /\ t = m.ts - latency[p][q]
               \/ \E i \in DOMAIN delivered[q] :
                      delivered[q][i].from = p /\ t = delivered[q][i].ts - latency[p][q]
BY DEF StampsFor

\* Where a stamp of StampsFor comes from, in the next state.
LEMMA StampsForNextElements ==
    ASSUME NEW p \in EmIds, NEW q \in EmIds, NEW t
    PROVE  t \in StampsFor(p, q)' <=>
               \/ \E m \in out_packets'[p] : m.dst = q /\ t = m.ts
               \/ \E m \in in_packets'[q] : m.from = p /\ t = m.ts - latency[p][q]
               \/ \E i \in DOMAIN delivered'[q] :
                      delivered'[q][i].from = p /\ t = delivered'[q][i].ts - latency[p][q]
BY DEF StampsFor

\* Stamps are integers.
LEMMA StampType ==
    ASSUME TypeOK, NEW p \in EmIds, NEW q \in EmIds, NEW t \in StampsFor(p, q)
    PROVE  t \in Int
<1>1. latency[p][q] \in Nat
  BY LatencyAssumption
<1> QED  BY <1>1, StampsForElements, QueuedTypes

\* A step adds no stamp to those a process made, but for the packet it reads
\* for the running process, which is stamped with that process' time.
LEMMA NewStampIsNow ==
    ASSUME SafetyInvariant, [Next]_vars,
           NEW p \in EmIds, NEW q \in EmIds, NEW t \in StampsFor(p, q)'
    PROVE  \/ t \in StampsFor(p, q)
           \/ p = cur /\ t = ClockOf(p) /\ TakeFrame
<1>1. TypeOK /\ TypeOK' /\ ReadingInWindow
  BY TypeStep DEF SafetyInvariant
<1>2. CASE UNCHANGED <<out_packets, in_packets, delivered>>
  BY <1>2, StampsForElements, StampsForNextElements
<1>3. ASSUME TakeFrame
      PROVE  Now = ClockOf(cur) /\ Now \in Nat /\ cur \in EmIds
  BY <1>1, <1>3, ClockOfValue
     DEF TakeFrame, ReadTun, ReadingInWindow, Window, Now, TypeOK
<1>4. CASE DeliverDue
  <2>1. PICK m \in in_packets[cur] :
            /\ \A r \in EmIds \ {cur} :
                   in_packets'[r] = in_packets[r] /\ delivered'[r] = delivered[r]
            /\ in_packets'[cur] = in_packets[cur] \ {m}
            /\ DOMAIN delivered'[cur] = DOMAIN delivered[cur] \cup {Len(delivered[cur]) + 1}
            /\ \A i \in DOMAIN delivered[cur] : delivered'[cur][i] = delivered[cur][i]
            /\ delivered'[cur][Len(delivered[cur]) + 1] = m
    BY <1>1, <1>4, DeliveryAppends
  <2>2. out_packets' = out_packets
    BY <1>4 DEF DeliverDue
  <2>3. CASE q # cur
    BY <2>1, <2>2, <2>3, StampsForElements, StampsForNextElements
  <2>4. CASE q = cur
    <3>1. CASE \E o \in out_packets'[p] : o.dst = q /\ t = o.ts
      BY <2>2, <3>1, StampsForElements
    <3>2. CASE \E n \in in_packets'[q] : n.from = p /\ t = n.ts - latency[p][q]
      BY <2>1, <2>4, <3>2, StampsForElements
    <3>3. CASE \E i \in DOMAIN delivered'[q] :
                  delivered'[q][i].from = p /\ t = delivered'[q][i].ts - latency[p][q]
      <4>1. PICK i \in DOMAIN delivered'[q] :
                delivered'[q][i].from = p /\ t = delivered'[q][i].ts - latency[p][q]
        BY <3>3
      <4>2. CASE i \in DOMAIN delivered[q]
        BY <2>1, <2>4, <4>1, <4>2, StampsForElements
      <4>3. CASE i = Len(delivered[cur]) + 1
        <5>1. m \in in_packets[q] /\ m.from = p /\ t = m.ts - latency[p][q]
          BY <2>1, <2>4, <4>1, <4>3
        <5> QED  BY <5>1, StampsForElements
      <4> QED  BY <2>1, <2>4, <4>2, <4>3
    <3> QED  BY <3>1, <3>2, <3>3, StampsForNextElements
  <2> QED  BY <2>3, <2>4
<1>5. CASE ReceiveOwn
  <2> DEFINE new == [id |-> Head(tun).id, src |-> Head(tun).src, from |-> cur, ts |-> Now]
  <2>1. /\ TakeFrame
        /\ in_packets' = [in_packets EXCEPT ![cur] = @ \cup {new}]
        /\ UNCHANGED <<out_packets, delivered>>
    BY <1>5 DEF ReceiveOwn, TakeFrame, ReadTun
  <2>2. \A n \in in_packets'[q] : n \in in_packets[q] \/ (q = cur /\ n = new)
    BY <1>1, <2>1 DEF TypeOK
  <2>3. latency[cur][cur] = 0
    BY <1>3, <2>1, LatencyAssumption
  <2>4. CASE \E n \in in_packets'[q] : n.from = p /\ t = n.ts - latency[p][q]
    <3>1. PICK n \in in_packets'[q] : n.from = p /\ t = n.ts - latency[p][q]
      BY <2>4
    <3>2. CASE n \in in_packets[q]
      BY <3>1, <3>2, StampsForElements
    <3>3. CASE q = cur /\ n = new
      BY <1>3, <2>1, <2>3, <3>1, <3>3
    <3> QED  BY <2>2, <3>2, <3>3
  <2> QED  BY <2>1, <2>4, StampsForElements, StampsForNextElements
<1>6. CASE ReceiveForOther
  <2> DEFINE new == [id |-> Head(tun).id, src |-> Head(tun).src, dst |-> Head(tun).dst,
                     ts |-> Now]
  <2>1. /\ TakeFrame
        /\ out_packets' = [out_packets EXCEPT ![cur] = @ \cup {new}]
        /\ UNCHANGED <<in_packets, delivered>>
    BY <1>6 DEF ReceiveForOther, TakeFrame, ReadTun
  <2>2. \A n \in out_packets'[p] : n \in out_packets[p] \/ (p = cur /\ n = new)
    BY <1>1, <2>1 DEF TypeOK
  <2>3. CASE \E n \in out_packets'[p] : n.dst = q /\ t = n.ts
    <3>1. PICK n \in out_packets'[p] : n.dst = q /\ t = n.ts
      BY <2>3
    <3>2. CASE n \in out_packets[p]
      BY <3>1, <3>2, StampsForElements
    <3>3. CASE p = cur /\ n = new
      BY <1>3, <2>1, <3>1, <3>3
    <3> QED  BY <2>2, <3>2, <3>3
  <2> QED  BY <2>1, <2>3, StampsForElements, StampsForNextElements
<1>7. CASE schedule_sent_packets
  <2>1. /\ \A n \in in_packets'[q] :
               \/ n \in in_packets[q]
               \/ \E m \in out_packets[cur] :
                      m.dst = q /\ n.from = cur /\ n.ts = m.ts + latency[cur][q]
        /\ out_packets'[p] \subseteq out_packets[p]
        /\ delivered' = delivered
    <3>1. in_packets'[q] = in_packets[q] \cup
              {[id |-> m.id, src |-> m.src, from |-> cur, ts |-> m.ts + latency[cur][q]] :
                  m \in {o \in out_packets[cur] : o.dst = q}}
      BY <1>7 DEF schedule_sent_packets
    <3>2. out_packets'[p] \subseteq out_packets[p]
      BY <1>1, <1>7 DEF schedule_sent_packets, TypeOK
    <3>3. delivered' = delivered
      BY <1>7 DEF schedule_sent_packets
    <3> QED  BY <3>1, <3>2, <3>3
  <2>2. CASE \E n \in in_packets'[q] : n.from = p /\ t = n.ts - latency[p][q]
    <3>1. PICK n \in in_packets'[q] : n.from = p /\ t = n.ts - latency[p][q]
      BY <2>2
    <3>2. CASE n \in in_packets[q]
      BY <3>1, <3>2, StampsForElements
    <3>3. CASE \E m \in out_packets[cur] :
                  m.dst = q /\ n.from = cur /\ n.ts = m.ts + latency[cur][q]
      <4>1. PICK m \in out_packets[cur] :
                m.dst = q /\ n.from = cur /\ n.ts = m.ts + latency[cur][q]
        BY <3>3
      <4>2. m.ts \in Nat /\ latency[cur][q] \in Nat /\ p = cur
        BY <1>1, <3>1, <4>1, QueuedTypes, LatencyAssumption
      <4>3. t = m.ts
        BY <3>1, <4>1, <4>2
      <4> QED  BY <4>1, <4>2, <4>3, StampsForElements
    <3> QED  BY <2>1, <3>2, <3>3
  <2> QED  BY <2>1, <2>2, StampsForElements, StampsForNextElements
<1>8. ASSUME NEW r \in EmIds, Emit(r)
      PROVE  UNCHANGED <<out_packets, in_packets, delivered>>
  BY <1>8 DEF Emit
<1> QED
  BY <1>2, <1>4, <1>5, <1>6, <1>7, <1>8
     DEF Next, EmulatorStep, Terminated, vars, Awake, ReadClock, ReceiveNothing,
         ReceiveUnsupported, TakeFrame, ReadTun, Stop, Finish

\* Nothing was sent in the initial state.
LEMMA CausalInit == Init => CausalInvariant
<1> SUFFICES ASSUME Init  PROVE CausalInvariant
  OBVIOUS
<1>1. \A p, q \in EmIds : StampsFor(p, q) = {}
  BY DEF Init, StampsFor
<1> QED  BY <1>1, SafetyInit DEF CausalInvariant, StampsInPast, CausalStamps

\* Every step keeps what was sent before what is still due (awake, deliveries first).
LEMMA CausalStep == CausalInvariant /\ [Next]_vars => CausalInvariant'
<1> SUFFICES ASSUME CausalInvariant, [Next]_vars  PROVE CausalInvariant'
  OBVIOUS
<1>1. SafetyInvariant /\ SafetyInvariant' /\ TypeOK /\ TypeOK' /\ ReadingInWindow
  BY SafetyStep DEF CausalInvariant, SafetyInvariant
<1>2. \A p \in EmIds : ClockOf(p) \in Nat /\ ClockOf(p)' \in Nat /\ ClockOf(p) =< ClockOf(p)'
  BY <1>1, ClockOfValue, ClockOfNextValue, ClocksMonotone
<1>3. ASSUME NEW p \in EmIds, NEW q \in EmIds, NEW t \in StampsFor(p, q)'
      PROVE  t \in Int /\ t =< ClockOf(p)
  <2>1. CASE t \in StampsFor(p, q)
    BY <1>1, <2>1, StampType DEF CausalInvariant, StampsInPast
  <2>2. CASE t = ClockOf(p)
    BY <1>2, <2>2
  <2> QED  BY <1>1, <2>1, <2>2, NewStampIsNow
<1>4. StampsInPast'
  <2> SUFFICES ASSUME NEW p \in EmIds, NEW q \in EmIds, NEW t \in StampsFor(p, q)'
               PROVE  t =< ClockOf(p)'
    BY DEF StampsInPast
  <2> QED  BY <1>2, <1>3
<1>5. CausalStamps'
  <2> SUFFICES ASSUME NEW p \in EmIds, NEW q \in EmIds, NEW t \in StampsFor(p, q)',
                      NEW m \in in_packets'[p]
               PROVE  t =< m.ts
    BY DEF CausalStamps
  <2>1. m.ts \in Nat
    <3>1. m \in InPackets
      BY <1>1 DEF TypeOK
    <3> QED  BY <3>1 DEF InPackets
  <2>2. CASE m \notin in_packets[p]
    BY <1>1, <1>2, <1>3, <2>1, <2>2, ArrivalInFuture
  <2>3. CASE m \in in_packets[p] /\ t \in StampsFor(p, q)
    BY <2>3 DEF CausalInvariant, CausalStamps
  <2>4. CASE m \in in_packets[p] /\ p = cur /\ t = ClockOf(p) /\ TakeFrame
    <3>1. ClockOf(p) = Now
      BY <1>1, <2>4, ClockOfValue
         DEF TakeFrame, ReadTun, ReadingInWindow, Window, Now, TypeOK
    <3>2. ~ (m.ts < Now)
      BY <2>4 DEF TakeFrame, ReadTun, DuePackets
    <3> QED  BY <1>2, <2>1, <2>4, <3>1, <3>2
  <2> QED  BY <1>1, <2>2, <2>3, <2>4, NewStampIsNow
<1> QED  BY <1>1, <1>4, <1>5 DEF CausalInvariant

\* What a process sent at virtual time t comes after everything due to it
\* before t, in awake and across windows.
THEOREM CausalStampsHold == Spec => []CausalStamps
<1>1. CausalInvariant => CausalStamps
  BY DEF CausalInvariant
<1> QED  BY <1>1, CausalInit, CausalStep, PTL DEF Spec
=============================================================================
