--------------------------- MODULE BroadcastProofs ---------------------------
(***************************************************************************)
(* What holds of ByzantineReliableBroadcast for every number of processes, *)
(* though messages are lost, connections reset and processes exit.         *)
(***************************************************************************)
EXTENDS ByzantineReliableBroadcast, FiniteSetTheorems, TLAPS

States ==
    [sentecho : BOOLEAN, sentready : BOOLEAN, delivered : BOOLEAN,
     echos : SUBSET EmIds, readys : SUBSET EmIds, echoed : Nat, readied : Nat]

Connections ==
    [src : EmIds, dst : EmIds, type : Types \cup {Lost}, accepted : BOOLEAN, open : BOOLEAN]

\* The types of what p may have sent by now.
Kinds(p) == {t \in Types : (t = "ECHO" => st[p].sentecho) /\ (t = "SEND" => p = 0)}

\* Nothing is on its way that its sender has not sent in its state.
TrafficInv ==
    /\ out \in [EmIds -> Seq([to : EmIds, type : Types])]
    /\ \A p \in EmIds : out[p] \in Seq([to : EmIds \ {p}, type : Kinds(p)])
    /\ conns \in SUBSET Connections
    /\ \A c \in conns : c.src # c.dst /\ c.type \in Kinds(c.src) \cup {Lost}

\* What holds of the state s of p.
LocalInv(p, s) ==
    /\ s.echos \ {p} \subseteq {q \in EmIds : st[q].sentecho}
    /\ s.echoed = Cardinality(s.echos \ {p})
    /\ s.readied = IF p # 0 /\ 0 \in s.readys THEN 1 ELSE 0
    /\ s.delivered => s.sentready
    /\ s.sentready => s.sentecho
    /\ s.delivered => p # 0 /\ f = 0 /\ 0 \in s.readys

IInv ==
    /\ st \in [EmIds -> States]
    /\ \A p \in EmIds : LocalInv(p, st[p])
    /\ TrafficInv

-----------------------------------------------------------------------------

LEMMA Constants ==
    /\ procs \in Nat /\ procs >= 1
    /\ 0 \in EmIds /\ EmIds \subseteq Nat /\ IsFiniteSet(EmIds)
    /\ f \in Nat /\ Quorum \in Nat
    /\ Types = {"SEND", "ECHO", "READY"}
    /\ Lost \notin Types
<1>1. procs \in Nat /\ procs >= 1
    BY AlgorithmAssumption
<1>2. f \in Nat /\ Quorum \in Nat
    BY <1>1 DEF f, Quorum
<1>3. IsFiniteSet(EmIds)
    BY <1>1, FS_Interval DEF EmIds
<1> QED
    BY <1>1, <1>2, <1>3, AlgorithmAssumption, TypesAssumption DEF EmIds

\* broadcast sends to the others what it is told to.
LEMMA BroadcastSends ==
    ASSUME NEW p \in EmIds, NEW T, NEW t \in T
    PROVE  broadcast(p, t) \in Seq([to : EmIds \ {p}, type : T])
<1>1. \A i \in 1 .. procs - 1 :
          [to |-> IF i <= p THEN i - 1 ELSE i, type |-> t] \in [to : EmIds \ {p}, type : T]
    BY Constants DEF EmIds
<1>2. procs - 1 \in Nat
    BY Constants
<1> DEFINE S == [to : EmIds \ {p}, type : T]
           g == [i \in 1 .. procs - 1 |-> [to |-> IF i <= p THEN i - 1 ELSE i, type |-> t]]
<1>3. g \in [1 .. procs - 1 -> S]
    BY <1>1
<1> HIDE DEF g, S
<1>4. g \in Seq(S)
    BY <1>2, <1>3
<1> QED
    BY <1>4 DEF broadcast, g, S

LEMMA SeqMonotone ==
    ASSUME NEW A, NEW B, A \subseteq B, NEW s \in Seq(A)
    PROVE  s \in Seq(B)
OBVIOUS

LEMMA SeqParts ==
    ASSUME NEW A, NEW s \in Seq(A), s # <<>>
    PROVE  Head(s) \in A /\ Tail(s) \in Seq(A)
OBVIOUS

\* Counting a message keeps what holds of the state of its receiver.
LEMMA CountedInv ==
    ASSUME IInv, NEW p \in EmIds, NEW q \in EmIds \ {p}, NEW t \in Kinds(q)
    PROVE  LET mes == [from |-> q, type |-> t]
               s   == Counted(p, mes)
           IN  /\ s \in States /\ LocalInv(p, s)
               /\ (st[p].sentecho \/ FirstSend(p, mes)) => s.sentecho
<1> DEFINE mes   == [from |-> q, type |-> t]
           s     == Counted(p, mes)
           echo  == {x \in {mes.from} : mes.type = "ECHO"}
           ready == {x \in {mes.from} : mes.type = "SEND"}
           own   == {x \in {p} : FirstSend(p, mes)}
<1>1. /\ st[p] \in States /\ LocalInv(p, st[p])
      /\ mes.from = q /\ mes.type = t /\ FirstSend(p, mes) \in BOOLEAN
      /\ t = "ECHO" => st[q].sentecho
      /\ t = "SEND" => q = 0
    BY DEF IInv, Kinds, FirstSend
<1>2. /\ echo = (IF t = "ECHO" THEN {q} ELSE {})
      /\ ready = (IF t = "SEND" THEN {q} ELSE {})
      /\ own \subseteq {p}
    BY <1>1
<1>3. /\ s.sentecho = (st[p].sentecho \/ FirstSend(p, mes))
      /\ s.sentready = st[p].sentready /\ s.delivered = st[p].delivered
      /\ s.echos = (st[p].echos \cup own) \cup echo
      /\ s.echoed = st[p].echoed + Cardinality(echo \ st[p].echos)
      /\ s.readys = st[p].readys \cup ready
      /\ s.readied = st[p].readied + Cardinality(ready \ st[p].readys)
    BY <1>1 DEF Counted, States
<1>4. s = [sentecho |-> s.sentecho, sentready |-> s.sentready, delivered |-> s.delivered,
           echos |-> s.echos, readys |-> s.readys, echoed |-> s.echoed, readied |-> s.readied]
    BY DEF Counted
<1> HIDE DEF s, echo, ready, own
<1>5. Cardinality({}) = 0 /\ \A x : Cardinality({x}) = 1
    <2>1. ASSUME NEW x
          PROVE  Cardinality({} \cup {x}) = 1
        <3>1. IsFiniteSet({}) /\ Cardinality({}) = 0
            BY FS_EmptySet
        <3>2. Cardinality({} \cup {x}) = IF x \in {} THEN Cardinality({}) ELSE Cardinality({}) + 1
            BY <3>1, FS_AddElement
        <3> QED
            BY <3>1, <3>2
    <2>2. \A x : {} \cup {x} = {x}
        OBVIOUS
    <2> QED
        BY <2>1, <2>2, FS_EmptySet
<1>6. s.echoed = Cardinality(s.echos \ {p}) /\ s.echoed \in Nat
    <2> DEFINE E == st[p].echos \ {p}
    <2>1. IsFiniteSet(E) /\ Cardinality(E) \in Nat /\ st[p].echoed = Cardinality(E)
        <3>1. E \in SUBSET EmIds
            BY <1>1 DEF States
        <3>2. IsFiniteSet(E)
            BY <3>1, Constants, FS_Subset
        <3> QED
            BY <1>1, <3>2, FS_CardinalityType DEF LocalInv
    <2>2. CASE t = "ECHO" /\ q \notin st[p].echos
        <3>1. s.echos \ {p} = E \cup {q} /\ q \notin E
            BY <1>2, <1>3, <2>2
        <3>2. Cardinality(E \cup {q}) = Cardinality(E) + 1
            BY <2>1, <3>1, FS_AddElement
        <3>3. echo \ st[p].echos = {q}
            BY <1>2, <2>2
        <3> QED
            <4>1. Cardinality(echo \ st[p].echos) = 1
                BY <1>5, <3>3
            <4>2. s.echoed = Cardinality(E) + 1
                BY <1>3, <2>1, <4>1
            <4> QED
                BY <2>1, <3>1, <3>2, <4>2
    <2>3. CASE ~ (t = "ECHO" /\ q \notin st[p].echos)
        <3>1. s.echos \ {p} = E
            BY <1>2, <1>3, <2>3
        <3>2. echo \ st[p].echos = {}
            BY <1>2, <2>3
        <3>3. s.echoed = st[p].echoed + 0
            BY <1>3, <1>5, <3>2
        <3> QED
            BY <2>1, <3>1, <3>3
    <2> QED
        BY <2>2, <2>3
<1>7. s.readied = IF p # 0 /\ 0 \in s.readys THEN 1 ELSE 0
    <2>1. CASE t = "SEND" /\ q \notin st[p].readys
        <3>1. ready \ st[p].readys = {q} /\ q = 0 /\ 0 \in s.readys
            BY <1>1, <1>2, <1>3, <2>1
        <3>2. s.readied = st[p].readied + 1
            BY <1>3, <1>5, <3>1
        <3> QED
            BY <1>1, <2>1, <3>1, <3>2 DEF LocalInv
    <2>2. CASE ~ (t = "SEND" /\ q \notin st[p].readys)
        <3>1. ready \ st[p].readys = {} /\ s.readys = st[p].readys
            BY <1>2, <1>3, <2>2
        <3>2. s.readied = st[p].readied + 0
            BY <1>3, <1>5, <3>1
        <3> QED
            BY <1>1, <3>1, <3>2 DEF LocalInv, States
    <2> QED
        BY <2>1, <2>2
<1>8. s \in States
    <2>1. s.echos \in SUBSET EmIds /\ s.readys \in SUBSET EmIds
        BY <1>1, <1>2, <1>3 DEF States
    <2>2. s.sentecho \in BOOLEAN /\ s.sentready \in BOOLEAN /\ s.delivered \in BOOLEAN
        BY <1>1, <1>3 DEF States
    <2>3. s.readied \in Nat
        BY <1>7
    <2> QED
        BY <1>4, <1>6, <2>1, <2>2, <2>3 DEF States
<1>9. s.echos \ {p} \subseteq {x \in EmIds : st[x].sentecho}
    BY <1>1, <1>2, <1>3 DEF LocalInv
<1>10. /\ s.delivered => s.sentready
       /\ s.sentready => s.sentecho
       /\ s.delivered => p # 0 /\ f = 0 /\ 0 \in s.readys
    BY <1>1, <1>3 DEF LocalInv
<1> QED
    BY <1>3, <1>6, <1>7, <1>8, <1>9, <1>10 DEF LocalInv, s

-----------------------------------------------------------------------------

LEMMA InitInv == Init => IInv
<1> SUFFICES ASSUME Init PROVE IInv
    OBVIOUS
<1>1. st \in [EmIds -> States]
    BY Constants DEF Init, States
<1>2. ASSUME NEW p \in EmIds
      PROVE  LocalInv(p, st[p])
    <2>1. st[p].echos \ {p} = {} /\ st[p].readys = {} /\ st[p].echoed = 0 /\ st[p].readied = 0
        BY DEF Init
    <2>2. ~ st[p].delivered /\ ~ st[p].sentready
        BY DEF Init
    <2> QED
        BY <2>1, <2>2, FS_EmptySet DEF LocalInv
<1>3. TrafficInv
    <2>1. conns = {} /\ out \in [EmIds -> {out[p] : p \in EmIds}]
        BY DEF Init, BaseInit
    <2>2. ASSUME NEW p \in EmIds
          PROVE  out[p] \in Seq([to : EmIds \ {p}, type : Kinds(p)])
        <3>1. CASE p = 0
            <4>1. "SEND" \in Kinds(0) /\ "ECHO" \in Kinds(0)
                BY Constants DEF Init, Kinds
            <4>2. /\ broadcast(0, "SEND") \in Seq([to : EmIds \ {0}, type : Kinds(0)])
                  /\ broadcast(0, "ECHO") \in Seq([to : EmIds \ {0}, type : Kinds(0)])
                BY <4>1, Constants, BroadcastSends
            <4>3. out[0] = broadcast(0, "SEND") \o broadcast(0, "ECHO")
                BY <3>1, Constants DEF Init
            <4> QED
                BY <3>1, <4>2, <4>3
        <3>2. CASE p # 0
            BY <3>2 DEF Init
        <3> QED
            BY <3>1, <3>2
    <2>3. ASSUME NEW p \in EmIds
          PROVE  out[p] \in Seq([to : EmIds, type : Types])
        <3> DEFINE A == [to : EmIds \ {p}, type : Kinds(p)]
                   B == [to : EmIds, type : Types]
        <3>1. A \subseteq B /\ out[p] \in Seq(A)
            BY <2>2 DEF Kinds
        <3> HIDE DEF A, B
        <3>2. out[p] \in Seq(B)
            BY <3>1, SeqMonotone
        <3> QED
            BY <3>2 DEF B
    <2> QED
        BY <2>1, <2>2, <2>3 DEF TrafficInv
<1> QED
    BY <1>1, <1>2, <1>3 DEF IInv

\* What a close leaves are connections there were, some without their message.
LEMMA CloseLeaves ==
    ASSUME TrafficInv, NEW p \in EmIds, NEW kept \in SUBSET conns, CloseSend(p, kept)
    PROVE  /\ conns' \in SUBSET Connections
           /\ \A c \in conns' : c.src # c.dst /\ c.type \in Kinds(c.src) \cup {Lost}
<1>1. CASE conns' = kept
    BY <1>1 DEF TrafficInv
<1>2. ASSUME NEW c \in Own(p), NEW d \in Remains(c), conns' = (kept \ {c}) \cup d
      PROVE  /\ conns' \in SUBSET Connections
             /\ \A e \in conns' : e.src # e.dst /\ e.type \in Kinds(e.src) \cup {Lost}
    <2>1. c \in Connections /\ c.src # c.dst /\ c.type \in Kinds(c.src) \cup {Lost}
        BY DEF TrafficInv, Own
    <2>2. ASSUME NEW e \in d
          PROVE  e \in Connections /\ e.src # e.dst /\ e.type \in Kinds(e.src) \cup {Lost}
        <3>1. PICK t \in {c.type, Lost} : e = [c EXCEPT !.open = FALSE, !.type = t]
            BY DEF Remains
        <3>2. e.src = c.src /\ e.dst = c.dst /\ e.type = t
            BY <2>1, <3>1 DEF Connections
        <3>3. e \in Connections
            BY <2>1, <3>1 DEF Connections
        <3> QED
            BY <2>1, <3>2, <3>3
    <2> QED
        BY <1>2, <2>2 DEF TrafficInv
<1> QED
    BY <1>1, <1>2 DEF CloseSend

LEMMA TransportInv ==
    ASSUME IInv, NEW p \in EmIds, Transport(p), UNCHANGED st
    PROVE  IInv'
<1>1. /\ st' \in [EmIds -> States]
      /\ \A q \in EmIds : LocalInv(q, st[q])'
      /\ \A q \in EmIds : Kinds(q)' = Kinds(q)
    BY DEF IInv, LocalInv, Kinds
<1>2. TrafficInv
    BY DEF IInv
<1> DEFINE ConnsOK == /\ conns' \in SUBSET Connections
                      /\ \A c \in conns' : c.src # c.dst /\ c.type \in Kinds(c.src) \cup {Lost}
           OutOK   == /\ out' \in [EmIds -> Seq([to : EmIds, type : Types])]
                      /\ \A q \in EmIds : out'[q] \in Seq([to : EmIds \ {q}, type : Kinds(q)])
<1>3. ASSUME ConnsOK, OutOK
      PROVE  IInv'
    <2>1. \A c \in conns' : c.src \in EmIds
        BY <1>3 DEF Connections
    <2>2. TrafficInv'
        BY <1>1, <1>3, <2>1 DEF TrafficInv, Connections
    <2> QED
        BY <1>1, <2>2 DEF IInv
<1>4. ASSUME out[p] # <<>>, out' = [out EXCEPT ![p] = Tail(@)]
      PROVE  OutOK
    <2>1. /\ Tail(out[p]) \in Seq([to : EmIds, type : Types])
          /\ Tail(out[p]) \in Seq([to : EmIds \ {p}, type : Kinds(p)])
        <3> DEFINE A == [to : EmIds \ {p}, type : Kinds(p)]
                   B == [to : EmIds, type : Types]
        <3>1. out[p] \in Seq(A) /\ out[p] \in Seq(B)
            BY <1>2 DEF TrafficInv
        <3> HIDE DEF A, B
        <3>2. Tail(out[p]) \in Seq(A) /\ Tail(out[p]) \in Seq(B)
            BY <1>4, <3>1, SeqParts
        <3> QED
            BY <3>2 DEF A, B
    <2> QED
        BY <1>2, <1>4, <2>1 DEF TrafficInv
<1>5. ASSUME conns' = conns
      PROVE  ConnsOK
    BY <1>2, <1>5 DEF TrafficInv
<1>6. ASSUME out' = out
      PROVE  OutOK
    BY <1>2, <1>6 DEF TrafficInv
<1> HIDE DEF ConnsOK, OutOK
<1>7. CASE ConnectAgain(p)
    <2>1. CloseSend(p, conns) /\ out[p] # <<>> /\ out' = [out EXCEPT ![p] = Tail(@)]
        BY <1>7 DEF ConnectAgain, Sending
    <2>2. ConnsOK
        BY <1>2, <2>1, CloseLeaves DEF ConnsOK
    <2> QED
        BY <1>3, <1>4, <2>1, <2>2
<1>8. CASE ConnectFails(p)
    BY <1>3, <1>4, <1>5, <1>8 DEF ConnectFails, Sending
<1>9. CASE ConnectAndSend(p)
    <2> DEFINE s == Head(out[p])
               c == [src |-> p, dst |-> s.to, type |-> s.type, accepted |-> FALSE, open |-> TRUE]
    <2>1. out[p] # <<>> /\ out' = [out EXCEPT ![p] = Tail(@)] /\ conns' = conns \cup {c}
        BY <1>9 DEF ConnectAndSend, Sending
    <2>2. s \in [to : EmIds \ {p}, type : Kinds(p)]
        <3> DEFINE A == [to : EmIds \ {p}, type : Kinds(p)]
        <3>1. out[p] \in Seq(A)
            BY <1>2 DEF TrafficInv
        <3> HIDE DEF A
        <3>2. Head(out[p]) \in A
            BY <2>1, <3>1, SeqParts
        <3> QED
            BY <3>2 DEF A
    <2>3. Kinds(p) \subseteq Types
        BY DEF Kinds
    <2>4. c \in Connections /\ c.src # c.dst /\ c.type \in Kinds(c.src) \cup {Lost}
        BY <2>2, <2>3 DEF Connections
    <2>5. ConnsOK
        BY <1>2, <2>1, <2>4 DEF ConnsOK, TrafficInv
    <2> QED
        BY <1>3, <1>4, <2>1, <2>5
<1>10. CASE Listen(p)
    BY <1>3, <1>5, <1>6, <1>10 DEF Listen
<1>11. CASE Accept(p)
    <2>1. PICK c \in conns : conns' = (conns \ {c}) \cup {[c EXCEPT !.accepted = TRUE]}
        BY <1>11 DEF Accept, Backlog
    <2>2. c \in Connections
        BY <1>2 DEF TrafficInv
    <2>3. [c EXCEPT !.accepted = TRUE] \in Connections
        BY <2>2 DEF Connections
    <2>4. /\ [c EXCEPT !.accepted = TRUE].src = c.src
          /\ [c EXCEPT !.accepted = TRUE].dst = c.dst
          /\ [c EXCEPT !.accepted = TRUE].type = c.type
        BY <2>2 DEF Connections
    <2>5. ConnsOK
        BY <1>2, <2>1, <2>3, <2>4 DEF ConnsOK, TrafficInv
    <2>6. out' = out
        BY <1>11 DEF Accept
    <2> QED
        BY <1>3, <1>6, <2>5, <2>6
<1>12. CASE RecvFails(p)
    <2>1. {c \in conns : c.dst # p} \in SUBSET conns
        OBVIOUS
    <2>2. CloseSend(p, {c \in conns : c.dst # p}) /\ out' = out
        BY <1>12 DEF RecvFails
    <2>3. ConnsOK
        BY <1>2, <2>1, <2>2, CloseLeaves DEF ConnsOK
    <2> QED
        BY <1>3, <1>6, <2>2, <2>3
<1> QED
    BY <1>7, <1>8, <1>9, <1>10, <1>11, <1>12 DEF Transport

\* A message that p receives leaves p in a state u, and p with more to send.
LEMMA MessageInv ==
    ASSUME IInv, NEW p \in EmIds, NEW mes \in [from : EmIds, type : Types],
           force_receive(p, mes),
           NEW u \in States, LocalInv(p, u),
           (st[p].sentecho \/ FirstSend(p, mes)) => u.sentecho,
           NEW T \in SUBSET Types, "SEND" \notin T, "ECHO" \in T => u.sentecho,
           NEW more \in Seq([to : EmIds \ {p}, type : T]),
           st' = [st EXCEPT ![p] = u],
           Answer(p, mes, more)
    PROVE  IInv'
<1>1. TrafficInv /\ st \in [EmIds -> States] /\ \A q \in EmIds : LocalInv(q, st[q])
    BY DEF IInv
<1>2. /\ st' \in [EmIds -> States]
      /\ st'[p] = u /\ \A q \in EmIds \ {p} : st'[q] = st[q]
      /\ \A q \in EmIds : st[q].sentecho => st'[q].sentecho
    BY <1>1
<1>3. ASSUME NEW q \in EmIds
      PROVE  LocalInv(q, st[q])'
    <2>1. CASE q = p
        BY <1>2, <2>1 DEF LocalInv
    <2>2. CASE q # p
        BY <1>1, <1>2, <2>2 DEF LocalInv
    <2> QED
        BY <2>1, <2>2
<1>4. \A q \in EmIds : Kinds(q) \subseteq Kinds(q)'
    BY <1>2 DEF Kinds
<1>5. /\ conns' \in SUBSET Connections
      /\ \A c \in conns' : c.src # c.dst /\ (c.type \in Kinds(c.src) \cup {Lost})'
    <2>1. conns' \in SUBSET conns
        BY DEF force_receive
    <2>2. \A c \in conns : c.src \in EmIds
        BY <1>1 DEF TrafficInv, Connections
    <2> QED
        BY <1>1, <1>4, <2>1, <2>2 DEF TrafficInv
<1> DEFINE A(q) == [to : EmIds \ {q}, type : Kinds(q)']
           B    == [to : EmIds, type : Types]
           first == IF FirstSend(p, mes) THEN broadcast(p, "ECHO") ELSE <<>>
<1>6. first \in Seq(A(p))
    <2>1. CASE FirstSend(p, mes)
        <3>1. "ECHO" \in Kinds(p)'
            BY <1>2, <2>1, Constants DEF Kinds
        <3> QED
            BY <2>1, <3>1, BroadcastSends
    <2>2. CASE ~ FirstSend(p, mes)
        BY <2>2
    <2> QED
        BY <2>1, <2>2
<1>7. more \in Seq(A(p))
    <2>1. T \subseteq Kinds(p)'
        BY <1>2, Constants DEF Kinds
    <2>2. [to : EmIds \ {p}, type : T] \subseteq A(p)
        BY <2>1
    <2> QED
        BY <2>2, SeqMonotone
<1>8. \A q \in EmIds : A(q) \subseteq B
    BY DEF Kinds
<1>9. ASSUME NEW q \in EmIds
      PROVE  out[q] \in Seq(A(q))
    <2> DEFINE C == [to : EmIds \ {q}, type : Kinds(q)]
    <2>1. out[q] \in Seq(C) /\ C \subseteq A(q)
        BY <1>1, <1>4 DEF TrafficInv
    <2> HIDE DEF C, A
    <2> QED
        BY <2>1, SeqMonotone
<1>10. out' = [out EXCEPT ![p] = first \o more]
    BY DEF Answer
<1>11. out \in [EmIds -> Seq(B)]
    BY <1>1 DEF TrafficInv
<1> HIDE DEF A, B, first
<1>12. first \o more \in Seq(A(p)) /\ first \o more \in Seq(B)
    <2>1. first \o more \in Seq(A(p))
        BY <1>6, <1>7
    <2> QED
        BY <1>8, <2>1, SeqMonotone
<1>13. /\ out' \in [EmIds -> Seq(B)]
       /\ \A q \in EmIds : out'[q] \in Seq(A(q))
    BY <1>9, <1>10, <1>11, <1>12
<1>14. TrafficInv'
    BY <1>5, <1>13 DEF TrafficInv, Connections, A, B
<1> QED
    BY <1>2, <1>3, <1>14 DEF IInv

\* The states that Echo and Ready leave, field by field.
LEMMA EchoSet ==
    ASSUME NEW s \in States, NEW b \in BOOLEAN, NEW x \in EmIds
    PROVE  [s EXCEPT !.sentecho = b, !.echos = @ \cup {x}] =
               [sentecho |-> b, sentready |-> s.sentready, delivered |-> s.delivered,
                echos |-> s.echos \cup {x}, readys |-> s.readys,
                echoed |-> s.echoed, readied |-> s.readied]
<1> DEFINE v == [s EXCEPT !.sentecho = b]
           w == [v EXCEPT !.echos = s.echos \cup {x}]
<1>1. v = [sentecho |-> b, sentready |-> s.sentready, delivered |-> s.delivered,
           echos |-> s.echos, readys |-> s.readys,
           echoed |-> s.echoed, readied |-> s.readied]
    BY DEF States
<1>2. v \in States
    BY <1>1 DEF States
<1>3. [s EXCEPT !.sentecho = b, !.echos = @ \cup {x}] = w
    OBVIOUS
<1> HIDE DEF v
<1> QED
    BY <1>1, <1>2, <1>3 DEF States

LEMMA ReadySet ==
    ASSUME NEW s \in States, NEW b \in BOOLEAN, NEW x \in EmIds
    PROVE  [s EXCEPT !.sentready = b, !.readys = @ \cup {x}] =
               [sentecho |-> s.sentecho, sentready |-> b, delivered |-> s.delivered,
                echos |-> s.echos, readys |-> s.readys \cup {x},
                echoed |-> s.echoed, readied |-> s.readied]
<1> DEFINE v == [s EXCEPT !.sentready = b]
           w == [v EXCEPT !.readys = s.readys \cup {x}]
<1>1. v = [sentecho |-> s.sentecho, sentready |-> b, delivered |-> s.delivered,
           echos |-> s.echos, readys |-> s.readys,
           echoed |-> s.echoed, readied |-> s.readied]
    BY DEF States
<1>2. v \in States
    BY <1>1 DEF States
<1>3. [s EXCEPT !.sentready = b, !.readys = @ \cup {x}] = w
    OBVIOUS
<1> HIDE DEF v
<1> QED
    BY <1>1, <1>2, <1>3 DEF States

LEMMA ProcessInv ==
    ASSUME IInv, NEW p \in EmIds, OnMessage(p)
    PROVE  IInv'
<1>1. PICK mes \in [from : EmIds, type : Types] :
          /\ force_receive(p, mes)
          /\ Echo(p, mes) \/ Ready(p, mes) \/ Deliver(p, mes)
    BY DEF OnMessage
<1> DEFINE s == Counted(p, mes)
<1>2. /\ s \in States /\ LocalInv(p, s)
      /\ (st[p].sentecho \/ FirstSend(p, mes)) => s.sentecho
    <2>1. PICK c \in conns : /\ c.dst = p /\ c.type # Lost
                             /\ mes = [from |-> c.src, type |-> c.type]
        BY <1>1 DEF force_receive, Accepted
    <2>2. /\ c.src \in EmIds /\ c.src # c.dst /\ c.type \in Kinds(c.src) \cup {Lost}
        BY DEF IInv, TrafficInv, Connections
    <2>3. c.src \in EmIds \ {p} /\ c.type \in Kinds(c.src)
        BY <2>1, <2>2
    <2> QED
        BY <2>1, <2>3, CountedInv
<1> HIDE DEF s
<1>3. CASE Echo(p, mes)
    <2> DEFINE u == [s EXCEPT !.sentecho = TRUE, !.echos = @ \cup {p}]
    <2>1. /\ st' = [st EXCEPT ![p] = u] /\ Answer(p, mes, broadcast(p, "ECHO"))
        BY <1>3 DEF Echo, s
    <2>2. /\ u = [sentecho |-> TRUE, sentready |-> s.sentready, delivered |-> s.delivered,
                  echos |-> s.echos \cup {p}, readys |-> s.readys,
                  echoed |-> s.echoed, readied |-> s.readied]
        BY <1>2, EchoSet
    <2> HIDE DEF u
    <2>3. u \in States
        BY <1>2, <2>2 DEF States
    <2>4. (s.echos \cup {p}) \ {p} = s.echos \ {p}
        OBVIOUS
    <2>5. LocalInv(p, u)
        BY <1>2, <2>2, <2>4 DEF LocalInv
    <2>6. broadcast(p, "ECHO") \in Seq([to : EmIds \ {p}, type : {"ECHO"}])
        BY BroadcastSends
    <2>7. u.sentecho /\ {"ECHO"} \in SUBSET Types /\ "SEND" \notin {"ECHO"}
        BY <2>2, Constants
    <2> HIDE DEF Answer
    <2> QED
        BY <1>1, <2>1, <2>3, <2>5, <2>6, <2>7, MessageInv
<1>4. CASE Ready(p, mes)
    <2> DEFINE u == [s EXCEPT !.sentready = TRUE, !.readys = @ \cup {p}]
    <2>1. /\ WantsReady(s)
          /\ st' = [st EXCEPT ![p] = u] /\ Answer(p, mes, broadcast(p, "READY"))
        BY <1>4 DEF Ready, s
    <2>2. /\ u = [sentecho |-> s.sentecho, sentready |-> TRUE, delivered |-> s.delivered,
                  echos |-> s.echos, readys |-> s.readys \cup {p},
                  echoed |-> s.echoed, readied |-> s.readied]
        BY <1>2, ReadySet
    <2> HIDE DEF u
    <2>3. u \in States
        BY <1>2, <2>2 DEF States
    <2>4. s.sentecho
        BY <2>1 DEF WantsReady
    <2>5. LocalInv(p, u)
        BY <1>2, <2>2, <2>4 DEF LocalInv
    <2>6. broadcast(p, "READY") \in Seq([to : EmIds \ {p}, type : {"READY"}])
        BY BroadcastSends
    <2>7. u.sentecho = s.sentecho /\ {"READY"} \in SUBSET Types
          /\ "SEND" \notin {"READY"} /\ "ECHO" \notin {"READY"}
        BY <2>2, Constants
    <2> QED
        BY <1>1, <1>2, <2>1, <2>3, <2>5, <2>6, <2>7, MessageInv
<1>5. CASE Deliver(p, mes)
    <2> DEFINE u == [s EXCEPT !.delivered = @ \/ Delivers(s)]
    <2>1. /\ ~ WantsEcho(s) /\ ~ WantsReady(s)
          /\ st' = [st EXCEPT ![p] = u] /\ Answer(p, mes, <<>>)
        BY <1>5 DEF Deliver, s
    <2>2. /\ u = [sentecho |-> s.sentecho, sentready |-> s.sentready,
                  delivered |-> s.delivered \/ Delivers(s),
                  echos |-> s.echos, readys |-> s.readys,
                  echoed |-> s.echoed, readied |-> s.readied]
        BY <1>2 DEF States
    <2> HIDE DEF u
    <2>3. u \in States
        BY <1>2, <2>2 DEF States
    <2>4. ASSUME Delivers(s)
          PROVE  s.sentready /\ p # 0 /\ f = 0 /\ 0 \in s.readys
        <3>1. s.readied > 2 * f /\ s.readied \in Nat
            BY <1>2, <2>4 DEF Delivers, States
        <3>2. s.readied = 1 /\ p # 0 /\ 0 \in s.readys /\ f = 0
            BY <1>2, <3>1, Constants DEF LocalInv
        <3>3. Reached(s)
            BY <3>2 DEF Reached
        <3> QED
            BY <2>1, <3>2, <3>3 DEF WantsEcho, WantsReady
    <2>5. LocalInv(p, u)
        BY <1>2, <2>2, <2>4 DEF LocalInv
    <2>6. <<>> \in Seq([to : EmIds \ {p}, type : {}])
        OBVIOUS
    <2>7. u.sentecho = s.sentecho
        BY <2>2
    <2> QED
        BY <1>1, <1>2, <2>1, <2>3, <2>5, <2>6, <2>7, MessageInv
<1> QED
    BY <1>1, <1>3, <1>4, <1>5

\* The inductive invariant: what processes have counted, and what is on its way
\* to them, agrees with the states that the senders are in.
THEOREM BroadcastInv == Spec => []IInv
<1>1. IInv /\ [Next]_vars => IInv'
    <2> SUFFICES ASSUME IInv, [Next]_vars PROVE IInv'
        OBVIOUS
    <2>1. CASE UNCHANGED vars
        BY <2>1 DEF vars, IInv, LocalInv, TrafficInv, Kinds
    <2>2. ASSUME NEW p \in EmIds, Process(p)
          PROVE  IInv'
        BY <2>2, ProcessInv, TransportInv DEF Process
    <2> QED
        BY <2>1, <2>2 DEF Next
<1> QED
    BY InitInv, <1>1, PTL DEF Spec

\* Echoes are counted once for each process that has sent one
\* (byzantine-reliable-broadcast.hpp:79-84).
THEOREM EchoesAreSentAlways == Spec => []EchoesAreSent
<1>1. IInv => EchoesAreSent
    BY DEF IInv, LocalInv, EchoesAreSent
<1> QED
    BY <1>1, BroadcastInv, PTL

\* The stages of the protocol come in order (byzantine-reliable-broadcast.hpp:100-134).
THEOREM StagesInOrderAlways == Spec => []StagesInOrder
<1>1. IInv => StagesInOrder
    BY DEF IInv, LocalInv, StagesInOrder
<1> QED
    BY <1>1, BroadcastInv, PTL

\* Nothing is delivered but to those that process 0 has reached itself, and
\* nothing at all with four or more processes (byzantine-reliable-broadcast.hpp:85).
THEOREM DeliveredFromSenderAlways == Spec => []DeliveredFromSender
<1>1. IInv => DeliveredFromSender
    BY DEF IInv, LocalInv, DeliveredFromSender
<1> QED
    BY <1>1, BroadcastInv, PTL

-----------------------------------------------------------------------------
(* Type correctness, which says of the sockets how many connections they have. *)

\* A process has one open connection at most, on its sending socket; one more may
\* wait in the backlog of a process than it has accepted.
SocketInv ==
    /\ fd \in [EmIds -> {"fresh", "connected"}]
    /\ rcv \in [EmIds -> {"bound", "listening", "exited"}]
    /\ \A c \in conns : c.open => fd[c.src] = "connected"
    /\ \A c, d \in conns : c.open /\ d.open /\ c.src = d.src => c = d
    /\ \A c, d \in conns : c.accepted = d.accepted /\ c.dst = d.dst => c = d

\* What the close of a socket leaves open is not of its process.
LEMMA CloseSockets ==
    ASSUME TrafficInv, SocketInv, NEW p \in EmIds, NEW kept \in SUBSET conns, CloseSend(p, kept)
    PROVE  /\ \A c \in conns' : c.open => c \in conns /\ c.src # p
           /\ \A c, d \in conns' : c.accepted = d.accepted /\ c.dst = d.dst => c = d
<1>1. CASE Own(p) = {} /\ conns' = kept
    BY <1>1 DEF Own, SocketInv
<1>2. ASSUME NEW c \in Own(p), NEW d \in Remains(c), conns' = (kept \ {c}) \cup d
      PROVE  /\ \A x \in conns' : x.open => x \in conns /\ x.src # p
             /\ \A x, y \in conns' : x.accepted = y.accepted /\ x.dst = y.dst => x = y
    <2>1. c \in conns /\ c.src = p /\ c.open /\ c \in Connections
        BY DEF TrafficInv, Own
    <2>2. ASSUME NEW e \in d
          PROVE  ~ e.open /\ e.accepted = c.accepted /\ e.dst = c.dst
        <3>1. PICK t \in {c.type, Lost} : e = [c EXCEPT !.open = FALSE, !.type = t]
            BY DEF Remains
        <3> QED
            BY <2>1, <3>1 DEF Connections
    <2>3. \A x, y \in d : x = y
        BY DEF Remains
    <2>4. ASSUME NEW x \in conns', x.open
          PROVE  x \in conns /\ x.src # p
        BY <1>2, <2>1, <2>2, <2>4 DEF SocketInv
    <2>5. ASSUME NEW x \in conns', NEW y \in conns', x.accepted = y.accepted, x.dst = y.dst
          PROVE  x = y
        BY <1>2, <2>1, <2>2, <2>3, <2>5 DEF SocketInv
    <2> QED
        BY <2>4, <2>5
<1> QED
    BY <1>1, <1>2 DEF CloseSend

LEMMA SocketStep ==
    ASSUME IInv, SocketInv, NEW p \in EmIds, Process(p)
    PROVE  SocketInv'
<1>1. TrafficInv /\ \A c \in conns : c \in Connections
    BY DEF IInv, TrafficInv
<1>2. CASE ConnectAgain(p)
    <2>1. /\ CloseSend(p, conns) /\ rcv' = rcv /\ fd' = [fd EXCEPT ![p] = "fresh"]
        BY <1>2 DEF ConnectAgain
    <2>2. /\ \A c \in conns' : c.open => c \in conns /\ c.src # p
          /\ \A c, d \in conns' : c.accepted = d.accepted /\ c.dst = d.dst => c = d
        BY <1>1, <2>1, CloseSockets
    <2> QED
        BY <1>1, <2>1, <2>2 DEF SocketInv, Connections
<1>3. CASE ConnectFails(p)
    BY <1>3 DEF ConnectFails, SocketInv
<1>4. CASE ConnectAndSend(p)
    <2> DEFINE s == Head(out[p])
               c == [src |-> p, dst |-> s.to, type |-> s.type, accepted |-> FALSE, open |-> TRUE]
    <2>1. /\ fd[p] = "fresh" /\ Backlog(s.to) = {} /\ conns' = conns \cup {c}
          /\ rcv' = rcv /\ fd' = [fd EXCEPT ![p] = "connected"]
        BY <1>4 DEF ConnectAndSend
    <2>2. /\ c.src = p /\ c.dst = s.to /\ c.open /\ c.accepted = FALSE
        OBVIOUS
    <2> HIDE DEF c, s
    <2>3. \A d \in conns : ~ (d.open /\ d.src = p)
        BY <2>1 DEF SocketInv
    <2>4. \A d \in conns : ~ (d.dst = s.to /\ d.accepted = FALSE)
        BY <2>1 DEF Backlog
    <2>5. fd' \in [EmIds -> {"fresh", "connected"}] /\ rcv' \in [EmIds -> {"bound", "listening", "exited"}]
        BY <2>1 DEF SocketInv
    <2>6. \A d \in conns' : d.open => fd'[d.src] = "connected"
        BY <1>1, <2>1, <2>2 DEF SocketInv, Connections
    <2>7. \A d, e \in conns' : d.open /\ e.open /\ d.src = e.src => d = e
        BY <2>1, <2>2, <2>3 DEF SocketInv
    <2>8. \A d, e \in conns' : d.accepted = e.accepted /\ d.dst = e.dst => d = e
        BY <2>1, <2>2, <2>4 DEF SocketInv
    <2> QED
        BY <2>5, <2>6, <2>7, <2>8 DEF SocketInv
<1>5. CASE Listen(p)
    BY <1>5 DEF Listen, SocketInv
<1>6. CASE Accept(p)
    <2>1. /\ Accepted(p) = {} /\ fd' = fd /\ rcv' = rcv
        BY <1>6 DEF Accept
    <2>2. PICK c \in Backlog(p) : conns' = (conns \ {c}) \cup {[c EXCEPT !.accepted = TRUE]}
        BY <1>6 DEF Accept
    <2> DEFINE a == [c EXCEPT !.accepted = TRUE]
    <2>3. c \in conns /\ c.dst = p
        BY DEF Backlog
    <2>4. a.src = c.src /\ a.dst = p /\ a.open = c.open /\ a.accepted = TRUE
        BY <1>1, <2>3 DEF Connections
    <2>5. conns' = (conns \ {c}) \cup {a}
        BY <2>2
    <2>6. \A d \in conns : ~ (d.dst = p /\ d.accepted)
        BY <2>1 DEF Accepted
    <2> HIDE DEF a
    <2>7. \A d \in conns' : d.open => fd'[d.src] = "connected"
        BY <2>1, <2>3, <2>4, <2>5 DEF SocketInv
    <2>8. \A d, e \in conns' : d.open /\ e.open /\ d.src = e.src => d = e
        BY <2>3, <2>4, <2>5 DEF SocketInv
    <2>9. \A d, e \in conns' : d.accepted = e.accepted /\ d.dst = e.dst => d = e
        BY <2>4, <2>5, <2>6 DEF SocketInv
    <2> QED
        BY <2>1, <2>7, <2>8, <2>9 DEF SocketInv
<1>7. CASE RecvFails(p)
    <2>1. CloseSend(p, {c \in conns : c.dst # p}) /\ fd' = fd /\ rcv' = [rcv EXCEPT ![p] = "exited"]
        BY <1>7 DEF RecvFails
    <2>2. /\ \A c \in conns' : c.open => c \in conns /\ c.src # p
          /\ \A c, d \in conns' : c.accepted = d.accepted /\ c.dst = d.dst => c = d
        <3>1. {c \in conns : c.dst # p} \in SUBSET conns
            OBVIOUS
        <3> QED
            BY <1>1, <2>1, <3>1, CloseSockets
    <2> QED
        BY <2>1, <2>2 DEF SocketInv
<1>8. CASE OnMessage(p)
    <2>1. conns' \in SUBSET conns /\ fd' = fd /\ rcv' = rcv
        BY <1>8 DEF OnMessage, force_receive
    <2> QED
        BY <2>1 DEF SocketInv
<1> QED
    BY <1>2, <1>3, <1>4, <1>5, <1>6, <1>7, <1>8 DEF Process, Transport

LEMMA AtMostOne ==
    ASSUME NEW S, \A x, y \in S : x = y
    PROVE  Cardinality(S) <= 1
<1>1. CASE S = {}
    BY <1>1, FS_EmptySet
<1>2. ASSUME NEW x \in S
      PROVE  Cardinality(S) <= 1
    <2>1. S = {x}
        BY <1>2
    <2> QED
        BY <2>1, FS_Singleton
<1> QED
    BY <1>1, <1>2

\* A process counts the echoes of others only, and one SEND at most.
LEMMA CountsBounded ==
    ASSUME IInv, NEW p \in EmIds
    PROVE  st[p].echoed \in 0 .. procs - 1 /\ st[p].readied \in 0 .. procs - 1
<1>1. st[p] \in States /\ LocalInv(p, st[p])
    BY DEF IInv
<1>2. IsFiniteSet(EmIds) /\ Cardinality(EmIds) = procs
    BY Constants, FS_Interval DEF EmIds
<1>3. IsFiniteSet(EmIds \ {p}) /\ Cardinality(EmIds \ {p}) = procs - 1
    BY <1>2, FS_RemoveElement
<1>4. st[p].echos \ {p} \in SUBSET (EmIds \ {p})
    BY <1>1 DEF States
<1>5. Cardinality(st[p].echos \ {p}) <= procs - 1
    BY <1>3, <1>4, FS_Subset
<1>6. st[p].echoed \in 0 .. procs - 1
    BY <1>1, <1>5, Constants DEF LocalInv, States
<1>7. p # 0 => procs - 1 >= 1
    BY Constants DEF EmIds
<1>8. st[p].readied \in 0 .. procs - 1
    BY <1>1, <1>7, Constants DEF LocalInv
<1> QED
    BY <1>6, <1>8

\* The state of every process is one of the source, a socket has one connection
\* at most and its backlog one more (broadcast and force_receive).
THEOREM BroadcastTypeCorrect == Spec => []TypeOK
<1>1. Init => SocketInv
    BY DEF Init, BaseInit, SocketInv
<1>2. IInv /\ SocketInv /\ [Next]_vars => SocketInv'
    <2>1. ASSUME SocketInv, UNCHANGED vars
          PROVE  SocketInv'
        BY <2>1 DEF vars, SocketInv
    <2> QED
        BY <2>1, SocketStep DEF Next
<1>3. IInv /\ SocketInv => TypeOK
    <2> SUFFICES ASSUME IInv, SocketInv PROVE TypeOK
        OBVIOUS
    <2>1. ASSUME NEW p \in EmIds
          PROVE  /\ Cardinality(Own(p)) <= 1
                 /\ Cardinality(Accepted(p)) <= 1 /\ Cardinality(Backlog(p)) <= 1
        <3>1. \A x, y \in Own(p) : x = y
            BY DEF SocketInv, Own
        <3>2. \A x, y \in Accepted(p) : x = y
            BY DEF SocketInv, Accepted, IInv, TrafficInv, Connections
        <3>3. \A x, y \in Backlog(p) : x = y
            BY DEF SocketInv, Backlog, IInv, TrafficInv, Connections
        <3> QED
            BY <3>1, <3>2, <3>3, AtMostOne
    <2>2. ASSUME NEW p \in EmIds
          PROVE  /\ st[p].sentecho \in BOOLEAN /\ st[p].sentready \in BOOLEAN
                 /\ st[p].delivered \in BOOLEAN
                 /\ st[p].echos \subseteq EmIds /\ st[p].readys \subseteq EmIds
        BY DEF IInv, States
    <2>3. conns \subseteq Connections
        BY DEF IInv, TrafficInv
    <2>4. ASSUME NEW p \in EmIds
          PROVE  /\ fd[p] \in {"fresh", "connected"}
                 /\ rcv[p] \in {"bound", "listening", "exited"}
                 /\ out[p] \in Seq([to : EmIds, type : Types])
        BY DEF IInv, TrafficInv, SocketInv
    <2> QED
        BY <2>1, <2>2, <2>3, <2>4, CountsBounded DEF TypeOK, Connections
<1> QED
    BY <1>1, <1>2, <1>3, BroadcastInv, PTL DEF Spec
=============================================================================
