---------------------------- MODULE TCPpeerProofs ----------------------------
(***************************************************************************)
(* What holds of the exchange between peers for every number of peers,     *)
(* every file and every size of the chunks, with names that clash and      *)
(* sends that are cut short: the message is never in two places.           *)
(*                                                                         *)
(* send_tcp and receive_tcp know nothing of each other's retries.  That    *)
(* none of them doubles the message is because the receiver cannot have    *)
(* the whole file while the sender has some of it to send, on whatever     *)
(* connection: a transfer that is given up leaves a connection that never  *)
(* brings the whole file, and a transfer begun behind it is lost with it.  *)
(***************************************************************************)
EXTENDS TCPpeer, SequenceTheorems, FiniteSetTheorems, TLAPS

Sizes == 0 .. Len(File)

\* What each variable holds.
SndType == [pc : {"idle", "connect", "length", "open", "file", "dead"}, to : EmIds, name : Names,
            fd : {"fresh", "connected", "failed"}, toSend : Sizes, fileSize : Sizes,
            position : Sizes, totalSent : Sizes]
RcvType == [pc : {"listen", "accept", "length", "file", "dead"}, listening : BOOLEAN,
            name : Names, expected : Sizes, got : Sizes]
Connections == [src : EmIds, dst : EmIds, accepted : BOOLEAN, open : BOOLEAN, bytes : Seq(Int)]

TypeInv ==
    /\ stack \in [EmIds -> Seq(Message)]
    /\ snd \in [EmIds -> SndType]
    /\ rcv \in [EmIds -> RcvType]
    /\ \A q \in EmIds : rcv[q].name \in NamesOf[q]
    /\ conns \subseteq Connections
    /\ files \in [Names -> Seq(Nat)]
    /\ \A n \in Names : Len(files[n]) <= Len(File)
    /\ short \in BOOLEAN
    /\ \A p \in EmIds : snd[p].pc \in {"connect", "length"} => snd[p].totalSent = 0

\* One socket has one connection, and all connections are from one peer to one
\* other.  Of two the older one, which is accepted, has been closed.
SocketInv ==
    /\ \A c \in conns : c.open => snd[c.src].fd = "connected"
                                  /\ snd[c.src].pc \in {"length", "open", "file", "idle"}
    /\ \A c \in conns : c.accepted => rcv[c.dst].pc \in {"length", "file"}
    /\ \A q \in EmIds : rcv[q].pc \in {"length", "file"} => Accepted(q) # {}
    /\ \A c, d \in conns : /\ c.src = d.src /\ c.dst = d.dst
                           /\ c.accepted = d.accepted => c = d
                           /\ c # d /\ c.accepted => ~ c.open

\* A peer that has a message to send and has not sent all of it.
Busy(p) ==
    \/ snd[p].pc \in {"connect", "length", "open"}
    \/ snd[p].pc = "file" /\ (InFile(p) \/ snd[p].totalSent # snd[p].toSend)

\* The message is in one place: a stack, a sending thread, or the connections.
TokenInv ==
    /\ \A p \in EmIds : Len(stack[p]) <= 1
    /\ \A p \in EmIds : stack[p] # <<>> =>
           /\ conns = {}
           /\ \A q \in EmIds : ~ Busy(q) /\ (stack[q] # <<>> => p = q)
    /\ \A p \in EmIds : Busy(p) =>
           /\ \A q \in EmIds : Busy(q) => p = q
           /\ \A c \in conns : c.src = p /\ c.dst = snd[p].to

\* What a connection carries: the length, until recvFile has it, and data.
InRecv(c) == c.accepted /\ rcv[c.dst].pc = "file"
HasLength(c) == InRecv(c) \/ c.bytes # <<>>
Expected(c) == IF InRecv(c) THEN rcv[c.dst].expected ELSE - c.bytes[1]
Total(c) == IF InRecv(c) THEN rcv[c.dst].got + Len(c.bytes) ELSE Len(c.bytes) - 1

\* send_tcp sends the length first.
Started(c) ==
    /\ snd[c.src].pc = "length" => ~ HasLength(c)
    /\ snd[c.src].pc \in {"open", "file"} => HasLength(c)

\* Numbers of a file, behind its length if they are headed by it.
Items(bytes, headed) ==
    \A i \in 1 .. Len(bytes) :
        IF i = 1 /\ headed THEN - bytes[i] \in 1 .. Len(File) ELSE bytes[i] \in Nat

ItemsInv ==
    /\ \A c \in conns : c.open => Started(c)
    /\ \A c \in conns : Items(c.bytes, ~ InRecv(c))
    /\ \A q \in EmIds : rcv[q].pc = "file" => Len(files[rcv[q].name]) = rcv[q].got

\* A connection that is not behind one that has been closed.
Live(c) == c.accepted \/ conns = {c}

\* As long as sendFile has not sent all, the receiver does not have all.
OpenFlow(c) ==
    LET s == snd[c.src]
    IN  /\ s.pc \in {"open", "file"} =>
               /\ Expected(c) = s.toSend /\ Total(c) = s.totalSent
               /\ s.totalSent <= s.toSend /\ Len(files[s.name]) <= s.toSend
        /\ s.pc = "open" => s.totalSent < s.toSend
        /\ s.pc = "file" => s.fileSize <= s.toSend
        /\ s.pc = "idle" /\ HasLength(c) => Total(c) = Expected(c)

\* A connection that sendFile has given up never brings the whole file.
ClosedFlow(c) == HasLength(c) /\ Total(c) < Expected(c)

FlowInv == \A c \in conns : Live(c) => IF c.open THEN OpenFlow(c) ELSE ClosedFlow(c)

IInv == TypeInv /\ SocketInv /\ TokenInv /\ ItemsInv /\ FlowInv
-----------------------------------------------------------------------------
(* Constants, types, and the sets of connections.                          *)

LEMMA Parameters ==
    /\ 0 \in EmIds /\ 1 \in EmIds
    /\ File \in Seq(Nat) /\ Len(File) \in Nat /\ Len(File) > 0
    /\ Original \in Names /\ \A q \in EmIds : NamesOf[q] \subseteq Names /\ NamesOf[q] # {}
    /\ SendChunk \in Nat /\ SendChunk > 0 /\ RecvChunk \in Nat /\ RecvChunk > 0
<1>1. procs \in Nat /\ procs >= 2 /\ File \in Seq(Nat) /\ File # <<>>
  BY HelperAssumption
<1>2. 0 \in EmIds /\ 1 \in EmIds
  BY <1>1 DEF EmIds
<1>3. Len(File) \in Nat /\ Len(File) > 0
  BY <1>1, EmptySeq
<1>4. Original \in Names /\ \A q \in EmIds : NamesOf[q] \subseteq Names /\ NamesOf[q] # {}
  BY HelperAssumption DEF Names
<1> QED  BY <1>1, <1>2, <1>3, <1>4, HelperAssumption

LEMMA MinOfTwo ==
    ASSUME NEW a \in Int, NEW b \in Int
    PROVE  Min({a, b}) \in {a, b} /\ Min({a, b}) <= a /\ Min({a, b}) <= b
<1>1. \E x \in {a, b} : \A y \in {a, b} : x <= y
  BY DEF Min
<1> QED  BY <1>1 DEF Min

\* The locals of a thread.
LEMMA Locals ==
    ASSUME TypeInv, NEW p \in EmIds
    PROVE  /\ snd[p] \in SndType /\ rcv[p] \in RcvType
           /\ snd[p].toSend \in Nat /\ snd[p].fileSize \in Nat
           /\ snd[p].position \in Nat /\ snd[p].totalSent \in Nat
           /\ snd[p].toSend <= Len(File) /\ snd[p].fileSize <= Len(File)
           /\ snd[p].position <= Len(File) /\ snd[p].totalSent <= Len(File)
           /\ rcv[p].expected \in Nat /\ rcv[p].got \in Nat
           /\ snd[p].to \in EmIds /\ snd[p].name \in Names /\ rcv[p].name \in Names
           /\ files[snd[p].name] \in Seq(Nat) /\ Len(files[snd[p].name]) \in Nat
           /\ files[rcv[p].name] \in Seq(Nat) /\ Len(files[rcv[p].name]) \in Nat
           /\ Len(files[snd[p].name]) <= Len(File)
<1>1. snd[p] \in SndType /\ rcv[p] \in RcvType /\ Len(File) \in Nat
  BY Parameters DEF TypeInv
<1>2. snd[p].name \in Names /\ rcv[p].name \in Names
  BY <1>1 DEF SndType, RcvType
<1>3. files[snd[p].name] \in Seq(Nat) /\ files[rcv[p].name] \in Seq(Nat)
      /\ Len(files[snd[p].name]) <= Len(File)
  BY <1>2 DEF TypeInv
<1> QED  BY <1>1, <1>2, <1>3, SMTT(30) DEF SndType, RcvType, Sizes

LEMMA ConnectionFields ==
    ASSUME TypeInv, NEW c \in conns
    PROVE  /\ c \in Connections /\ c.src \in EmIds /\ c.dst \in EmIds
           /\ c.accepted \in BOOLEAN /\ c.open \in BOOLEAN
           /\ c.bytes \in Seq(Int) /\ Len(c.bytes) \in Nat
BY DEF TypeInv, Connections

\* One connection is open at most; one is accepted at most.
LEMMA OneOpen ==
    ASSUME TypeInv, SocketInv, NEW c \in conns, c.open
    PROVE  /\ \A d \in conns : d.open => d = c
           /\ Own(c.src) = {c}
           /\ c.accepted => conns = {c}
<1>1. ASSUME NEW d \in conns, d # c
      PROVE  ~ d.open /\ ~ c.accepted
  <2>1. c.accepted # d.accepted /\ (c.accepted => ~ c.open) /\ (d.accepted => ~ d.open)
    BY <1>1 DEF SocketInv
  <2> QED  BY <1>1, <2>1, ConnectionFields
<1> QED  BY <1>1 DEF Own

LEMMA OneAccepted ==
    ASSUME TypeInv, SocketInv, NEW q \in EmIds, NEW c \in Accepted(q)
    PROVE  Accepted(q) = {c} /\ c \in conns /\ c.dst = q /\ c.accepted
           /\ \A d \in conns : d.accepted => d = c
<1>1. c \in conns /\ c.dst = q /\ c.accepted
  BY DEF Accepted
<1>2. \A d \in conns : d.accepted => d = c
  BY <1>1, ConnectionFields DEF SocketInv
<1> QED  BY <1>1, <1>2 DEF Accepted

\* send adds to the one open connection.
LEMMA Sent ==
    ASSUME TypeInv, SocketInv, NEW p \in EmIds, NEW bytes, Send(p, bytes)
    PROVE  \/ Own(p) = {} /\ conns' = conns
           \/ \E c \in Own(p) : Replace(c, [c EXCEPT !.bytes = c.bytes \o bytes])
<1>1. CASE Own(p) = {}
  BY <1>1 DEF Send
<1>2. ASSUME NEW c \in Own(p)
      PROVE  Replace(c, [c EXCEPT !.bytes = c.bytes \o bytes])
  <2>1. Own(p) = {c}
    BY OneOpen DEF Own
  <2> QED  BY <2>1 DEF Send, Replace
<1> QED  BY <1>1, <1>2

\* One connection takes the place of another.
LEMMA Replaced ==
    ASSUME TypeInv, SocketInv, NEW c \in conns, NEW d \in Connections, Replace(c, d),
           d.src = c.src, d.dst = c.dst, d.accepted = c.accepted, d.open => c.open
    PROVE  /\ conns' \subseteq Connections /\ d \in conns'
           /\ \A e \in conns' : e # d => e \in conns /\ e # c /\ (Live(e)' => Live(e))
           /\ Live(d)' => Live(c)
           /\ \A e, f \in conns' : /\ e.src = f.src /\ e.dst = f.dst
                                   /\ e.accepted = f.accepted => e = f
                                   /\ e # f /\ e.accepted => ~ e.open
           /\ \A q \in EmIds : Accepted(q) # {} => Accepted(q)' # {}
<1>1. conns' = (conns \ {c}) \cup {d}
  BY DEF Replace
<1>2. ASSUME NEW e \in conns, e # c
      PROVE  /\ e.src = d.src /\ e.dst = d.dst /\ e.accepted # d.accepted
             /\ e.accepted => ~ e.open
             /\ d.accepted => ~ d.open
  <2>1. /\ e.src = c.src /\ e.dst = c.dst /\ e.accepted # c.accepted
        /\ (e.accepted => ~ e.open) /\ (c.accepted => ~ c.open)
    BY <1>2 DEF SocketInv
  <2> QED  BY <2>1
<1>3. d \in conns' /\ conns' \subseteq Connections
  BY <1>1 DEF TypeInv
<1>4. ASSUME NEW e \in conns', e # d
      PROVE  e \in conns /\ e # c /\ (Live(e)' => Live(e))
  <2>1. e \in conns /\ e # c /\ conns' # {e}
    BY <1>1, <1>4
  <2> QED  BY <2>1 DEF Live
<1>5. Live(d)' => Live(c)
  <2> SUFFICES ASSUME conns' = {d}, ~ c.accepted PROVE conns = {c}
    BY DEF Live
  <2>1. \A e \in conns : e = c
    BY <1>1, <1>2
  <2> QED  BY <2>1
<1>6. ASSUME NEW e \in conns', NEW f \in conns'
      PROVE  /\ e.src = f.src /\ e.dst = f.dst
             /\ e.accepted = f.accepted => e = f
             /\ e # f /\ e.accepted => ~ e.open
  <2>1. CASE e = d /\ f = d
    BY <2>1
  <2>2. CASE e = d /\ f # d
    BY <1>2, <1>4, <2>2
  <2>3. CASE e # d /\ f = d
    BY <1>2, <1>4, <2>3
  <2>4. CASE e # d /\ f # d
    BY <1>4, <2>4 DEF SocketInv
  <2> QED  BY <2>1, <2>2, <2>3, <2>4
<1>7. ASSUME NEW q \in EmIds, Accepted(q) # {}
      PROVE  Accepted(q)' # {}
  <2>1. PICK e \in conns : e.dst = q /\ e.accepted
    BY <1>7 DEF Accepted
  <2>2. CASE e = c
    BY <1>3, <2>1, <2>2 DEF Accepted
  <2>3. CASE e # c
    BY <1>1, <2>1, <2>3 DEF Accepted
  <2> QED  BY <2>2, <2>3
<1> QED  BY <1>3, <1>4, <1>5, <1>6, <1>7

-----------------------------------------------------------------------------
(* What a step leaves alone.                                               *)

LEMMA BusyFrame ==
    ASSUME NEW p \in EmIds, snd'[p] = snd[p]
    PROVE  Busy(p)' = Busy(p)
BY DEF Busy, InFile

\* A step that begins no sending and makes no connection.
LEMMA TokenFrame ==
    ASSUME TokenInv, stack' = stack,
           \A p \in EmIds : Busy(p)' => Busy(p) /\ snd'[p].to = snd[p].to,
           \A c \in conns' : \E d \in conns : c.src = d.src /\ c.dst = d.dst
    PROVE  TokenInv'
<1>1. ASSUME NEW p \in EmIds, stack[p] # <<>>
      PROVE  conns' = {} /\ \A q \in EmIds : ~ Busy(q)' /\ (stack[q] # <<>> => p = q)
  <2>1. conns = {} /\ \A q \in EmIds : ~ Busy(q) /\ (stack[q] # <<>> => p = q)
    BY <1>1 DEF TokenInv
  <2> QED  BY <2>1
<1>2. ASSUME NEW p \in EmIds, Busy(p)'
      PROVE  /\ \A q \in EmIds : Busy(q)' => p = q
             /\ \A c \in conns' : c.src = p /\ c.dst = snd'[p].to
  <2>1. /\ \A q \in EmIds : Busy(q) => p = q
        /\ \A c \in conns : c.src = p /\ c.dst = snd[p].to
        /\ snd'[p].to = snd[p].to
    BY <1>2 DEF TokenInv
  <2> QED  BY <2>1
<1>3. \A p \in EmIds : Len(stack[p]) <= 1
  BY DEF TokenInv
<1> QED  BY <1>1, <1>2, <1>3 DEF TokenInv

\* A connection looks the same if its receiver is where it was.
LEMMA CarriesFrame ==
    ASSUME NEW c, c.accepted => rcv'[c.dst] = rcv[c.dst]
    PROVE  /\ InRecv(c)' = InRecv(c) /\ HasLength(c)' = HasLength(c)
           /\ Expected(c)' = Expected(c) /\ Total(c)' = Total(c)
           /\ ClosedFlow(c)' = ClosedFlow(c)
BY DEF InRecv, HasLength, Expected, Total, ClosedFlow

LEMMA OpenFrame ==
    ASSUME NEW c, c.accepted => rcv'[c.dst] = rcv[c.dst], snd'[c.src] = snd[c.src]
    PROVE  /\ Started(c)' = Started(c)
           /\ files' = files => OpenFlow(c)' = OpenFlow(c)
<1>1. Started(c)' = Started(c)
  BY CarriesFrame DEF Started
<1>2. ASSUME files' = files
      PROVE  OpenFlow(c)' = OpenFlow(c)
  BY <1>2, CarriesFrame DEF OpenFlow
<1> QED  BY <1>1, <1>2

\* A step of the sending thread alone.
LEMMA SenderFrame ==
    ASSUME TypeInv, ItemsInv, FlowInv, UNCHANGED <<rcv, conns, files>>, NEW p \in EmIds,
           \A q \in EmIds \ {p} : snd'[q] = snd[q],
           \A c \in conns : c.src = p /\ c.open => Started(c)' /\ (Live(c) => OpenFlow(c)')
    PROVE  ItemsInv' /\ FlowInv'
<1>1. ItemsInv'
  <2>1. ASSUME NEW c \in conns, c.open
        PROVE  Started(c)'
    <3>1. CASE c.src = p
      BY <2>1, <3>1
    <3>2. CASE c.src # p
      BY <2>1, <3>2, OpenFrame, ConnectionFields DEF Items, ItemsInv
    <3> QED  BY <3>1, <3>2
  <2> QED  BY <2>1 DEF Items, ItemsInv, InRecv
<1>2. ASSUME NEW c \in conns, Live(c)'
      PROVE  IF c.open THEN OpenFlow(c)' ELSE ClosedFlow(c)'
  <2>1. Live(c) /\ c.src \in EmIds
    BY <1>2, ConnectionFields DEF Live
  <2>2. CASE ~ c.open
    BY <2>1, <2>2, CarriesFrame DEF FlowInv
  <2>3. CASE c.open /\ c.src = p
    BY <2>1, <2>3
  <2>4. CASE c.open /\ c.src # p
    <3>1. OpenFlow(c)' = OpenFlow(c)
      BY <2>1, <2>4, OpenFrame
    <3> QED  BY <2>1, <2>4, <3>1 DEF FlowInv
  <2> QED  BY <2>2, <2>3, <2>4
<1>3. FlowInv'
  BY <1>2 DEF FlowInv
<1> QED  BY <1>1, <1>3

\* A step of the sending thread that leaves the connections as they are.
LEMMA LocalStep ==
    ASSUME IInv, NEW p \in EmIds, NEW s \in SndType, snd' = [snd EXCEPT ![p] = s],
           UNCHANGED <<rcv, conns, files, stack>>, short' \in BOOLEAN,
           Busy(p)' => Busy(p) /\ s.to = snd[p].to,
           s.pc \in {"connect", "length"} => s.totalSent = 0,
           Own(p) # {} => s.fd = "connected" /\ s.pc \in {"length", "open", "file", "idle"},
           \A c \in conns : c.src = p /\ c.open => Started(c)' /\ (Live(c) => OpenFlow(c)')
    PROVE  IInv'
<1>1. TypeInv /\ SocketInv /\ TokenInv /\ ItemsInv /\ FlowInv
  BY DEF IInv
<1>2. /\ snd'[p] = s /\ \A q \in EmIds \ {p} : snd'[q] = snd[q]
      /\ snd' \in [EmIds -> SndType]
  BY <1>1 DEF TypeInv
<1>3. TypeInv'
  BY <1>1, <1>2 DEF TypeInv
<1>4. SocketInv'
  <2>1. ASSUME NEW c \in conns, c.open
        PROVE  snd'[c.src].fd = "connected" /\ snd'[c.src].pc \in {"length", "open", "file", "idle"}
    <3>1. CASE c.src = p
      BY <1>2, <2>1, <3>1 DEF Own
    <3>2. CASE c.src # p
      BY <1>1, <1>2, <2>1, <3>2, ConnectionFields DEF SocketInv
    <3> QED  BY <3>1, <3>2
  <2> QED  BY <1>1, <2>1 DEF SocketInv, Accepted
<1>5. TokenInv'
  <2>1. \A q \in EmIds : Busy(q)' => Busy(q) /\ snd'[q].to = snd[q].to
    BY <1>2, BusyFrame
  <2> QED  BY <1>1, <2>1, TokenFrame
<1>6. ItemsInv' /\ FlowInv'
  BY <1>1, <1>2, SenderFrame
<1> QED  BY <1>3, <1>4, <1>5, <1>6 DEF IInv

\* What is known of the connection p sends on.
LEMMA OpenFacts ==
    ASSUME IInv, NEW c \in conns, c.open
    PROVE  /\ snd[c.src].fd = "connected" /\ snd[c.src].pc \in {"length", "open", "file", "idle"}
           /\ Started(c) /\ (Live(c) => OpenFlow(c))
BY DEF Items, IInv, SocketInv, ItemsInv, FlowInv

-----------------------------------------------------------------------------
(* The steps of the sending thread.                                        *)

LEMMA ConnectAgainStep ==
    ASSUME IInv, NEW p \in EmIds, ConnectAgain(p), stack' = stack PROVE IInv'
<1> DEFINE s == [snd[p] EXCEPT !.pc = "connect", !.fd = "fresh", !.totalSent = 0]
<1>1. TypeInv
  BY DEF IInv
<1>2. s \in SndType /\ s.to = snd[p].to /\ s.totalSent = 0
  <2>1. snd[p] \in SndType /\ 0 \in Sizes
    BY <1>1, Locals, Parameters DEF Sizes
  <2> QED  BY <2>1 DEF SndType
<1>3. Own(p) = {}
  BY OpenFacts DEF Own, ConnectAgain
<1>4. snd' = [snd EXCEPT ![p] = s] /\ UNCHANGED <<rcv, conns, files, short>>
  BY <1>1, <1>3 DEF ConnectAgain, CloseSend, TypeInv
<1>5. snd'[p] = s
  BY <1>1, <1>4 DEF TypeInv
<1>6. Busy(p)
  BY DEF Busy, ConnectAgain
<1>7. \A c \in conns : c.src = p /\ c.open => FALSE
  BY <1>3 DEF Own
<1> HIDE DEF s
<1> QED  BY <1>1, <1>2, <1>3, <1>4, <1>6, <1>7, LocalStep DEF TypeInv

LEMMA SendEmptyStep ==
    ASSUME IInv, NEW p \in EmIds, SendEmpty(p), stack' = stack PROVE IInv'
<1> DEFINE s == [snd[p] EXCEPT !.pc = "idle"]
<1>1. TypeInv
  BY DEF IInv
<1>2. s \in SndType /\ s.pc = "idle" /\ s.fd = snd[p].fd
  <2>1. snd[p] \in SndType
    BY <1>1, Locals
  <2> QED  BY <2>1 DEF SndType
<1>3. snd' = [snd EXCEPT ![p] = s] /\ UNCHANGED <<rcv, conns, files, short>>
  BY <1>1 DEF SendEmpty, TypeInv
<1>4. snd'[p] = s /\ snd[p].pc = "length"
  BY <1>1, <1>3 DEF TypeInv, SendEmpty
<1>5. ~ Busy(p)'
  BY <1>2, <1>4 DEF Busy, InFile
<1>6. Own(p) # {} => s.fd = "connected"
  BY <1>2, OpenFacts DEF Own
<1>7. ASSUME NEW c \in conns, c.src = p, c.open
      PROVE  Started(c)' /\ OpenFlow(c)'
  <2>1. ~ HasLength(c) /\ ~ HasLength(c)'
    BY <1>3, <1>4, <1>7, OpenFacts, CarriesFrame DEF Started
  <2> QED  BY <1>2, <1>4, <1>7, <2>1 DEF OpenFlow, Started
<1> HIDE DEF s
<1> QED  BY <1>1, <1>2, <1>3, <1>5, <1>6, <1>7, LocalStep DEF TypeInv

LEMMA OpenFileStep ==
    ASSUME IInv, NEW p \in EmIds, OpenFile(p), stack' = stack PROVE IInv'
<1> DEFINE size == Len(files[snd[p].name])
           s == [snd[p] EXCEPT !.pc = "file", !.fileSize = size, !.position = snd[p].totalSent]
<1>1. TypeInv
  BY DEF IInv
<1>2. snd[p] \in SndType /\ size \in Sizes /\ snd[p].totalSent \in Sizes
  BY <1>1, Locals, Parameters DEF Sizes
<1>3. /\ s \in SndType /\ s.pc = "file" /\ s.fd = snd[p].fd /\ s.to = snd[p].to
      /\ s.fileSize = size /\ s.toSend = snd[p].toSend /\ s.totalSent = snd[p].totalSent
      /\ s.name = snd[p].name
  BY <1>2 DEF SndType
<1>4. snd' = [snd EXCEPT ![p] = s] /\ UNCHANGED <<rcv, conns, files, short>> /\ snd[p].pc = "open"
  BY <1>1 DEF OpenFile, TypeInv
<1>5. snd'[p] = s
  BY <1>1, <1>4 DEF TypeInv
<1>6. Busy(p)
  BY <1>4 DEF Busy
<1>7. Own(p) # {} => s.fd = "connected"
  BY <1>3, OpenFacts DEF Own
<1>8. ASSUME NEW c \in conns, c.src = p, c.open
      PROVE  Started(c)' /\ (Live(c) => OpenFlow(c)')
  <2>1. HasLength(c)' /\ Expected(c)' = Expected(c) /\ Total(c)' = Total(c)
    BY <1>4, <1>8, OpenFacts, CarriesFrame DEF Started
  <2>2. Started(c)'
    BY <1>3, <1>5, <1>8, <2>1 DEF Started
  <2>3. ASSUME Live(c)
        PROVE  OpenFlow(c)'
    <3>1. /\ Expected(c) = snd[p].toSend /\ Total(c) = snd[p].totalSent
          /\ snd[p].totalSent <= snd[p].toSend /\ size <= snd[p].toSend
      BY <1>4, <1>8, <2>3, OpenFacts DEF OpenFlow
    <3>2. Len(files'[s.name]) <= s.toSend
      BY <1>3, <1>4, <3>1
    <3> QED  BY <1>3, <1>5, <1>8, <2>1, <3>1, <3>2, Zenon DEF OpenFlow
  <2> QED  BY <2>2, <2>3
<1> HIDE DEF s
<1> QED  BY <1>1, <1>3, <1>4, <1>6, <1>7, <1>8, LocalStep DEF TypeInv

LEMMA SendFileDoneStep ==
    ASSUME IInv, NEW p \in EmIds, SendFileDone(p), stack' = stack PROVE IInv'
<1> DEFINE all == snd[p].totalSent = snd[p].toSend
           s == [snd[p] EXCEPT !.pc = IF all THEN "idle" ELSE "open"]
<1>1. TypeInv
  BY DEF IInv
<1>2. /\ s \in SndType /\ (all => s.pc = "idle") /\ (~ all => s.pc = "open")
      /\ s.fd = snd[p].fd /\ s.to = snd[p].to /\ s.fileSize = snd[p].fileSize
      /\ s.toSend = snd[p].toSend /\ s.totalSent = snd[p].totalSent /\ s.name = snd[p].name
  <2>1. snd[p] \in SndType
    BY <1>1, Locals
  <2> QED  BY <2>1 DEF SndType
<1>3. /\ snd' = [snd EXCEPT ![p] = s] /\ UNCHANGED <<rcv, conns, files, short>>
      /\ snd[p].pc = "file" /\ ~ InFile(p)
  BY <1>1 DEF SendFileDone, TypeInv
<1>4. snd'[p] = s
  BY <1>1, <1>3 DEF TypeInv
<1>5. Busy(p)' => Busy(p)
  BY <1>2, <1>3, <1>4 DEF Busy, InFile
<1>6. Own(p) # {} => s.fd = "connected"
  BY <1>2, OpenFacts DEF Own
<1>7. ASSUME NEW c \in conns, c.src = p, c.open
      PROVE  Started(c)' /\ (Live(c) => OpenFlow(c)')
  <2>1. HasLength(c)' /\ Expected(c)' = Expected(c) /\ Total(c)' = Total(c)
    BY <1>3, <1>7, OpenFacts, CarriesFrame DEF Started
  <2>2. Started(c)'
    BY <1>2, <1>4, <1>7, <2>1 DEF Started
  <2>3. ASSUME Live(c)
        PROVE  OpenFlow(c)'
    <3>1. /\ Expected(c) = snd[p].toSend /\ Total(c) = snd[p].totalSent
          /\ snd[p].totalSent <= snd[p].toSend /\ Len(files[snd[p].name]) <= snd[p].toSend
      BY <1>3, <1>7, <2>3, OpenFacts DEF OpenFlow
    <3>2. Len(files'[s.name]) <= s.toSend
      BY <1>2, <1>3, <3>1
    <3>3. CASE all
      <4>1. snd'[p].pc = "idle" /\ Total(c)' = Expected(c)'
        BY <1>2, <1>4, <2>1, <3>1, <3>3
      <4> QED  BY <1>7, <4>1 DEF OpenFlow
    <3>4. CASE ~ all
      <4>1. s.totalSent < s.toSend
        BY <1>1, <1>2, <3>1, <3>4, Locals
      <4> QED  BY <1>2, <1>4, <1>7, <2>1, <3>1, <3>2, <3>4, <4>1, ZenonT(30) DEF OpenFlow
    <3> QED  BY <3>3, <3>4
  <2> QED  BY <2>2, <2>3
<1> HIDE DEF s
<1> QED  BY <1>1, <1>2, <1>3, <1>5, <1>6, <1>7, LocalStep DEF TypeInv

\* A step of the sending thread that sends on its connection or closes it.
LEMMA ReplaceStep ==
    ASSUME IInv, NEW p \in EmIds, NEW s \in SndType, snd' = [snd EXCEPT ![p] = s],
           UNCHANGED <<rcv, files, stack>>, short' \in BOOLEAN,
           Busy(p), s.to = snd[p].to,
           s.pc \in {"connect", "length"} => s.totalSent = 0,
           NEW c \in Own(p), NEW d \in Connections, Replace(c, d),
           d.src = c.src, d.dst = c.dst, d.accepted = c.accepted,
           d.open => s.fd = "connected" /\ s.pc \in {"length", "open", "file", "idle"},
           d.open => Started(d)',
           Items(d.bytes, ~ InRecv(c)),
           Live(c) => IF d.open THEN OpenFlow(d)' ELSE ClosedFlow(d)'
    PROVE  IInv'
<1>1. TypeInv /\ SocketInv /\ TokenInv /\ ItemsInv /\ FlowInv
  BY DEF IInv
<1>2. /\ snd'[p] = s /\ \A q \in EmIds \ {p} : snd'[q] = snd[q]
      /\ snd' \in [EmIds -> SndType]
  BY <1>1 DEF TypeInv
<1>3. c \in conns /\ c.src = p /\ c.open
  BY DEF Own
<1>4. /\ conns' \subseteq Connections /\ d \in conns'
      /\ \A e \in conns' : e # d => e \in conns /\ e # c /\ (Live(e)' => Live(e))
      /\ Live(d)' => Live(c)
      /\ \A e, f \in conns' : /\ e.src = f.src /\ e.dst = f.dst
                              /\ e.accepted = f.accepted => e = f
                              /\ e # f /\ e.accepted => ~ e.open
      /\ \A q \in EmIds : Accepted(q) # {} => Accepted(q)' # {}
  BY <1>1, <1>3, Replaced
<1>5. \A e \in conns' : e # d => ~ e.open
  BY <1>1, <1>3, <1>4, OneOpen
<1>6. TypeInv'
  BY <1>1, <1>2, <1>4 DEF TypeInv
<1>7. SocketInv'
  <2>1. \A e \in conns' : e.open => snd'[e.src].fd = "connected"
                                    /\ snd'[e.src].pc \in {"length", "open", "file", "idle"}
    BY <1>2, <1>3, <1>5
  <2>2. \A e \in conns' : e.accepted => rcv'[e.dst].pc \in {"length", "file"}
    BY <1>1, <1>3, <1>4 DEF SocketInv
  <2>3. \A q \in EmIds : rcv'[q].pc \in {"length", "file"} => Accepted(q)' # {}
    BY <1>1, <1>4 DEF SocketInv
  <2> QED  BY <1>4, <2>1, <2>2, <2>3 DEF SocketInv
<1>8. TokenInv'
  <2>1. \A q \in EmIds : Busy(q)' => Busy(q) /\ snd'[q].to = snd[q].to
    BY <1>2, BusyFrame
  <2>2. \A e \in conns' : \E f \in conns : e.src = f.src /\ e.dst = f.dst
    BY <1>3, <1>4
  <2> QED  BY <1>1, <2>1, <2>2, TokenFrame
<1>9. ItemsInv'
  <2>1. InRecv(d)' = InRecv(c)
    BY DEF InRecv
  <2>2. \A e \in conns' : e # d => InRecv(e)' = InRecv(e)
    BY DEF InRecv
  <2>3. \A e \in conns' : e.open => Started(e)'
    BY <1>5
  <2>4. ASSUME NEW e \in conns', NEW i \in 1 .. Len(e.bytes)
        PROVE  IF i = 1 /\ ~ InRecv(e)' THEN - e.bytes[i] \in 1 .. Len(File) ELSE e.bytes[i] \in Nat
    <3>1. CASE e = d
      BY <2>1, <2>4, <3>1 DEF Items
    <3>2. CASE e # d
      BY <1>1, <1>4, <2>2, <2>4, <3>2 DEF Items, ItemsInv
    <3> QED  BY <3>1, <3>2
  <2>5. \A q \in EmIds : rcv'[q].pc = "file" => Len(files'[rcv'[q].name]) = rcv'[q].got
    BY <1>1 DEF Items, ItemsInv
  <2> QED  BY <2>3, <2>4, <2>5 DEF Items, ItemsInv
<1>10. FlowInv'
  <2>1. ASSUME NEW e \in conns', Live(e)', e # d
        PROVE  ~ e.open /\ ClosedFlow(e)'
    <3>1. e \in conns /\ Live(e) /\ ~ e.open
      BY <1>4, <1>5, <2>1
    <3>2. ClosedFlow(e)
      BY <1>1, <3>1 DEF FlowInv
    <3> QED  BY <3>1, <3>2, CarriesFrame
  <2>2. Live(d)' => IF d.open THEN OpenFlow(d)' ELSE ClosedFlow(d)'
    BY <1>4
  <2> QED  BY <2>1, <2>2 DEF FlowInv
<1> QED  BY <1>6, <1>7, <1>8, <1>9, <1>10 DEF IInv

\* Bytes join a connection.
LEMMA Joined ==
    ASSUME IInv, NEW c \in conns, NEW bytes \in Seq(Int), Len(bytes) > 0, rcv' = rcv,
           Items(bytes, ~ HasLength(c)),
           NEW d, d = [c EXCEPT !.bytes = c.bytes \o bytes]
    PROVE  /\ d \in Connections /\ d.src = c.src /\ d.dst = c.dst
           /\ d.accepted = c.accepted /\ d.open = c.open
           /\ Items(d.bytes, ~ InRecv(c))
           /\ HasLength(d)' /\ Total(d)' = Total(c) + Len(bytes)
           /\ Expected(d)' = IF HasLength(c) THEN Expected(c) ELSE - bytes[1]
<1>1. TypeInv /\ ItemsInv
  BY DEF IInv
<1>2. /\ c \in Connections /\ c.bytes \in Seq(Int) /\ Len(c.bytes) \in Nat /\ Len(bytes) \in Nat
      /\ c.dst \in EmIds /\ rcv[c.dst].got \in Nat
  BY <1>1, ConnectionFields, Locals
<1>3. /\ c.bytes \o bytes \in Seq(Int) /\ Len(c.bytes \o bytes) = Len(c.bytes) + Len(bytes)
      /\ \A i \in 1 .. Len(c.bytes) + Len(bytes) : (c.bytes \o bytes)[i] =
             IF i <= Len(c.bytes) THEN c.bytes[i] ELSE bytes[i - Len(c.bytes)]
  BY <1>2, ConcatProperties
<1>4. /\ d \in Connections /\ d.bytes = c.bytes \o bytes /\ d.src = c.src /\ d.dst = c.dst
      /\ d.accepted = c.accepted /\ d.open = c.open
  BY <1>2, <1>3 DEF Connections
<1>5. InRecv(d)' = InRecv(c)
  BY <1>4 DEF InRecv
<1>6. c.bytes = <<>> <=> Len(c.bytes) = 0
  BY <1>2, EmptySeq
<1>7. ASSUME NEW i \in 1 .. Len(d.bytes)
      PROVE  IF i = 1 /\ ~ InRecv(c) THEN - d.bytes[i] \in 1 .. Len(File) ELSE d.bytes[i] \in Nat
  <2>1. CASE i <= Len(c.bytes)
    <3>1. d.bytes[i] = c.bytes[i] /\ i \in 1 .. Len(c.bytes)
      BY <1>2, <1>3, <1>4, <1>7, <2>1
    <3> QED  BY <1>1, <3>1 DEF Items, ItemsInv
  <2>2. CASE i > Len(c.bytes)
    <3>1. d.bytes[i] = bytes[i - Len(c.bytes)] /\ i - Len(c.bytes) \in 1 .. Len(bytes)
      BY <1>2, <1>3, <1>4, <1>7, <2>2, SMTT(30)
    <3>2. i = 1 /\ ~ InRecv(c) <=> i - Len(c.bytes) = 1 /\ ~ HasLength(c)
      BY <1>2, <1>6, <1>7, <2>2, SMTT(30) DEF HasLength
    <3> QED  BY <3>1, <3>2 DEF Items
  <2> QED  BY <1>2, <2>1, <2>2
<1>8. HasLength(d)'
  BY <1>2, <1>3, <1>4, EmptySeq DEF HasLength
<1>9. Total(d)' = Total(c) + Len(bytes)
  BY <1>2, <1>3, <1>4, <1>5 DEF Total
<1>10. Expected(d)' = IF HasLength(c) THEN Expected(c) ELSE - bytes[1]
  <2>1. HasLength(c) /\ ~ InRecv(c) => Len(c.bytes) > 0
    BY <1>2, <1>6 DEF HasLength
  <2>2. ~ InRecv(c) => d.bytes[1] = IF HasLength(c) THEN c.bytes[1] ELSE bytes[1]
    BY <1>2, <1>3, <1>4, <1>6, <2>1, SMTT(30) DEF HasLength
  <2> QED  BY <1>4, <1>5, <2>2 DEF Expected, HasLength
<1> QED  BY <1>4, <1>7, <1>8, <1>9, <1>10 DEF Items

LEMMA SendLengthStep ==
    ASSUME IInv, NEW p \in EmIds, SendLength(p), stack' = stack PROVE IInv'
<1> DEFINE size == Len(files[snd[p].name])
<1>1. PICK fd \in {"connected"} \cup {f \in {"failed"} : Own(p) = {}} :
          snd' = [snd EXCEPT ![p].pc = "open", ![p].toSend = size, ![p].fd = fd]
  BY DEF SendLength
<1> DEFINE s == [snd[p] EXCEPT !.pc = "open", !.toSend = size, !.fd = fd]
<1>2. TypeInv /\ SocketInv
  BY DEF IInv
<1>3. /\ snd[p] \in SndType /\ size \in Sizes /\ size \in Nat /\ size > 0
      /\ snd[p].pc = "length" /\ snd[p].totalSent = 0
  BY <1>2, Locals, Parameters, SMTT(30) DEF Sizes, SendLength, TypeInv
<1>4. /\ s \in SndType /\ s.pc = "open" /\ s.fd = fd /\ s.to = snd[p].to
      /\ s.toSend = size /\ s.totalSent = 0 /\ s.name = snd[p].name
  BY <1>3 DEF SndType
<1>5. snd' = [snd EXCEPT ![p] = s] /\ UNCHANGED <<rcv, files, short>> /\ Send(p, <<-size>>)
  BY <1>1, <1>2 DEF SendLength, TypeInv
<1>6. snd'[p] = s /\ Busy(p) /\ short' \in BOOLEAN
  BY <1>2, <1>3, <1>5 DEF TypeInv, Busy
<1>7. Own(p) # {} => s.fd = "connected"
  BY <1>4
<1> HIDE DEF s
<1>8. CASE Own(p) = {} /\ conns' = conns
  <2>1. \A c \in conns : c.src = p /\ c.open => FALSE
    BY <1>8 DEF Own
  <2> QED  BY <1>4, <1>5, <1>6, <1>8, <2>1, LocalStep
<1>9. ASSUME NEW c \in Own(p), NEW d, d = [c EXCEPT !.bytes = c.bytes \o <<-size>>], Replace(c, d)
      PROVE  IInv'
  <2>1. c \in conns /\ c.src = p /\ c.open /\ ~ HasLength(c)
    BY <1>3, OpenFacts DEF Own, Started
  <2>2. PICK bytes : bytes = <<-size>>
    OBVIOUS
  <2>3. /\ bytes \in Seq(Int) /\ Len(bytes) = 1 /\ Len(bytes) > 0 /\ - bytes[1] = size
        /\ Items(bytes, ~ HasLength(c))
    BY <1>3, <2>1, <2>2 DEF Items, Sizes
  <2>4. /\ d \in Connections /\ d.src = c.src /\ d.dst = c.dst
        /\ d.accepted = c.accepted /\ d.open = c.open
        /\ Items(d.bytes, ~ InRecv(c))
        /\ HasLength(d)' /\ Total(d)' = Total(c) + 1 /\ Expected(d)' = size
    <3>1. d = [c EXCEPT !.bytes = c.bytes \o bytes] /\ rcv' = rcv
      BY <1>5, <1>9, <2>2
    <3> HIDE DEF size
    <3> QED  BY <2>1, <2>3, <3>1, Joined, ZenonT(40)
  <2>5. Total(c) = -1
    BY <2>1 DEF HasLength, Total
  <2>6. Started(d)'
    BY <1>4, <1>6, <2>1, <2>4 DEF Started
  <2>7. OpenFlow(d)'
    <3>1. Expected(d)' = s.toSend /\ Total(d)' = s.totalSent /\ s.totalSent < s.toSend
      BY <1>3, <1>4, <2>4, <2>5
    <3>2. Len(files'[s.name]) <= s.toSend
      BY <1>3, <1>4, <1>5
    <3> QED  BY <1>3, <1>4, <1>6, <2>1, <2>4, <3>1, <3>2 DEF OpenFlow
  <2>8. s.fd = "connected"
    BY <1>7, <1>9
  <2> QED  BY <1>4, <1>5, <1>6, <1>9, <2>1, <2>4, <2>6, <2>7, <2>8, ReplaceStep, ZenonT(30)
<1> QED  BY <1>2, <1>5, <1>8, <1>9, Sent

\* What sendFile reads is in the file it has measured.
LEMMA ReadFacts ==
    ASSUME TypeInv, NEW p \in EmIds, InFile(p)
    PROVE  /\ ToRead(p) \in Nat /\ ToRead(p) > 0
           /\ snd[p].totalSent + ToRead(p) <= snd[p].fileSize
<1>1. /\ snd[p].totalSent \in Nat /\ snd[p].fileSize \in Nat /\ SendChunk \in Nat /\ SendChunk > 0
      /\ snd[p].totalSent < snd[p].fileSize
  BY Locals, Parameters DEF InFile
<1>2. snd[p].fileSize - snd[p].totalSent \in Int /\ SendChunk \in Int
  BY <1>1
<1>3. ToRead(p) \in {SendChunk, snd[p].fileSize - snd[p].totalSent}
      /\ ToRead(p) <= snd[p].fileSize - snd[p].totalSent
  <2> DEFINE left == snd[p].fileSize - snd[p].totalSent
  <2>1. ToRead(p) = Min({SendChunk, left})
    BY DEF ToRead
  <2>2. left \in Int
    BY <1>2
  <2> HIDE DEF left
  <2>3. Min({SendChunk, left}) \in {SendChunk, left} /\ Min({SendChunk, left}) <= left
    BY <1>2, <2>2, MinOfTwo
  <2>4. ToRead(p) \in {SendChunk, left} /\ ToRead(p) <= left
    BY <2>1, <2>3
  <2> QED  BY <2>4 DEF left
<1> QED  BY <1>1, <1>3

\* sendFile reads a chunk and sends the first sent numbers of it.
ChunkRead(p, s, sent) ==
    /\ Send(p, SubSeq(files[snd[p].name], snd[p].position + 1, snd[p].position + sent))
    /\ snd' = [snd EXCEPT ![p] = s] /\ UNCHANGED <<rcv, files>>
    /\ sent > 0 /\ sent <= ToRead(p) /\ short' = (short \/ sent < ToRead(p))
    /\ s.pc = "file" /\ s.fd = snd[p].fd /\ s.to = snd[p].to
    /\ s.toSend = snd[p].toSend /\ s.totalSent = snd[p].totalSent + sent
    /\ s.name = snd[p].name /\ s.fileSize = snd[p].fileSize
    /\ s.position = snd[p].position + ToRead(p)

\* They join c, which becomes d.
ChunkJoins(p, c, d, s, sent) ==
    LET bytes == SubSeq(files[snd[p].name], snd[p].position + 1, snd[p].position + sent)
    IN  /\ ChunkRead(p, s, sent)
        /\ HasLength(c) /\ Replace(c, d)
        /\ bytes \in Seq(Int) /\ d.bytes = c.bytes \o bytes
        /\ d.src = c.src /\ d.dst = c.dst /\ d.accepted = c.accepted /\ d.open = c.open
        /\ Items(d.bytes, ~ InRecv(c))
        /\ HasLength(d)' /\ Total(d)' = Total(c) + sent /\ Expected(d)' = Expected(c)

\* The receiver no longer has the connection: they are lost.
ChunkLost(p, s, sent) == ChunkRead(p, s, sent) /\ Own(p) = {} /\ conns' = conns

LEMMA ChunkIsRead ==
    ASSUME TypeInv, NEW p \in EmIds, SendFileChunk(p)
    PROVE  \E s \in SndType, sent \in Nat : ChunkRead(p, s, sent)
<1> DEFINE file == files[snd[p].name]
           pos == snd[p].position
<1>1. /\ snd[p] \in SndType /\ file \in Seq(Nat) /\ Len(file) \in Nat /\ Len(file) <= Len(File)
      /\ snd[p].totalSent \in Nat /\ snd[p].fileSize \in Nat /\ pos \in Nat
      /\ snd[p].fileSize <= Len(File) /\ Len(File) \in Nat /\ SendChunk \in Nat /\ SendChunk > 0
  BY Locals, Parameters
<1>2. snd[p].pc = "file" /\ pos + ToRead(p) <= Len(file)
  BY DEF SendFileChunk, InFile, Readable
<1>3. /\ ToRead(p) \in Nat /\ ToRead(p) > 0 /\ snd[p].totalSent + ToRead(p) <= snd[p].fileSize
  BY ReadFacts DEF SendFileChunk
<1>4. PICK sent \in 1 .. ToRead(p) :
          /\ Send(p, SubSeq(file, pos + 1, pos + sent))
          /\ snd' = [snd EXCEPT ![p].position = @ + ToRead(p), ![p].totalSent = @ + sent]
          /\ short' = (short \/ sent < ToRead(p))
  BY DEF SendFileChunk
<1> DEFINE s == [snd[p] EXCEPT !.position = pos + ToRead(p), !.totalSent = snd[p].totalSent + sent]
<1>5. sent \in Nat /\ sent > 0 /\ sent <= ToRead(p)
  BY <1>3
<1>6. pos + ToRead(p) \in Sizes /\ snd[p].totalSent + sent \in Sizes
  <2>1. /\ pos + ToRead(p) \in Nat /\ pos + ToRead(p) <= Len(File)
        /\ snd[p].totalSent + sent \in Nat /\ snd[p].totalSent + sent <= Len(File)
    <3>1. snd[p].totalSent + sent \in Nat /\ snd[p].totalSent + sent <= Len(File)
      BY <1>1, <1>3, <1>5, SMTT(30)
    <3>2. pos + ToRead(p) \in Nat /\ pos + ToRead(p) <= Len(File)
      <4>1. /\ Len(file) \in Nat /\ Len(file) <= Len(File) /\ Len(File) \in Nat
            /\ pos \in Nat /\ ToRead(p) \in Nat /\ pos + ToRead(p) <= Len(file)
        BY <1>1, <1>2, <1>3
      <4> HIDE DEF file, pos
      <4> QED  BY <4>1
    <3> QED  BY <3>1, <3>2
  <2> QED  BY <1>1, <2>1 DEF Sizes
<1>7. /\ s \in SndType /\ s.pc = "file" /\ s.fd = snd[p].fd /\ s.to = snd[p].to
      /\ s.toSend = snd[p].toSend /\ s.totalSent = snd[p].totalSent + sent
      /\ s.name = snd[p].name /\ s.fileSize = snd[p].fileSize /\ s.position = pos + ToRead(p)
  BY <1>1, <1>2, <1>6 DEF SndType
<1>8. snd' = [snd EXCEPT ![p] = s] /\ UNCHANGED <<rcv, files>>
  BY <1>4 DEF SendFileChunk, TypeInv
<1> HIDE DEF s
<1>9. s \in SndType /\ sent \in Nat
  BY <1>5, <1>7
<1>10. /\ Send(p, SubSeq(files[snd[p].name], snd[p].position + 1, snd[p].position + sent))
       /\ short' = (short \/ sent < ToRead(p)) /\ s.position = snd[p].position + ToRead(p)
  BY <1>4, <1>7
<1>11. ChunkRead(p, s, sent)
  BY <1>5, <1>7, <1>8, <1>10, Zenon DEF ChunkRead
<1> QED  BY <1>9, <1>11

LEMMA ChunkSent ==
    ASSUME IInv, NEW p \in EmIds, SendFileChunk(p)
    PROVE  \E s \in SndType, sent \in Nat :
               \/ ChunkLost(p, s, sent)
               \/ \E c \in Own(p), d \in Connections : ChunkJoins(p, c, d, s, sent)
<1> DEFINE file == files[snd[p].name]
           pos == snd[p].position
<1>1. TypeInv /\ SocketInv
  BY DEF IInv
<1>2. /\ snd[p] \in SndType /\ file \in Seq(Nat) /\ Len(file) \in Nat /\ Len(file) <= Len(File)
      /\ pos \in Nat /\ Len(File) \in Nat
  BY <1>1, Locals, Parameters
<1>3. snd[p].pc = "file" /\ pos + ToRead(p) <= Len(file)
  BY DEF SendFileChunk, InFile, Readable
<1>4. ToRead(p) \in Nat
  BY <1>1, ReadFacts DEF SendFileChunk
<1>5. PICK s \in SndType, sent \in Nat : ChunkRead(p, s, sent)
  BY <1>1, ChunkIsRead
<1> DEFINE bytes == SubSeq(file, pos + 1, pos + sent)
<1>6. sent > 0 /\ sent <= ToRead(p) /\ UNCHANGED <<rcv, files>> /\ Send(p, bytes)
  BY <1>5 DEF ChunkRead
<1>7. bytes \in Seq(Int) /\ Len(bytes) = sent /\ \A i \in 1 .. Len(bytes) : bytes[i] \in Nat
  <2> HIDE DEF file, pos
  <2>1. ASSUME NEW i \in pos + 1 .. pos + sent
        PROVE  i \in 1 .. Len(file)
    BY <1>2, <1>3, <1>4, <1>6
  <2>2. \A i \in pos + 1 .. pos + sent : file[i] \in Nat
    BY <1>2, <2>1, ElementOfSeq
  <2>3. /\ bytes \in Seq(Nat)
        /\ Len(bytes) = IF pos + 1 <= pos + sent THEN (pos + sent) - (pos + 1) + 1 ELSE 0
    <3>1. pos + 1 \in Int /\ pos + sent \in Int
      BY <1>2, <1>6
    <3> QED  BY <2>2, <3>1, SubSeqProperties
  <2>4. Len(bytes) = sent
    BY <1>2, <1>6, <2>3
  <2> QED  BY <2>3, <2>4, ElementOfSeq, SeqMonotonic, SMTT(30)
<1>8. PICK b : b = bytes
  OBVIOUS
<1>9. CASE Own(p) = {} /\ conns' = conns
  BY <1>5, <1>9 DEF ChunkLost
<1> SUFFICES ASSUME ~ (Own(p) = {} /\ conns' = conns)
             PROVE  \E c \in Own(p), d \in Connections : ChunkJoins(p, c, d, s, sent)
  BY <1>9
<1> HIDE DEF bytes
<1>10. PICK c \in Own(p) : Replace(c, [c EXCEPT !.bytes = c.bytes \o b])
  <2>1. Send(p, b)
    BY <1>6, <1>8
  <2> QED  BY <1>1, <2>1, Sent
<1>11. PICK d : d = [c EXCEPT !.bytes = c.bytes \o b]
  OBVIOUS
<1>12. /\ c \in conns /\ c.src = p /\ c.open /\ HasLength(c) /\ Replace(c, d)
  BY <1>3, <1>10, <1>11, OpenFacts DEF Own, Started
<1>13. /\ d \in Connections /\ d.src = c.src /\ d.dst = c.dst
       /\ d.accepted = c.accepted /\ d.open = c.open
       /\ Items(d.bytes, ~ InRecv(c))
       /\ HasLength(d)' /\ Total(d)' = Total(c) + sent /\ Expected(d)' = Expected(c)
  <2>1. b \in Seq(Int) /\ Len(b) > 0 /\ Len(b) = sent /\ rcv' = rcv /\ Items(b, ~ HasLength(c))
    BY <1>6, <1>7, <1>8, <1>12 DEF Items
  <2> QED  BY <1>11, <1>12, <2>1, Joined, ZenonT(30)
<1>14. d.bytes = c.bytes \o bytes
  BY <1>8, <1>11, <1>12, ConnectionFields DEF Connections, IInv
<1>15. ChunkJoins(p, c, d, s, sent)
  BY <1>5, <1>7, <1>12, <1>13, <1>14, Zenon DEF ChunkJoins, bytes
<1> QED  BY <1>13, <1>15

LEMMA SendFileChunkStep ==
    ASSUME IInv, NEW p \in EmIds, SendFileChunk(p), stack' = stack PROVE IInv'
<1>1. TypeInv /\ SocketInv
  BY DEF IInv
<1>2. PICK s \in SndType, sent \in Nat :
          \/ ChunkLost(p, s, sent)
          \/ \E c \in Own(p), d \in Connections : ChunkJoins(p, c, d, s, sent)
  BY ChunkSent
<1>3. CASE ChunkLost(p, s, sent)
  <2>1. /\ snd' = [snd EXCEPT ![p] = s] /\ UNCHANGED <<rcv, conns, files>> /\ Own(p) = {}
        /\ s.pc = "file" /\ s.to = snd[p].to /\ short' = (short \/ sent < ToRead(p))
    BY <1>3 DEF ChunkLost, ChunkRead
  <2>2. short' \in BOOLEAN /\ Busy(p)
    BY <1>1, <2>1 DEF TypeInv, SendFileChunk, Busy, InFile
  <2>3. \A c \in conns : c.src = p /\ c.open => FALSE
    BY <2>1 DEF Own
  <2> QED  BY <2>1, <2>2, <2>3, LocalStep
<1>4. ASSUME NEW c \in Own(p), NEW d \in Connections, ChunkJoins(p, c, d, s, sent)
      PROVE  IInv'
  <2>1. /\ snd' = [snd EXCEPT ![p] = s] /\ sent <= ToRead(p)
        /\ short' = (short \/ sent < ToRead(p))
        /\ s.pc = "file" /\ s.fd = snd[p].fd /\ s.to = snd[p].to
        /\ s.toSend = snd[p].toSend /\ s.totalSent = snd[p].totalSent + sent
        /\ s.name = snd[p].name /\ s.fileSize = snd[p].fileSize
        /\ HasLength(c) /\ Replace(c, d)
        /\ d.src = c.src /\ d.dst = c.dst /\ d.accepted = c.accepted /\ d.open = c.open
        /\ Items(d.bytes, ~ InRecv(c))
        /\ HasLength(d)' /\ Total(d)' = Total(c) + sent /\ Expected(d)' = Expected(c)
    BY <1>4 DEF ChunkJoins, ChunkRead
  <2>2. c \in conns /\ c.src = p /\ c.open /\ Busy(p) /\ snd[p].pc = "file" /\ short' \in BOOLEAN
    BY <1>1, <2>1 DEF Own, SendFileChunk, Busy, InFile, TypeInv
  <2>3. snd'[p] = s /\ UNCHANGED <<rcv, files>>
    BY <1>1, <2>1 DEF SendFileChunk, TypeInv
  <2>4. s.fd = "connected"
    BY <2>1, <2>2, OpenFacts
  <2>5. Started(d)'
    BY <2>1, <2>2, <2>3 DEF Started
  <2>6. ASSUME Live(c)
        PROVE  OpenFlow(d)'
    <3>1. /\ Expected(c) = snd[p].toSend /\ Total(c) = snd[p].totalSent
          /\ Len(files[snd[p].name]) <= snd[p].toSend /\ snd[p].fileSize <= snd[p].toSend
      BY <2>2, <2>6, OpenFacts DEF OpenFlow
    <3>2. /\ Expected(d)' = s.toSend /\ Total(d)' = s.totalSent
          /\ Len(files'[s.name]) <= s.toSend /\ s.fileSize <= s.toSend
      BY <2>1, <2>3, <3>1
    <3>3. s.totalSent <= s.toSend
      <4>1. /\ snd[p].toSend \in Nat /\ snd[p].totalSent \in Nat /\ snd[p].fileSize \in Nat
            /\ ToRead(p) \in Nat /\ snd[p].totalSent + ToRead(p) <= snd[p].fileSize
        BY <1>1, Locals, ReadFacts DEF SendFileChunk
      <4> QED  BY <2>1, <3>1, <4>1, SMTT(30)
    <3> QED  BY <2>1, <2>2, <2>3, <3>2, <3>3 DEF OpenFlow
  <2> QED  BY <2>1, <2>2, <2>3, <2>4, <2>5, <2>6, ReplaceStep
<1> QED  BY <1>2, <1>3, <1>4

LEMMA SendFileFailsStep ==
    ASSUME IInv, NEW p \in EmIds, SendFileFails(p), stack' = stack PROVE IInv'
<1> DEFINE s == [snd[p] EXCEPT !.pc = "connect", !.fd = "fresh", !.totalSent = 0]
<1>1. TypeInv /\ SocketInv /\ ItemsInv
  BY DEF IInv
<1>2. /\ s \in SndType /\ s.pc = "connect" /\ s.to = snd[p].to /\ s.totalSent = 0
  <2>1. snd[p] \in SndType /\ 0 \in Sizes
    BY <1>1, Locals, Parameters DEF Sizes
  <2> QED  BY <2>1 DEF SndType
<1>3. snd' = [snd EXCEPT ![p] = s] /\ UNCHANGED <<rcv, files, short>>
  BY <1>1 DEF SendFileFails, CloseSend, TypeInv
<1>4. snd'[p] = s /\ short' \in BOOLEAN
  BY <1>1, <1>3 DEF TypeInv
<1>5. Busy(p) /\ snd[p].pc \in {"open", "file"}
      /\ (snd[p].pc = "file" => snd[p].totalSent < snd[p].fileSize)
  BY DEF SendFileFails, InFile, Busy
<1> HIDE DEF s
<1>6. CASE Own(p) = {} /\ conns' = conns
  <2>1. \A c \in conns : c.src = p /\ c.open => FALSE
    BY <1>6 DEF Own
  <2> QED  BY <1>2, <1>3, <1>4, <1>5, <1>6, <2>1, LocalStep
<1>7. ASSUME NEW c \in Own(p),
             NEW n \in (IF c.bytes # <<>> /\ Head(c.bytes) < 0 THEN 1 ELSE 0) .. Len(c.bytes),
             Replace(c, [c EXCEPT !.bytes = SubSeq(c.bytes, 1, n), !.open = FALSE])
      PROVE  IInv'
  <2> DEFINE bytes == SubSeq(c.bytes, 1, n)
  <2>0. PICK d : d = [c EXCEPT !.bytes = bytes, !.open = FALSE]
    OBVIOUS
  <2>1. /\ c \in conns /\ c.src = p /\ c.open /\ HasLength(c)
        /\ c \in Connections /\ c.bytes \in Seq(Int) /\ Len(c.bytes) \in Nat /\ c.dst \in EmIds
    BY <1>1, <1>5, OpenFacts, ConnectionFields DEF Own, Started
  <2>2. n \in Nat /\ n <= Len(c.bytes) /\ (c.bytes # <<>> /\ Head(c.bytes) < 0 => n > 0)
    BY <2>1
  <2>3. /\ bytes \in Seq(Int) /\ Len(bytes) = n
        /\ \A i \in 1 .. n : bytes[i] = c.bytes[i]
    <3>1. \A i \in 1 .. n : c.bytes[i] \in Int /\ 1 + i - 1 = i
      BY <2>1, <2>2, ElementOfSeq, SMTT(30)
    <3>2. /\ bytes \in Seq(Int) /\ Len(bytes) = (IF 1 <= n THEN n - 1 + 1 ELSE 0)
          /\ \A i \in 1 .. n - 1 + 1 : bytes[i] = c.bytes[1 + i - 1]
      BY <2>1, <2>2, <3>1, SubSeqProperties
    <3> QED  BY <2>2, <3>1, <3>2
  <2> HIDE DEF bytes
  <2>4. /\ d \in Connections /\ d.src = c.src /\ d.dst = c.dst
        /\ d.accepted = c.accepted /\ ~ d.open /\ d.bytes = bytes
    BY <2>0, <2>1, <2>3 DEF Connections
  <2>5. Items(d.bytes, ~ InRecv(c))
    <3>1. \A i \in 1 .. n : i \in 1 .. Len(c.bytes)
      BY <2>1, <2>2
    <3> QED  BY <1>1, <2>1, <2>3, <2>4, <3>1 DEF Items, ItemsInv
  <2>6. ASSUME Live(c)
        PROVE  ClosedFlow(d)'
    <3>1. Total(c) < Expected(c)
      <4>1. /\ Expected(c) = snd[p].toSend /\ Total(c) = snd[p].totalSent
            /\ snd[p].pc = "open" => snd[p].totalSent < snd[p].toSend
            /\ snd[p].pc = "file" => snd[p].fileSize <= snd[p].toSend
        BY <1>5, <2>1, <2>6, OpenFacts DEF OpenFlow
      <4>2. snd[p].totalSent \in Nat /\ snd[p].toSend \in Nat /\ snd[p].fileSize \in Nat
        BY <1>1, Locals
      <4> QED  BY <1>5, <4>1, <4>2
    <3>2. InRecv(d)' = InRecv(c) /\ rcv[c.dst].got \in Nat /\ rcv[c.dst].expected \in Nat
      BY <1>1, <1>3, <2>1, <2>4, Locals DEF InRecv
    <3>3. CASE InRecv(c)
      <4>1. HasLength(d)' /\ Expected(d)' = Expected(c) /\ Total(d)' = rcv[c.dst].got + n
            /\ Total(c) = rcv[c.dst].got + Len(c.bytes) /\ Expected(c) = rcv[c.dst].expected
        BY <1>3, <2>3, <2>4, <3>2, <3>3 DEF HasLength, Expected, Total
      <4> QED  BY <2>1, <2>2, <3>1, <3>2, <4>1 DEF ClosedFlow
    <3>4. CASE ~ InRecv(c)
      <4>1. c.bytes # <<>> /\ Len(c.bytes) > 0
        BY <2>1, <3>4, EmptySeq DEF HasLength
      <4>2. - c.bytes[1] \in 1 .. Len(File) /\ Head(c.bytes) = c.bytes[1] /\ c.bytes[1] \in Int
        BY <1>1, <2>1, <3>4, <4>1, ElementOfSeq DEF Items, ItemsInv
      <4>3. n > 0 /\ bytes # <<>> /\ bytes[1] = c.bytes[1]
        BY <2>2, <2>3, <4>1, <4>2, EmptySeq, Parameters
      <4>4. HasLength(d)' /\ Expected(d)' = Expected(c) /\ Total(d)' = n - 1
            /\ Total(c) = Len(c.bytes) - 1 /\ Expected(c) = - c.bytes[1]
        BY <2>3, <2>4, <3>2, <3>4, <4>3 DEF HasLength, Expected, Total
      <4> QED  BY <2>1, <2>2, <3>1, <4>2, <4>4 DEF ClosedFlow
    <3> QED  BY <3>3, <3>4
  <2>7. Replace(c, d)
    BY <1>7, <2>0 DEF bytes
  <2> QED  BY <1>2, <1>3, <1>4, <1>5, <2>3, <2>4, <2>5, <2>6, <2>7, ReplaceStep
<1> QED  BY <1>6, <1>7 DEF SendFileFails, CloseSend

\* Nothing is on its way: the stack has the message.
LEMMA PopStep ==
    ASSUME IInv, NEW p \in EmIds, Pop(p) PROVE IInv'
<1> DEFINE mes == stack[p][Len(stack[p])]
           s == [snd[p] EXCEPT !.pc = "connect", !.to = mes.to, !.name = mes.name, !.totalSent = 0]
<1>1. TypeInv /\ SocketInv /\ TokenInv /\ ItemsInv /\ FlowInv
  BY DEF IInv
<1>2. /\ stack[p] # <<>> /\ conns = {} /\ stack[p] \in Seq(Message) /\ Len(stack[p]) = 1
      /\ \A q \in EmIds : ~ Busy(q) /\ (stack[q] # <<>> => p = q)
  <2>1. stack[p] # <<>> /\ stack[p] \in Seq(Message) /\ Len(stack[p]) <= 1
    BY <1>1 DEF Pop, TypeInv, TokenInv
  <2>2. Len(stack[p]) = 1
    <3>1. Len(stack[p]) \in Nat /\ Len(stack[p]) # 0
      BY <2>1, EmptySeq
    <3>2. Len(stack[p]) <= 1
      BY <2>1
    <3>3. \A n \in Nat : n # 0 /\ n <= 1 => n = 1
      OBVIOUS
    <3> QED  BY <3>1, <3>2, <3>3
  <2> QED  BY <1>1, <2>1, <2>2 DEF TokenInv
<1>3. mes.to \in EmIds /\ mes.name \in Names
  <2>1. stack[p][1] \in Message
    BY <1>2, ElementOfSeq
  <2> QED  BY <1>2, <2>1 DEF Message
<1>4. s \in SndType /\ s.pc = "connect" /\ s.totalSent = 0
  <2>1. snd[p] \in SndType /\ 0 \in Sizes
    BY <1>1, Locals, Parameters DEF Sizes
  <2> QED  BY <1>3, <2>1 DEF SndType
<1>5. /\ snd' = [snd EXCEPT ![p] = s] /\ UNCHANGED <<rcv, conns, files, short>>
      /\ stack' = [stack EXCEPT ![p] = <<>>]
  <2>1. SubSeq(stack[p], 1, Len(stack[p]) - 1) = <<>>
    BY <1>2, SubSeqEmpty
  <2> QED  BY <1>1, <2>1 DEF Pop, StartSend, TypeInv
<1>6. \A q \in EmIds : stack'[q] = <<>>
  BY <1>1, <1>2, <1>5 DEF TypeInv
<1>7. /\ snd'[p] = s /\ \A q \in EmIds \ {p} : snd'[q] = snd[q]
      /\ snd' \in [EmIds -> SndType]
  BY <1>1, <1>4, <1>5 DEF TypeInv
<1> HIDE DEF s
<1>8. TypeInv'
  <2>1. stack' \in [EmIds -> Seq(Message)]
    BY <1>1, <1>5, EmptySeq DEF TypeInv
  <2> QED  BY <1>1, <1>4, <1>5, <1>7, <2>1 DEF TypeInv
<1>9. SocketInv'
  BY <1>1, <1>2, <1>5 DEF SocketInv, Accepted
<1>10. TokenInv'
  <2>1. \A q \in EmIds : Busy(q)' => q = p
    BY <1>2, <1>7, BusyFrame
  <2> QED  BY <1>2, <1>5, <1>6, <2>1, EmptySeq DEF TokenInv
<1>11. ItemsInv' /\ FlowInv'
  BY <1>1, <1>2, <1>5 DEF Items, ItemsInv, FlowInv
<1> QED  BY <1>8, <1>9, <1>10, <1>11 DEF IInv

\* The connections before the new one have been closed, and are accepted.
LEMMA ConnectOkStep ==
    ASSUME IInv, NEW p \in EmIds, ConnectOk(p), stack' = stack PROVE IInv'
<1> DEFINE s == [snd[p] EXCEPT !.pc = "length", !.fd = "connected"]
<1>1. TypeInv /\ SocketInv /\ TokenInv /\ ItemsInv /\ FlowInv
  BY DEF IInv
<1>2. snd[p].pc = "connect" /\ snd[p].fd = "fresh" /\ Backlog(snd[p].to) = {} /\ Busy(p)
      /\ snd[p].totalSent = 0
  BY <1>1 DEF ConnectOk, Busy, TypeInv
<1>3. /\ s \in SndType /\ s.pc = "length" /\ s.fd = "connected" /\ s.to = snd[p].to
      /\ s.totalSent = 0 /\ snd[p].to \in EmIds
  <2>1. snd[p] \in SndType
    BY <1>1, Locals
  <2> QED  BY <1>2, <2>1 DEF SndType
<1>4. PICK d : d = [src |-> p, dst |-> snd[p].to, accepted |-> FALSE, open |-> TRUE, bytes |-> <<>>]
  OBVIOUS
<1>5. /\ snd' = [snd EXCEPT ![p] = s] /\ UNCHANGED <<rcv, files, short>>
      /\ conns' = conns \cup {d}
  BY <1>1, <1>4 DEF ConnectOk, TypeInv
<1>6. /\ snd'[p] = s /\ \A q \in EmIds \ {p} : snd'[q] = snd[q]
      /\ snd' \in [EmIds -> SndType]
  BY <1>1, <1>3, <1>5 DEF TypeInv
<1> HIDE DEF s
<1>7. /\ d \in Connections /\ d.src = p /\ d.dst = snd[p].to /\ ~ d.accepted /\ d.open
      /\ d.bytes = <<>> /\ d.accepted = FALSE
  BY <1>3, <1>4, EmptySeq DEF Connections
<1>8. ASSUME NEW c \in conns
      PROVE  c.src = p /\ c.dst = snd[p].to /\ c.accepted /\ ~ c.open /\ c # d
  <2>1. c.src = p /\ c.dst = snd[p].to
    BY <1>1, <1>2 DEF TokenInv
  <2>2. ~ c.open
    BY <1>2, <2>1, OpenFacts
  <2>3. c.accepted
    BY <1>2, <2>1, ConnectionFields DEF Backlog
  <2> QED  BY <1>7, <2>1, <2>2, <2>3
<1>9. TypeInv'
  BY <1>1, <1>3, <1>5, <1>6, <1>7 DEF TypeInv
<1>10. SocketInv'
  <2>1. \A c \in conns' : c.open => snd'[c.src].fd = "connected"
                                    /\ snd'[c.src].pc \in {"length", "open", "file", "idle"}
    BY <1>3, <1>5, <1>6, <1>7, <1>8
  <2>2. \A c \in conns' : c.accepted => rcv'[c.dst].pc \in {"length", "file"}
    BY <1>1, <1>5, <1>7 DEF SocketInv
  <2>3. ASSUME NEW q \in EmIds, rcv'[q].pc \in {"length", "file"}
        PROVE  Accepted(q)' # {}
    <3>1. Accepted(q) # {}
      BY <1>1, <1>5, <2>3 DEF SocketInv
    <3> QED  BY <1>5, <3>1 DEF Accepted
  <2>4. ASSUME NEW c \in conns', NEW e \in conns'
        PROVE  /\ c.src = e.src /\ c.dst = e.dst
               /\ c.accepted = e.accepted => c = e
               /\ c # e /\ c.accepted => ~ c.open
    <3>1. CASE c = d
      BY <1>5, <1>7, <1>8, <3>1
    <3>2. CASE c # d /\ e = d
      BY <1>5, <1>7, <1>8, <3>2
    <3>3. CASE c # d /\ e # d
      BY <1>1, <1>5, <3>3 DEF SocketInv
    <3> QED  BY <3>1, <3>2, <3>3
  <2> QED  BY <2>1, <2>2, <2>3, <2>4 DEF SocketInv
<1>11. TokenInv'
  <2>1. \A q \in EmIds : stack[q] = <<>> /\ (Busy(q)' => q = p) /\ Len(stack[q]) <= 1
    BY <1>1, <1>2, <1>6, BusyFrame DEF TokenInv
  <2>2. \A c \in conns' : c.src = p /\ c.dst = snd'[p].to
    BY <1>3, <1>5, <1>6, <1>7, <1>8
  <2> QED  BY <2>1, <2>2 DEF TokenInv
<1>12. \A c \in conns : InRecv(c)' = InRecv(c)
  BY <1>5 DEF InRecv
<1>13. ~ InRecv(d)' /\ ~ HasLength(d)'
  BY <1>7 DEF InRecv, HasLength
<1>14. ItemsInv'
  <2>1. \A c \in conns' : c.open => Started(c)'
    BY <1>3, <1>5, <1>6, <1>7, <1>8, <1>13 DEF Started
  <2>2. ASSUME NEW c \in conns', NEW i \in 1 .. Len(c.bytes)
        PROVE  IF i = 1 /\ ~ InRecv(c)' THEN - c.bytes[i] \in 1 .. Len(File) ELSE c.bytes[i] \in Nat
    <3>1. CASE c = d
      BY <1>7, <2>2, <3>1, EmptySeq
    <3>2. CASE c # d
      BY <1>1, <1>5, <1>12, <2>2, <3>2 DEF Items, ItemsInv
    <3> QED  BY <3>1, <3>2
  <2>3. \A q \in EmIds : rcv'[q].pc = "file" => Len(files'[rcv'[q].name]) = rcv'[q].got
    BY <1>1, <1>5 DEF Items, ItemsInv
  <2> QED  BY <2>1, <2>2, <2>3 DEF Items, ItemsInv
<1>15. FlowInv'
  <2>1. OpenFlow(d)'
    BY <1>3, <1>6, <1>7 DEF OpenFlow
  <2>2. ASSUME NEW c \in conns
        PROVE  ClosedFlow(c)'
    <3>1. ClosedFlow(c)
      BY <1>1, <1>8 DEF FlowInv, Live
    <3> QED  BY <1>5, <3>1, CarriesFrame
  <2> QED  BY <1>5, <1>7, <1>8, <2>1, <2>2 DEF FlowInv
<1> QED  BY <1>9, <1>10, <1>11, <1>14, <1>15 DEF IInv

\* The peer that dies has no connection left that the others could miss.
LEMMA SendKilledStep ==
    ASSUME IInv, NEW p \in EmIds, SendKilled(p), stack' = stack PROVE IInv'
<1> DEFINE s == [snd[p] EXCEPT !.pc = "dead"]
           r == [rcv[p] EXCEPT !.pc = "dead", !.listening = FALSE]
<1>1. TypeInv /\ SocketInv /\ TokenInv /\ ItemsInv /\ FlowInv
  BY DEF IInv
<1>2. snd[p].fd = "failed" /\ Busy(p)
  BY DEF SendKilled, Busy, InFile
<1>3. /\ s \in SndType /\ s.pc = "dead" /\ r \in RcvType /\ r.pc = "dead" /\ r.name = rcv[p].name
  <2>1. snd[p] \in SndType /\ rcv[p] \in RcvType
    BY <1>1, Locals
  <2> QED  BY <2>1 DEF SndType, RcvType
<1>4. /\ snd' = [snd EXCEPT ![p] = s] /\ rcv' = [rcv EXCEPT ![p] = r]
      /\ UNCHANGED <<files, short>> /\ conns' = {c \in conns : c.dst # p}
  BY <1>1 DEF SendKilled, TypeInv
<1>5. /\ snd'[p] = s /\ \A q \in EmIds \ {p} : snd'[q] = snd[q]
      /\ snd' \in [EmIds -> SndType]
      /\ rcv'[p] = r /\ \A q \in EmIds \ {p} : rcv'[q] = rcv[q]
      /\ rcv' \in [EmIds -> RcvType]
  BY <1>1, <1>3, <1>4 DEF TypeInv
<1> HIDE DEF s, r
<1>6. ASSUME NEW c \in conns'
      PROVE  /\ c \in conns /\ c.dst \in EmIds \ {p} /\ ~ (c.src = p /\ c.open)
             /\ c.src \in EmIds /\ conns' = conns
  <2>1. c \in conns /\ c.dst \in EmIds \ {p} /\ c.src \in EmIds
    BY <1>1, <1>4, <1>6, ConnectionFields
  <2>2. \A e \in conns : e.dst = c.dst
    BY <1>1, <2>1 DEF SocketInv
  <2>3. ~ (c.src = p /\ c.open)
    BY <1>2, <2>1, OpenFacts
  <2> QED  BY <1>4, <2>1, <2>2, <2>3
<1>7. TypeInv'
  BY <1>1, <1>3, <1>4, <1>5 DEF TypeInv
<1>8. SocketInv'
  <2>1. \A c \in conns' : c.open => snd'[c.src].fd = "connected"
                                    /\ snd'[c.src].pc \in {"length", "open", "file", "idle"}
    BY <1>1, <1>5, <1>6 DEF SocketInv
  <2>2. \A c \in conns' : c.accepted => rcv'[c.dst].pc \in {"length", "file"}
    BY <1>1, <1>5, <1>6 DEF SocketInv
  <2>3. ASSUME NEW q \in EmIds, rcv'[q].pc \in {"length", "file"}
        PROVE  Accepted(q)' # {}
    <3>1. q # p /\ Accepted(q) # {}
      BY <1>1, <1>3, <1>5, <2>3 DEF SocketInv
    <3> QED  BY <1>4, <3>1 DEF Accepted
  <2> QED  BY <1>1, <1>6, <2>1, <2>2, <2>3 DEF SocketInv
<1>9. TokenInv'
  <2>1. ~ Busy(p)'
    BY <1>3, <1>5 DEF Busy, InFile
  <2>2. \A q \in EmIds : Busy(q)' => Busy(q) /\ snd'[q].to = snd[q].to
    BY <1>5, <2>1, BusyFrame
  <2> QED  BY <1>1, <1>6, <2>2, TokenFrame
<1>10. \A c \in conns' : InRecv(c)' = InRecv(c)
  BY <1>5, <1>6, CarriesFrame
<1>11. ItemsInv'
  <2>1. \A c \in conns' : c.open => Started(c)'
    BY <1>1, <1>5, <1>6, OpenFrame DEF Items, ItemsInv
  <2>2. \A c \in conns' : Items(c.bytes, ~ InRecv(c)')
    BY <1>1, <1>6, <1>10 DEF Items, ItemsInv
  <2>3. \A q \in EmIds : rcv'[q].pc = "file" => Len(files'[rcv'[q].name]) = rcv'[q].got
    BY <1>1, <1>3, <1>4, <1>5 DEF Items, ItemsInv
  <2> QED  BY <2>1, <2>2, <2>3 DEF Items, ItemsInv
<1>12. FlowInv'
  <2>1. ASSUME NEW c \in conns', Live(c)'
        PROVE  IF c.open THEN OpenFlow(c)' ELSE ClosedFlow(c)'
    <3>1. c \in conns /\ Live(c) /\ rcv'[c.dst] = rcv[c.dst] /\ (c.open => snd'[c.src] = snd[c.src])
      BY <1>5, <1>6, <2>1 DEF Live
    <3>2. IF c.open THEN OpenFlow(c) ELSE ClosedFlow(c)
      BY <1>1, <3>1 DEF FlowInv
    <3> QED  BY <1>4, <3>1, <3>2, CarriesFrame, OpenFrame
  <2> QED  BY <2>1 DEF FlowInv
<1> QED  BY <1>7, <1>8, <1>9, <1>11, <1>12 DEF IInv
-----------------------------------------------------------------------------
(* The steps of the receiving thread.                                      *)

\* What the receiver has and gets is the whole file at most, and less if the
\* connection has been closed.
LEMMA NoMoreThanWhole ==
    ASSUME IInv, NEW c \in conns, c.accepted, HasLength(c)
    PROVE  /\ Total(c) \in Int /\ Expected(c) \in Int
           /\ Total(c) <= Expected(c) /\ (~ c.open => Total(c) < Expected(c))
<1>1. TypeInv /\ FlowInv /\ ItemsInv
  BY DEF IInv
<1>2. /\ c.src \in EmIds /\ c.dst \in EmIds /\ c.bytes \in Seq(Int) /\ Len(c.bytes) \in Nat
      /\ rcv[c.dst].got \in Nat /\ rcv[c.dst].expected \in Nat
  BY <1>1, ConnectionFields, Locals
<1>3. Total(c) \in Int /\ Expected(c) \in Int
  <2>1. Total(c) \in Int
    BY <1>2 DEF Total
  <2>2. CASE InRecv(c)
    BY <1>2, <2>1, <2>2 DEF Expected
  <2>3. CASE ~ InRecv(c)
    <3>1. c.bytes[1] \in Int
      BY <1>2, <2>3, EmptySeq, ElementOfSeq DEF HasLength
    <3> QED  BY <2>1, <2>3, <3>1 DEF Expected
  <2> QED  BY <2>2, <2>3
<1>4. Live(c)
  BY DEF Live
<1>5. CASE ~ c.open
  BY <1>1, <1>3, <1>4, <1>5 DEF FlowInv, ClosedFlow
<1>6. CASE c.open
  <2>1. /\ OpenFlow(c) /\ snd[c.src].pc \in {"open", "file", "idle"}
    BY <1>4, <1>6, OpenFacts DEF Started
  <2>2. snd[c.src].totalSent \in Nat /\ snd[c.src].toSend \in Nat
    BY <1>1, <1>2, Locals
  <2> QED  BY <1>3, <1>6, <2>1, <2>2 DEF OpenFlow
<1> QED  BY <1>5, <1>6

LEMMA ListenStep ==
    ASSUME IInv, NEW q \in EmIds, Listen(q), stack' = stack PROVE IInv'
<1> DEFINE r == [rcv[q] EXCEPT !.pc = "accept", !.listening = TRUE]
<1>1. TypeInv /\ SocketInv /\ TokenInv /\ ItemsInv /\ FlowInv
  BY DEF IInv
<1>2. r \in RcvType /\ r.pc = "accept" /\ r.name = rcv[q].name
  <2>1. rcv[q] \in RcvType
    BY <1>1, Locals
  <2> QED  BY <2>1 DEF RcvType
<1>3. rcv[q].pc = "listen" /\ rcv' = [rcv EXCEPT ![q] = r] /\ UNCHANGED <<snd, conns, files, short>>
  BY <1>1 DEF Listen, TypeInv
<1>4. /\ rcv'[q] = r /\ \A p \in EmIds \ {q} : rcv'[p] = rcv[p]
      /\ rcv' \in [EmIds -> RcvType]
  BY <1>1, <1>2, <1>3 DEF TypeInv
<1> HIDE DEF r
<1>5. \A c \in conns : c.accepted => rcv'[c.dst] = rcv[c.dst]
  <2> SUFFICES ASSUME NEW c \in conns, c.accepted PROVE rcv'[c.dst] = rcv[c.dst]
    OBVIOUS
  <2>1. c.dst \in EmIds /\ c.dst # q
    BY <1>1, <1>3, ConnectionFields DEF SocketInv
  <2> QED  BY <1>4, <2>1
<1>6. TypeInv'
  BY <1>1, <1>2, <1>3, <1>4 DEF TypeInv
<1>7. SocketInv'
  <2>1. \A p \in EmIds : rcv'[p].pc \in {"length", "file"} => p # q
    BY <1>2, <1>4
  <2> QED  BY <1>1, <1>3, <1>4, <1>5, <2>1 DEF SocketInv, Accepted
<1>8. TokenInv'
  BY <1>1, <1>3, BusyFrame, TokenFrame
<1>9. \A c \in conns : InRecv(c)' = InRecv(c)
  BY <1>5, CarriesFrame
<1>10. ItemsInv'
  <2>1. \A c \in conns : c.open => Started(c)'
    BY <1>1, <1>3, <1>5, OpenFrame DEF Items, ItemsInv
  <2>2. \A p \in EmIds : rcv'[p].pc = "file" => Len(files'[rcv'[p].name]) = rcv'[p].got
    BY <1>1, <1>2, <1>3, <1>4 DEF Items, ItemsInv
  <2> QED  BY <1>1, <1>3, <1>9, <2>1, <2>2 DEF Items, ItemsInv
<1>11. FlowInv'
  <2>1. ASSUME NEW c \in conns, Live(c)
        PROVE  IF c.open THEN OpenFlow(c)' ELSE ClosedFlow(c)'
    BY <1>1, <1>3, <1>5, <2>1, CarriesFrame, OpenFrame DEF FlowInv
  <2> QED  BY <1>3, <2>1 DEF FlowInv, Live
<1> QED  BY <1>6, <1>7, <1>8, <1>10, <1>11 DEF IInv

\* Whoever waits to be accepted waits alone.
LEMMA AcceptStep ==
    ASSUME IInv, NEW q \in EmIds, Accept(q), stack' = stack PROVE IInv'
<1> DEFINE r == [rcv[q] EXCEPT !.pc = "length"]
<1>1. TypeInv /\ SocketInv /\ TokenInv /\ ItemsInv /\ FlowInv
  BY DEF IInv
<1>2. r \in RcvType /\ r.pc = "length" /\ r.name = rcv[q].name
  <2>1. rcv[q] \in RcvType
    BY <1>1, Locals
  <2> QED  BY <2>1 DEF RcvType
<1>3. rcv[q].pc = "accept" /\ rcv' = [rcv EXCEPT ![q] = r] /\ UNCHANGED <<snd, files, short>>
  BY <1>1 DEF Accept, TypeInv
<1>4. /\ rcv'[q] = r /\ \A p \in EmIds \ {q} : rcv'[p] = rcv[p]
      /\ rcv' \in [EmIds -> RcvType]
  BY <1>1, <1>2, <1>3 DEF TypeInv
<1> HIDE DEF r
<1>5. PICK c \in Backlog(q), d \in {[e EXCEPT !.accepted = TRUE] : e \in Backlog(q)} :
          d = [c EXCEPT !.accepted = TRUE] /\ Replace(c, d)
  BY DEF Accept
<1>6. c \in conns /\ c.dst = q /\ ~ c.accepted /\ c \in Connections /\ c.src \in EmIds
  BY <1>1, <1>5, ConnectionFields DEF Backlog
<1>7. /\ d \in Connections /\ d.src = c.src /\ d.dst = q /\ d.accepted
      /\ d.open = c.open /\ d.bytes = c.bytes
  BY <1>5, <1>6 DEF Connections
<1>8. conns = {c}
  <2>1. ASSUME NEW e \in conns PROVE e = c
    <3>1. e.dst = q /\ ~ e.accepted
      BY <1>1, <1>3, <1>6 DEF SocketInv
    <3> QED  BY <1>1, <1>6, <3>1, ConnectionFields DEF SocketInv
  <2> QED  BY <1>6, <2>1
<1>9. conns' = {d}
  BY <1>5, <1>8 DEF Replace
<1>10. ~ InRecv(c) /\ ~ InRecv(d)'
  BY <1>2, <1>4, <1>6, <1>7 DEF InRecv
<1>11. HasLength(d)' = HasLength(c) /\ Total(d)' = Total(c) /\ Expected(d)' = Expected(c)
  BY <1>7, <1>10 DEF HasLength, Total, Expected
<1>12. \A p \in EmIds : p # q => rcv[p].pc \notin {"length", "file"}
  BY <1>1, <1>6, <1>8 DEF SocketInv, Accepted
<1>13. TypeInv'
  BY <1>1, <1>2, <1>3, <1>4, <1>7, <1>9 DEF TypeInv
<1>14. SocketInv'
  <2>1. Accepted(q)' # {}
    BY <1>7, <1>9 DEF Accepted
  <2>2. \A p \in EmIds : rcv'[p].pc \in {"length", "file"} => p = q
    BY <1>4, <1>12
  <2>3. d.open => snd'[d.src].fd = "connected" /\ snd'[d.src].pc \in {"length", "open", "file", "idle"}
    BY <1>1, <1>3, <1>6, <1>7, ZenonT(30) DEF SocketInv
  <2> QED  BY <1>2, <1>4, <1>7, <1>9, <2>1, <2>2, <2>3 DEF SocketInv
<1>15. TokenInv'
  BY <1>1, <1>3, <1>6, <1>7, <1>9, BusyFrame, TokenFrame
<1>16. ItemsInv'
  <2>1. d.open => Started(d)'
    BY <1>1, <1>3, <1>6, <1>7, <1>11 DEF Items, ItemsInv, Started
  <2>2. Items(d.bytes, ~ InRecv(d)')
    BY <1>1, <1>6, <1>7, <1>10 DEF Items, ItemsInv
  <2>3. \A p \in EmIds : rcv'[p].pc # "file"
    BY <1>2, <1>4, <1>12
  <2> QED  BY <1>9, <2>1, <2>2, <2>3 DEF Items, ItemsInv
<1>17. FlowInv'
  <2>1. IF c.open THEN OpenFlow(c) ELSE ClosedFlow(c)
    BY <1>1, <1>6, <1>8 DEF FlowInv, Live
  <2>2. CASE d.open
    BY <1>3, <1>7, <1>9, <1>11, <2>1, <2>2 DEF FlowInv, OpenFlow
  <2>3. CASE ~ d.open
    BY <1>7, <1>9, <1>11, <2>1, <2>3 DEF FlowInv, ClosedFlow
  <2> QED  BY <2>2, <2>3
<1> QED  BY <1>13, <1>14, <1>15, <1>16, <1>17 DEF IInv

\* The length is taken off the connection: the rest is the same.
LEMMA RecvLengthStep ==
    ASSUME IInv, NEW q \in EmIds, RecvLength(q), stack' = stack PROVE IInv'
<1>1. TypeInv /\ SocketInv /\ TokenInv /\ ItemsInv /\ FlowInv
  BY DEF IInv
<1>2. PICK c \in Accepted(q), d \in {[e EXCEPT !.bytes = Tail(e.bytes)] : e \in Accepted(q)} :
          /\ c.bytes # <<>> /\ d = [c EXCEPT !.bytes = Tail(c.bytes)] /\ Replace(c, d)
          /\ rcv' = [rcv EXCEPT ![q].pc = "file", ![q].expected = - Head(c.bytes), ![q].got = 0]
  BY DEF RecvLength
<1>3. /\ c \in conns /\ c.dst = q /\ c.accepted /\ c \in Connections /\ c.src \in EmIds
      /\ c.bytes \in Seq(Int) /\ Len(c.bytes) \in Nat /\ Len(c.bytes) > 0
      /\ rcv[q].pc = "length" /\ ~ InRecv(c) /\ HasLength(c) /\ rcv[q].name \in Names
  BY <1>1, <1>2, ConnectionFields, EmptySeq, Locals DEF Accepted, RecvLength, InRecv, HasLength
<1>4. /\ Tail(c.bytes) \in Seq(Int) /\ Len(Tail(c.bytes)) = Len(c.bytes) - 1
      /\ \A i \in 1 .. Len(Tail(c.bytes)) : Tail(c.bytes)[i] = c.bytes[i + 1]
      /\ Head(c.bytes) = c.bytes[1] /\ - c.bytes[1] \in 1 .. Len(File)
  <2>1. - c.bytes[1] \in 1 .. Len(File)
    BY <1>1, <1>3 DEF Items, ItemsInv
  <2>2. /\ Tail(c.bytes) \in Seq(Int) /\ Len(Tail(c.bytes)) = Len(c.bytes) - 1
        /\ \A i \in 1 .. Len(Tail(c.bytes)) : Tail(c.bytes)[i] = c.bytes[i + 1]
    BY <1>2, <1>3, HeadTailProperties
  <2>3. Head(c.bytes) = c.bytes[1]
    BY <1>2, <1>3
  <2> QED  BY <2>1, <2>2, <2>3
<1>5. /\ d \in Connections /\ d.src = c.src /\ d.dst = q /\ d.accepted /\ d.accepted = c.accepted
      /\ d.open = c.open /\ d.bytes = Tail(c.bytes) /\ d.dst = c.dst
  BY <1>2, <1>3, <1>4 DEF Connections
<1>6. /\ conns' \subseteq Connections /\ d \in conns'
      /\ \A e \in conns' : e # d => e \in conns /\ e # c /\ (Live(e)' => Live(e))
      /\ Live(d)' => Live(c)
      /\ \A e, f \in conns' : /\ e.src = f.src /\ e.dst = f.dst
                              /\ e.accepted = f.accepted => e = f
                              /\ e # f /\ e.accepted => ~ e.open
      /\ \A p \in EmIds : Accepted(p) # {} => Accepted(p)' # {}
  BY <1>1, <1>2, <1>3, <1>5, Replaced
<1>7. PICK r : r = [rcv[q] EXCEPT !.pc = "file", !.expected = - Head(c.bytes), !.got = 0]
  OBVIOUS
<1>8. /\ r \in RcvType /\ r.pc = "file" /\ r.name = rcv[q].name
      /\ r.expected = - c.bytes[1] /\ r.got = 0
  <2>1. rcv[q] \in RcvType /\ 0 \in Sizes /\ - Head(c.bytes) \in Sizes
    BY <1>1, <1>4, Locals, Parameters DEF Sizes
  <2> QED  BY <1>4, <1>7, <2>1 DEF RcvType
<1>9. rcv' = [rcv EXCEPT ![q] = r] /\ UNCHANGED <<snd, short>>
      /\ files' = [files EXCEPT ![rcv[q].name] = <<>>]
  BY <1>1, <1>2, <1>7 DEF RecvLength, TypeInv
<1>10. /\ rcv'[q] = r /\ \A p \in EmIds \ {q} : rcv'[p] = rcv[p]
       /\ rcv' \in [EmIds -> RcvType] /\ files'[rcv[q].name] = <<>>
       /\ \A n \in Names : files'[n] = files[n] \/ files'[n] = <<>>
  BY <1>1, <1>3, <1>8, <1>9 DEF TypeInv
<1>11. ASSUME NEW e \in conns', e # d
       PROVE  e \in conns /\ ~ e.accepted /\ e.accepted = FALSE /\ e.dst = q /\ e.src = c.src
  BY <1>3, <1>6, <1>11, <1>1, OneAccepted DEF SocketInv
<1>12. \A p \in EmIds : p # q => rcv[p].pc \notin {"length", "file"}
  <2> SUFFICES ASSUME NEW p \in EmIds, rcv[p].pc \in {"length", "file"} PROVE p = q
    OBVIOUS
  <2>1. PICK e \in conns : e.dst = p
    BY <1>1 DEF SocketInv, Accepted
  <2> QED  BY <1>1, <1>3, <2>1 DEF SocketInv
<1>13. InRecv(d)' /\ HasLength(d)' /\ Total(d)' = Total(c) /\ Expected(d)' = Expected(c)
  <2>1. InRecv(d)' /\ HasLength(d)'
    BY <1>5, <1>8, <1>10 DEF InRecv, HasLength
  <2>2. Total(d)' = 0 + Len(Tail(c.bytes)) /\ Expected(d)' = - c.bytes[1]
    BY <1>5, <1>8, <1>10, <2>1 DEF Total, Expected
  <2> QED  BY <1>3, <1>4, <2>1, <2>2 DEF Total, Expected
<1>14. TypeInv'
  <2>1. files' \in [Names -> Seq(Nat)] /\ \A n \in Names : Len(files'[n]) <= Len(File)
    <3>1. <<>> \in Seq(Nat) /\ Len(<<>>) = 0 /\ Len(File) \in Nat
      BY EmptySeq, Parameters
    <3>2. files' \in [Names -> Seq(Nat)]
      BY <1>1, <1>9, <3>1 DEF TypeInv
    <3> QED  BY <1>1, <1>10, <3>1, <3>2 DEF TypeInv
  <2>2. \A p \in EmIds : rcv'[p].name \in NamesOf[p]
    BY <1>1, <1>8, <1>10 DEF TypeInv
  <2> QED  BY <1>1, <1>6, <1>9, <1>10, <2>1, <2>2 DEF TypeInv
<1>15. SocketInv'
  <2>1. \A e \in conns' : e.open => snd'[e.src].fd = "connected"
                                    /\ snd'[e.src].pc \in {"length", "open", "file", "idle"}
    BY <1>1, <1>3, <1>5, <1>6, <1>9 DEF SocketInv
  <2>2. \A e \in conns' : e.accepted => rcv'[e.dst].pc \in {"length", "file"}
    BY <1>5, <1>8, <1>10, <1>11
  <2>3. \A p \in EmIds : rcv'[p].pc \in {"length", "file"} => Accepted(p)' # {}
    BY <1>1, <1>3, <1>6, <1>10 DEF SocketInv
  <2> QED  BY <1>6, <2>1, <2>2, <2>3 DEF SocketInv
<1>16. TokenInv'
  <2>1. \A e \in conns' : \E f \in conns : e.src = f.src /\ e.dst = f.dst
    BY <1>3, <1>5, <1>6
  <2> QED  BY <1>1, <1>9, <2>1, BusyFrame, TokenFrame
<1>17. ItemsInv'
  <2>1. ASSUME NEW e \in conns', e.open
        PROVE  Started(e)'
    <3>1. CASE e = d
      BY <1>1, <1>3, <1>5, <1>9, <1>13, <2>1, <3>1 DEF Items, Started, ItemsInv
    <3>2. CASE e # d
      BY <1>1, <1>9, <1>11, <2>1, <3>2, OpenFrame DEF Items, ItemsInv
    <3> QED  BY <3>1, <3>2
  <2>2. ASSUME NEW e \in conns', NEW i \in 1 .. Len(e.bytes)
        PROVE  IF i = 1 /\ ~ InRecv(e)' THEN - e.bytes[i] \in 1 .. Len(File) ELSE e.bytes[i] \in Nat
    <3>1. CASE e = d
      <4>1. i + 1 \in 1 .. Len(c.bytes) /\ i + 1 # 1 /\ e.bytes[i] = c.bytes[i + 1]
        <5>1. i \in 1 .. Len(Tail(c.bytes))
          BY <1>5, <2>2, <3>1
        <5>2. e.bytes[i] = c.bytes[i + 1]
          BY <1>4, <1>5, <3>1, <5>1
        <5>3. i + 1 \in 1 .. Len(c.bytes) /\ i + 1 # 1
          BY <1>3, <1>4, <5>1, SMTT(30)
        <5> QED  BY <5>2, <5>3
      <4>2. c.bytes[i + 1] \in Nat
        BY <1>1, <1>3, <4>1 DEF Items, ItemsInv
      <4> QED  BY <1>13, <3>1, <4>1, <4>2
    <3>2. CASE e # d
      BY <1>1, <1>11, <2>2, <3>2 DEF Items, ItemsInv, InRecv
    <3> QED  BY <3>1, <3>2
  <2>3. \A p \in EmIds : rcv'[p].pc = "file" => Len(files'[rcv'[p].name]) = rcv'[p].got
    BY <1>8, <1>10, <1>12, EmptySeq
  <2> QED  BY <2>1, <2>2, <2>3 DEF Items, ItemsInv
<1>18. FlowInv'
  <2>1. ASSUME NEW e \in conns', e # d
        PROVE  ~ Live(e)'
    BY <1>6, <1>11, <2>1 DEF Live
  <2>2. CASE ~ d.open
    <3>1. ClosedFlow(c)
      BY <1>1, <1>3, <1>5, <2>2 DEF FlowInv, Live
    <3>2. ClosedFlow(d)'
      BY <1>13, <3>1 DEF ClosedFlow
    <3> QED  BY <2>1, <2>2, <3>2 DEF FlowInv
  <2>3. CASE d.open
    <3>1. OpenFlow(c) /\ Started(c)
      BY <1>3, <1>5, <2>3, OpenFacts DEF Live
    <3>2. ASSUME snd[c.src].pc \in {"open", "file"}
          PROVE  Len(files'[snd[c.src].name]) <= snd[c.src].toSend
      <4>1. /\ Len(files[snd[c.src].name]) <= snd[c.src].toSend
            /\ snd[c.src].toSend \in Nat /\ snd[c.src].name \in Names
        BY <1>1, <1>3, <3>1, <3>2, Locals DEF OpenFlow
      <4> QED  BY <1>10, <4>1, EmptySeq
    <3>3. OpenFlow(d)'
      BY <1>5, <1>9, <1>13, <3>1, <3>2, <1>3 DEF OpenFlow
    <3> QED  BY <2>1, <2>3, <3>3 DEF FlowInv
  <2> QED  BY <2>2, <2>3
<1> QED  BY <1>14, <1>15, <1>16, <1>17, <1>18 DEF IInv

\* recvFile takes no more than what has been sent.
LEMMA RecvFileChunkStep ==
    ASSUME IInv, NEW q \in EmIds, RecvFileChunk(q), stack' = stack PROVE IInv'
<1> DEFINE name == rcv[q].name
           got == rcv[q].got
<1>1. TypeInv /\ SocketInv /\ TokenInv /\ ItemsInv /\ FlowInv
  BY DEF IInv
<1>0. PICK c \in Accepted(q) : \E r \in 1 .. Min({RecvChunk, Len(c.bytes)}) :
          /\ files' = [files EXCEPT ![name] = files[name] \o SubSeq(c.bytes, 1, r)]
          /\ rcv' = [rcv EXCEPT ![q].got = got + r]
          /\ Replace(c, [c EXCEPT !.bytes = SubSeq(c.bytes, r + 1, Len(c.bytes))])
  BY <1>1 DEF RecvFileChunk, TypeInv
<1>2. PICK r \in 1 .. Min({RecvChunk, Len(c.bytes)}) :
          /\ files' = [files EXCEPT ![name] = files[name] \o SubSeq(c.bytes, 1, r)]
          /\ rcv' = [rcv EXCEPT ![q].got = got + r]
          /\ Replace(c, [c EXCEPT !.bytes = SubSeq(c.bytes, r + 1, Len(c.bytes))])
  BY <1>0
<1>3. PICK d : d = [c EXCEPT !.bytes = SubSeq(c.bytes, r + 1, Len(c.bytes))]
  OBVIOUS
<1>4. /\ c \in conns /\ c.dst = q /\ c.accepted /\ c \in Connections /\ c.src \in EmIds
      /\ c.bytes \in Seq(Int) /\ Len(c.bytes) \in Nat
      /\ rcv[q].pc = "file" /\ InRecv(c) /\ HasLength(c)
  BY <1>1, <1>2, ConnectionFields DEF Accepted, RecvFileChunk, InRecv, HasLength
<1>5. /\ got \in Nat /\ rcv[q].expected \in Nat /\ name \in Names /\ Len(File) \in Nat
      /\ rcv[q].expected <= Len(File) /\ files[name] \in Seq(Nat) /\ Len(files[name]) = got
      /\ rcv[q] \in RcvType
  <2>1. rcv[q] \in RcvType
    BY <1>1, Locals
  <2>2. rcv[q].expected <= Len(File)
    BY <2>1, Parameters DEF RcvType, Sizes
  <2> QED  BY <1>1, <1>4, <2>1, <2>2, Locals, Parameters DEF Items, ItemsInv
<1>6. r \in Nat /\ r > 0 /\ r <= Len(c.bytes)
  <2>1. RecvChunk \in Int /\ Len(c.bytes) \in Int
    BY <1>4, Parameters
  <2>2. Min({RecvChunk, Len(c.bytes)}) \in Int /\ Min({RecvChunk, Len(c.bytes)}) <= Len(c.bytes)
    BY <2>1, MinOfTwo
  <2> QED  BY <1>4, <2>2
<1>7. /\ Total(c) = got + Len(c.bytes) /\ Expected(c) = rcv[q].expected /\ Total(c) <= Expected(c)
  BY <1>1, <1>4, NoMoreThanWhole DEF Total, Expected
<1>8. got + r <= rcv[q].expected /\ got + r \in Sizes
  <2>1. \A a, b, x, m \in Nat : b <= x /\ a + x <= m => a + b <= m
    OBVIOUS
  <2>2. got + r <= rcv[q].expected
    BY <1>4, <1>5, <1>6, <1>7, <2>1, SMTT(30)
  <2>3. \A a, b, x, m \in Nat : a + b <= x /\ x <= m => a + b \in 0 .. m
    OBVIOUS
  <2> QED  BY <1>5, <1>6, <2>2, <2>3 DEF Sizes
<1>9. /\ SubSeq(c.bytes, 1, r) \in Seq(Nat) /\ Len(SubSeq(c.bytes, 1, r)) = r
  <2>1. ASSUME NEW i \in 1 .. r
        PROVE  c.bytes[i] \in Nat
    <3>1. i \in 1 .. Len(c.bytes)
      BY <1>4, <1>6
    <3> QED  BY <1>1, <1>4, <3>1 DEF Items, ItemsInv
  <2>2. /\ SubSeq(c.bytes, 1, r) \in Seq(Nat)
        /\ Len(SubSeq(c.bytes, 1, r)) = IF 1 <= r THEN r - 1 + 1 ELSE 0
    BY <1>6, <2>1, SubSeqProperties
  <2> QED  BY <1>6, <2>2
<1>10. /\ files[name] \o SubSeq(c.bytes, 1, r) \in Seq(Nat)
       /\ Len(files[name] \o SubSeq(c.bytes, 1, r)) = got + r
  BY <1>5, <1>9, ConcatProperties, SMTT(30)
<1>11. PICK bytes : bytes = SubSeq(c.bytes, r + 1, Len(c.bytes))
  OBVIOUS
<1>12. /\ bytes \in Seq(Int) /\ Len(bytes) = Len(c.bytes) - r
       /\ \A i \in 1 .. Len(bytes) : i + r \in 1 .. Len(c.bytes) /\ bytes[i] = c.bytes[i + r]
  <2>1. \A i \in r + 1 .. Len(c.bytes) : c.bytes[i] \in Int
    <3>1. \A i \in r + 1 .. Len(c.bytes) : i \in 1 .. Len(c.bytes)
      BY <1>4, <1>6
    <3> QED  BY <1>4, <3>1, ElementOfSeq
  <2>2. /\ bytes \in Seq(Int)
        /\ Len(bytes) = IF r + 1 <= Len(c.bytes) THEN Len(c.bytes) - (r + 1) + 1 ELSE 0
        /\ \A i \in 1 .. Len(c.bytes) - (r + 1) + 1 : bytes[i] = c.bytes[r + 1 + i - 1]
    <3>1. r + 1 \in Int /\ Len(c.bytes) \in Int
      BY <1>4, <1>6
    <3> QED  BY <1>11, <2>1, <3>1, SubSeqProperties
  <2>3. Len(bytes) = Len(c.bytes) - r
    BY <1>4, <1>6, <2>2
  <2>4. ASSUME NEW i \in 1 .. Len(bytes)
        PROVE  i + r \in 1 .. Len(c.bytes) /\ bytes[i] = c.bytes[i + r]
    <3>1. /\ i + r \in 1 .. Len(c.bytes) /\ r + 1 + i - 1 = i + r
          /\ i \in 1 .. Len(c.bytes) - (r + 1) + 1
      BY <1>4, <1>6, <2>3
    <3> QED  BY <2>2, <3>1
  <2> QED  BY <2>2, <2>3, <2>4
<1>13. /\ d \in Connections /\ d.src = c.src /\ d.dst = q /\ d.dst = c.dst /\ d.accepted
       /\ d.accepted = c.accepted /\ d.open = c.open /\ d.bytes = bytes
  BY <1>3, <1>4, <1>11, <1>12 DEF Connections
<1>14. /\ conns' \subseteq Connections /\ d \in conns'
       /\ \A e \in conns' : e # d => e \in conns /\ e # c /\ (Live(e)' => Live(e))
       /\ \A e, f \in conns' : /\ e.src = f.src /\ e.dst = f.dst
                               /\ e.accepted = f.accepted => e = f
                               /\ e # f /\ e.accepted => ~ e.open
       /\ \A p \in EmIds : Accepted(p) # {} => Accepted(p)' # {}
  BY <1>1, <1>2, <1>3, <1>4, <1>13, Replaced
<1>15. PICK s : s = [rcv[q] EXCEPT !.got = got + r]
  OBVIOUS
<1>16. /\ s \in RcvType /\ s.pc = "file" /\ s.name = name
       /\ s.expected = rcv[q].expected /\ s.got = got + r
  BY <1>4, <1>5, <1>8, <1>15 DEF RcvType
<1>17. rcv' = [rcv EXCEPT ![q] = s] /\ UNCHANGED <<snd, short>>
  BY <1>1, <1>2, <1>15 DEF RecvFileChunk, TypeInv
<1>18. /\ rcv'[q] = s /\ \A p \in EmIds \ {q} : rcv'[p] = rcv[p]
       /\ rcv' \in [EmIds -> RcvType] /\ files' \in [Names -> Seq(Nat)]
       /\ Len(files'[name]) = got + r
       /\ \A n \in Names : n # name => files'[n] = files[n]
  BY <1>1, <1>2, <1>5, <1>10, <1>16, <1>17 DEF TypeInv
<1> HIDE DEF name, got
<1>19. ASSUME NEW e \in conns', e # d
       PROVE  e \in conns /\ ~ e.accepted /\ e.accepted = FALSE /\ e.dst = q /\ e.src = c.src
  BY <1>1, <1>4, <1>14, <1>19, OneAccepted DEF SocketInv
<1>20. \A p \in EmIds : p # q => rcv[p].pc \notin {"length", "file"}
  <2> SUFFICES ASSUME NEW p \in EmIds, rcv[p].pc \in {"length", "file"} PROVE p = q
    OBVIOUS
  <2>1. PICK e \in conns : e.dst = p
    BY <1>1 DEF SocketInv, Accepted
  <2> QED  BY <1>1, <1>4, <2>1 DEF SocketInv
<1>21. InRecv(d)' /\ HasLength(d)' /\ Total(d)' = Total(c) /\ Expected(d)' = Expected(c)
  <2>1. InRecv(d)' /\ HasLength(d)'
    BY <1>13, <1>16, <1>18 DEF InRecv, HasLength
  <2>2. Total(d)' = got + r + Len(bytes) /\ Expected(d)' = rcv[q].expected
    BY <1>13, <1>16, <1>18, <2>1 DEF Total, Expected
  <2>3. \A a, b, x \in Nat : a + b + (x - b) = a + x
    OBVIOUS
  <2>4. Total(d)' = Total(c)
    BY <1>4, <1>5, <1>6, <1>7, <1>12, <2>2, <2>3
  <2> QED  BY <1>7, <2>1, <2>2, <2>4
<1>22. TypeInv'
  <2>1. ASSUME NEW n \in Names
        PROVE  Len(files'[n]) <= Len(File)
    <3>1. CASE n = name
      BY <1>5, <1>6, <1>8, <1>18, <3>1 DEF Sizes
    <3>2. CASE n # name
      BY <1>1, <1>18, <3>2 DEF TypeInv
    <3> QED  BY <3>1, <3>2
  <2>2. \A p \in EmIds : rcv'[p].name \in NamesOf[p]
    BY <1>1, <1>16, <1>18 DEF TypeInv, name
  <2> QED  BY <1>1, <1>14, <1>17, <1>18, <2>1, <2>2 DEF TypeInv
<1>23. SocketInv'
  <2>1. \A e \in conns' : e.open => snd'[e.src].fd = "connected"
                                    /\ snd'[e.src].pc \in {"length", "open", "file", "idle"}
    BY <1>1, <1>4, <1>13, <1>14, <1>17 DEF SocketInv
  <2>2. \A e \in conns' : e.accepted => rcv'[e.dst].pc \in {"length", "file"}
    BY <1>13, <1>16, <1>18, <1>19
  <2>3. \A p \in EmIds : rcv'[p].pc \in {"length", "file"} => Accepted(p)' # {}
    BY <1>1, <1>4, <1>14, <1>18 DEF SocketInv
  <2> QED  BY <1>14, <2>1, <2>2, <2>3 DEF SocketInv
<1>24. TokenInv'
  <2>1. \A e \in conns' : \E f \in conns : e.src = f.src /\ e.dst = f.dst
    BY <1>4, <1>13, <1>14
  <2> QED  BY <1>1, <1>17, <2>1, BusyFrame, TokenFrame
<1>25. ItemsInv'
  <2>1. ASSUME NEW e \in conns', e.open
        PROVE  Started(e)'
    <3>1. CASE e = d
      BY <1>1, <1>4, <1>13, <1>17, <1>21, <2>1, <3>1 DEF Items, Started, ItemsInv
    <3>2. CASE e # d
      BY <1>1, <1>17, <1>19, <2>1, <3>2, OpenFrame DEF Items, ItemsInv
    <3> QED  BY <3>1, <3>2
  <2>2. ASSUME NEW e \in conns', NEW i \in 1 .. Len(e.bytes)
        PROVE  IF i = 1 /\ ~ InRecv(e)' THEN - e.bytes[i] \in 1 .. Len(File) ELSE e.bytes[i] \in Nat
    <3>1. CASE e = d
      <4>1. i + r \in 1 .. Len(c.bytes) /\ e.bytes[i] = c.bytes[i + r]
        BY <1>12, <1>13, <2>2, <3>1
      <4> QED  BY <1>1, <1>4, <1>21, <3>1, <4>1 DEF Items, ItemsInv
    <3>2. CASE e # d
      BY <1>1, <1>19, <2>2, <3>2 DEF Items, ItemsInv, InRecv
    <3> QED  BY <3>1, <3>2
  <2>3. \A p \in EmIds : rcv'[p].pc = "file" => Len(files'[rcv'[p].name]) = rcv'[p].got
    BY <1>16, <1>18, <1>20
  <2> QED  BY <2>1, <2>2, <2>3 DEF Items, ItemsInv
<1>26. FlowInv'
  <2>1. ASSUME NEW e \in conns', e # d
        PROVE  ~ Live(e)'
    BY <1>14, <1>19, <2>1 DEF Live
  <2>2. CASE ~ d.open
    <3>1. ClosedFlow(c)
      BY <1>1, <1>4, <1>13, <2>2 DEF FlowInv, Live
    <3>2. ClosedFlow(d)'
      BY <1>21, <3>1 DEF ClosedFlow
    <3> QED  BY <2>1, <2>2, <3>2 DEF FlowInv
  <2>3. CASE d.open
    <3>1. OpenFlow(c) /\ Started(c)
      BY <1>4, <1>13, <2>3, OpenFacts DEF Live
    <3>2. ASSUME snd[c.src].pc \in {"open", "file"}
          PROVE  Len(files'[snd[c.src].name]) <= snd[c.src].toSend
      <4>1. /\ Len(files[snd[c.src].name]) <= snd[c.src].toSend
            /\ snd[c.src].toSend \in Nat /\ snd[c.src].name \in Names
            /\ Expected(c) = snd[c.src].toSend
        BY <1>1, <1>4, <3>1, <3>2, Locals DEF OpenFlow
      <4>2. got + r <= snd[c.src].toSend
        BY <1>7, <1>8, <4>1
      <4> QED  BY <1>18, <4>1, <4>2
    <3>3. OpenFlow(d)'
      BY <1>4, <1>13, <1>17, <1>21, <3>1, <3>2 DEF OpenFlow
    <3> QED  BY <2>1, <2>3, <3>3 DEF FlowInv
  <2> QED  BY <2>2, <2>3
<1> QED  BY <1>22, <1>23, <1>24, <1>25, <1>26 DEF IInv

\* With the accepted connection goes all there is.
LEMMA RecvFileFailsStep ==
    ASSUME IInv, NEW q \in EmIds, RecvFileFails(q), stack' = stack PROVE IInv'
<1> DEFINE r == [rcv[q] EXCEPT !.pc = "listen", !.listening = FALSE]
<1>1. TypeInv /\ SocketInv /\ TokenInv /\ ItemsInv /\ FlowInv
  BY DEF IInv
<1>2. PICK c \in conns : c.dst = q
  BY DEF RecvFileFails, Reset, Accepted
<1>3. r \in RcvType /\ r.pc = "listen" /\ r.name = rcv[q].name
  <2>1. rcv[q] \in RcvType
    BY <1>1, Locals
  <2> QED  BY <2>1 DEF RcvType
<1>4. /\ rcv' = [rcv EXCEPT ![q] = r] /\ UNCHANGED <<snd, files, short>>
      /\ conns' = {e \in conns : e.dst # q}
  BY <1>1 DEF RecvFileFails, TypeInv
<1>5. \A e \in conns : e.dst = q
  BY <1>1, <1>2 DEF SocketInv
<1>6. conns' = {}
  BY <1>4, <1>5
<1>7. /\ rcv'[q] = r /\ \A p \in EmIds \ {q} : rcv'[p] = rcv[p]
      /\ rcv' \in [EmIds -> RcvType]
  BY <1>1, <1>3, <1>4 DEF TypeInv
<1> HIDE DEF r
<1>8. \A p \in EmIds : rcv'[p].pc \notin {"length", "file"}
  BY <1>1, <1>3, <1>5, <1>7 DEF SocketInv, Accepted
<1>9. TypeInv'
  BY <1>1, <1>3, <1>4, <1>6, <1>7 DEF TypeInv
<1>10. SocketInv'
  BY <1>6, <1>8 DEF SocketInv
<1>11. TokenInv'
  BY <1>1, <1>4, <1>6, BusyFrame, TokenFrame
<1>12. ItemsInv' /\ FlowInv'
  BY <1>6, <1>8 DEF Items, ItemsInv, FlowInv
<1> QED  BY <1>9, <1>10, <1>11, <1>12 DEF IInv

\* Who has received the whole file is the only one to have the message.
LEMMA WholeReceived ==
    ASSUME IInv, NEW q \in EmIds, NEW mes, ReceiveReturns(q, mes)
    PROVE  /\ \E c \in conns : /\ conns = {c} /\ c.open /\ c.dst = q /\ InRecv(c) /\ HasLength(c)
                               /\ Total(c) = Expected(c) /\ c.bytes = <<>>
                               /\ snd[c.src].pc \in {"file", "idle"} /\ c.src \in EmIds
           /\ conns' = {}
           /\ \A p \in EmIds : ~ Busy(p) /\ stack[p] = <<>>
<1>1. TypeInv /\ SocketInv /\ TokenInv /\ ItemsInv /\ FlowInv
  BY DEF IInv
<1>2. PICK c \in Accepted(q) : conns' = conns \ {c}
  BY DEF ReceiveReturns
<1>3. /\ c \in conns /\ c.dst = q /\ c.accepted /\ InRecv(c) /\ HasLength(c)
      /\ rcv[q].got = rcv[q].expected /\ c.src \in EmIds /\ c.bytes \in Seq(Int)
      /\ Len(c.bytes) \in Nat /\ rcv[q].got \in Nat
  BY <1>1, <1>2, ConnectionFields, Locals DEF Accepted, InRecv, HasLength, ReceiveReturns, RecvFileOk
<1>4. Total(c) = rcv[q].got + Len(c.bytes) /\ Expected(c) = rcv[q].expected
  BY <1>3 DEF Total, Expected
<1>5. Total(c) = Expected(c) /\ Len(c.bytes) = 0 /\ c.open
  BY <1>3, <1>4, NoMoreThanWhole
<1>6. conns = {c} /\ conns' = {} /\ c.bytes = <<>>
  BY <1>1, <1>2, <1>3, <1>5, OneOpen, EmptySeq
<1>7. OpenFlow(c) /\ snd[c.src].pc \in {"open", "file", "idle"}
  BY <1>3, <1>5, OpenFacts DEF Live, Started
<1>8. snd[c.src].totalSent \in Nat /\ snd[c.src].toSend \in Nat /\ snd[c.src].fileSize \in Nat
  BY <1>1, <1>3, Locals
<1>9. snd[c.src].pc # "open" /\ ~ Busy(c.src)
  BY <1>4, <1>5, <1>7, <1>8 DEF OpenFlow, Busy, InFile
<1>10. \A p \in EmIds : ~ Busy(p) /\ stack[p] = <<>>
  BY <1>1, <1>3, <1>9 DEF TokenInv
<1> QED  BY <1>3, <1>5, <1>6, <1>7, <1>9, <1>10

LEMMA PushStep ==
    ASSUME IInv, NEW q \in EmIds, Push(q) PROVE IInv'
<1>1. TypeInv /\ SocketInv /\ TokenInv /\ ItemsInv /\ FlowInv
  BY DEF IInv
<1>2. PICK mes \in Message : ReceiveReturns(q, mes) /\ stack' = [stack EXCEPT ![q] = Append(@, mes)]
  BY DEF Push
<1>3. conns' = {} /\ \A p \in EmIds : ~ Busy(p) /\ stack[p] = <<>>
  BY <1>2, WholeReceived
<1>4. PICK n \in NamesOf[q] : rcv' = [rcv EXCEPT ![q].pc = "listen", ![q].name = n]
  BY <1>2 DEF ReceiveReturns
<1> DEFINE r == [rcv[q] EXCEPT !.pc = "listen", !.name = n]
<1>5. r \in RcvType /\ r.pc = "listen" /\ r.name = n
  <2>1. rcv[q] \in RcvType /\ n \in Names
    BY <1>1, Locals, Parameters
  <2> QED  BY <2>1 DEF RcvType
<1>6. rcv' = [rcv EXCEPT ![q] = r] /\ UNCHANGED <<snd, files, short>>
  BY <1>1, <1>2, <1>4 DEF ReceiveReturns, TypeInv
<1>7. /\ rcv'[q] = r /\ \A p \in EmIds \ {q} : rcv'[p] = rcv[p]
      /\ rcv' \in [EmIds -> RcvType]
  BY <1>1, <1>5, <1>6 DEF TypeInv
<1> HIDE DEF r
<1>8. \A p \in EmIds : rcv'[p].pc \notin {"length", "file"}
  <2>1. \A p \in EmIds : rcv[p].pc \in {"length", "file"} => p = q
    BY <1>1, <1>2, WholeReceived DEF SocketInv, Accepted
  <2> QED  BY <1>5, <1>7, <2>1
<1>9. /\ stack' \in [EmIds -> Seq(Message)]
      /\ Len(stack'[q]) = 1 /\ \A p \in EmIds : p # q => stack'[p] = <<>>
  <2>1. <<>> \in Seq(Message) /\ Append(<<>>, mes) \in Seq(Message) /\ Len(Append(<<>>, mes)) = 1
    BY EmptySeq, AppendProperties
  <2>2. stack' = [stack EXCEPT ![q] = Append(<<>>, mes)]
    BY <1>2, <1>3
  <2> QED  BY <1>1, <1>3, <2>1, <2>2 DEF TypeInv
<1>10. TypeInv'
  BY <1>1, <1>3, <1>5, <1>6, <1>7, <1>9 DEF TypeInv
<1>11. SocketInv'
  BY <1>3, <1>8 DEF SocketInv
<1>12. TokenInv'
  <2>1. \A p \in EmIds : Len(stack'[p]) <= 1
    <3>1. Len(<<>>) = 0 /\ 0 <= 1 /\ 1 <= 1
      BY EmptySeq
    <3> QED  BY <1>9, <3>1
  <2>2. \A p \in EmIds : ~ Busy(p)'
    BY <1>3, <1>6, BusyFrame
  <2> QED  BY <1>3, <1>9, <2>1, <2>2 DEF TokenInv
<1>13. ItemsInv' /\ FlowInv'
  BY <1>3, <1>8 DEF Items, ItemsInv, FlowInv
<1> QED  BY <1>10, <1>11, <1>12, <1>13 DEF IInv
-----------------------------------------------------------------------------

LEMMA InitInv == Init => IInv
<1> SUFFICES ASSUME Init PROVE IInv
  OBVIOUS
<1> DEFINE s0(p) == [pc |-> "idle", to |-> p, name |-> Original, fd |-> "fresh",
                     toSend |-> 0, fileSize |-> 0, position |-> 0, totalSent |-> 0]
<1>1. /\ snd = [p \in EmIds |-> s0(p)] /\ conns = {} /\ short = FALSE
      /\ files = [n \in Names |-> IF n = Original THEN File ELSE <<>>]
      /\ stack = [p \in EmIds |-> IF p = 0 THEN <<[to |-> 1, name |-> Original]>> ELSE <<>>]
  BY DEF Init, HelperInit
<1>2. 0 \in Sizes /\ \A p \in EmIds : s0(p) \in SndType /\ s0(p).pc = "idle" /\ s0(p).totalSent = 0
  <2>1. 0 \in Sizes
    BY Parameters DEF Sizes
  <2> QED  BY <2>1, Parameters DEF SndType
<1> HIDE DEF s0
<1>3. \A q \in EmIds : rcv[q] \in RcvType /\ rcv[q].pc = "listen" /\ rcv[q].name \in NamesOf[q]
  <2> SUFFICES ASSUME NEW q \in EmIds
               PROVE  rcv[q] \in RcvType /\ rcv[q].pc = "listen" /\ rcv[q].name \in NamesOf[q]
    OBVIOUS
  <2>1. /\ rcv[q] \in [pc : {"listen"}, listening : {FALSE}, name : UNION {NamesOf[p] : p \in EmIds},
                       expected : {0}, got : {0}]
        /\ rcv[q].name \in NamesOf[q]
    BY DEF Init, HelperInit
  <2>2. rcv[q].name \in Names
    BY <2>1, Parameters
  <2> QED  BY <1>2, <2>1, <2>2 DEF RcvType
<1>4. rcv \in [EmIds -> RcvType]
  <2>1. rcv \in [EmIds -> [pc : {"listen"}, listening : {FALSE},
                 name : UNION {NamesOf[p] : p \in EmIds}, expected : {0}, got : {0}]]
    BY DEF Init, HelperInit
  <2> QED  BY <1>3, <2>1
<1>5. /\ stack \in [EmIds -> Seq(Message)] /\ \A p \in EmIds : Len(stack[p]) <= 1
      /\ \A p \in EmIds : stack[p] # <<>> => p = 0
  <2>1. [to |-> 1, name |-> Original] \in Message
    BY Parameters DEF Message
  <2>2. <<[to |-> 1, name |-> Original]>> \in Seq(Message) /\ <<>> \in Seq(Message)
        /\ Len(<<[to |-> 1, name |-> Original]>>) = 1 /\ Len(<<>>) = 0
    BY <2>1, EmptySeq
  <2>3. \A p \in EmIds : stack[p] = IF p = 0 THEN <<[to |-> 1, name |-> Original]>> ELSE <<>>
    BY <1>1
  <2>4. \A p \in EmIds : stack[p] \in Seq(Message) /\ Len(stack[p]) <= 1
    <3>1. 0 <= 1 /\ 1 <= 1
      OBVIOUS
    <3> QED  BY <2>2, <2>3, <3>1
  <2>5. stack \in [EmIds -> Seq(Message)]
    BY <1>1, <2>2
  <2> QED  BY <2>3, <2>4, <2>5
<1>6. TypeInv
  <2>1. /\ files \in [Names -> Seq(Nat)] /\ \A n \in Names : Len(files[n]) <= Len(File)
    <3>1. /\ <<>> \in Seq(Nat) /\ Len(<<>>) = 0 /\ File \in Seq(Nat) /\ 0 <= Len(File)
          /\ Len(File) <= Len(File)
      BY EmptySeq, Parameters
    <3> QED  BY <1>1, <3>1
  <2>2. snd \in [EmIds -> SndType] /\ \A p \in EmIds : snd[p].totalSent = 0
    BY <1>1, <1>2
  <2>3. conns \subseteq Connections /\ short \in BOOLEAN
    BY <1>1
  <2> QED  BY <1>3, <1>4, <1>5, <2>1, <2>2, <2>3 DEF TypeInv
<1>7. \A p \in EmIds : ~ Busy(p)
  BY <1>1, <1>2 DEF Busy
<1>8. SocketInv /\ ItemsInv /\ FlowInv
  BY <1>1, <1>3 DEF Items, SocketInv, ItemsInv, FlowInv
<1>9. TokenInv
  BY <1>1, <1>5, <1>7 DEF TokenInv
<1> QED  BY <1>6, <1>8, <1>9 DEF IInv

LEMMA StutterInv == ASSUME IInv, UNCHANGED vars PROVE IInv'
<1>1. /\ snd' = snd /\ rcv' = rcv /\ conns' = conns /\ files' = files /\ stack' = stack
      /\ short' = short
  BY DEF vars
<1>2. TypeInv' /\ SocketInv' /\ TokenInv'
  BY <1>1, BusyFrame DEF IInv, TypeInv, SocketInv, Accepted, TokenInv
<1>3. ItemsInv'
  BY <1>1, OpenFrame DEF Items, IInv, ItemsInv, InRecv
<1>4. FlowInv'
  BY <1>1, CarriesFrame, OpenFrame DEF IInv, FlowInv, Live
<1> QED  BY <1>2, <1>3, <1>4 DEF IInv

LEMMA NextInv == IInv /\ [Next]_vars => IInv'
<1> SUFFICES ASSUME IInv, [Next]_vars PROVE IInv'
  OBVIOUS
<1>1. CASE UNCHANGED vars
  BY <1>1, StutterInv
<1>2. ASSUME NEW p \in EmIds, SendThread(p)
      PROVE  IInv'
  <2>1. CASE Pop(p)
    BY <2>1, PopStep
  <2>2. CASE SendTcp(p) /\ stack' = stack
    BY <2>2, ConnectAgainStep, ConnectOkStep, SendEmptyStep, SendLengthStep, OpenFileStep,
       SendFileChunkStep, SendFileFailsStep, SendKilledStep, SendFileDoneStep DEF SendTcp
  <2> QED  BY <1>2, <2>1, <2>2 DEF SendThread
<1>3. ASSUME NEW q \in EmIds, RecvThread(q)
      PROVE  IInv'
  <2>1. CASE Push(q)
    BY <2>1, PushStep
  <2>2. CASE ReceiveTcp(q) /\ stack' = stack
    BY <2>2, ListenStep, AcceptStep, RecvLengthStep, RecvFileChunkStep, RecvFileFailsStep
    DEF ReceiveTcp
  <2> QED  BY <1>3, <2>1, <2>2 DEF RecvThread
<1> QED  BY <1>1, <1>2, <1>3 DEF Next

LEMMA AlwaysIInv == Spec => []IInv
<1> QED  BY InitInv, NextInv, PTL DEF Spec

LEMMA AtMostOne ==
    ASSUME NEW S, \A x, y \in S : x = y
    PROVE  Cardinality(S) <= 1
<1>1. CASE S = {}
  BY <1>1, FS_EmptySet
<1>2. ASSUME NEW x \in S
      PROVE  Cardinality(S) <= 1
  <2>1. S = {x}
    BY <1>2
  <2> QED  BY <2>1, FS_Singleton
<1> QED  BY <1>1, <1>2

\* TypeOK: whatever the file, the chunks and the names, each thread is at a step
\* of send_tcp or receive_tcp with sizes that are in the file, and a socket has
\* one connection.
THEOREM TCPpeerTypeCorrect == Spec => []TypeOK
<1>1. IInv => TypeOK
  <2> SUFFICES ASSUME IInv PROVE TypeOK
    OBVIOUS
  <2>1. TypeInv /\ SocketInv
    BY DEF IInv
  <2>2. ASSUME NEW p \in EmIds
        PROVE  /\ snd[p].pc \in {"idle", "connect", "length", "open", "file", "dead"}
               /\ snd[p].fd \in {"fresh", "connected", "failed"}
               /\ [to |-> snd[p].to, name |-> snd[p].name] \in Message
               /\ snd[p].toSend \in Sizes /\ snd[p].fileSize \in Sizes
               /\ snd[p].position \in Sizes /\ snd[p].totalSent \in Sizes
               /\ rcv[p].pc \in {"listen", "accept", "length", "file", "dead"}
               /\ rcv[p].listening \in BOOLEAN
               /\ rcv[p].name \in NamesOf[p]
               /\ rcv[p].expected \in Sizes /\ rcv[p].got \in Sizes
    <3>1. snd[p] \in SndType /\ rcv[p] \in RcvType
      BY <2>1, Locals
    <3>2. rcv[p].name \in NamesOf[p]
      BY <2>1 DEF TypeInv
    <3> QED  BY <3>1, <3>2 DEF SndType, RcvType, Message
  <2>3. ASSUME NEW p \in EmIds
        PROVE  \A i \in 1 .. Len(stack[p]) : stack[p][i] \in Message
    <3>1. stack[p] \in Seq(Message)
      BY <2>1 DEF TypeInv
    <3> QED  BY <3>1, ElementOfSeq
  <2>4. ASSUME NEW p \in EmIds
        PROVE  Cardinality(Own(p)) <= 1
    BY <2>1, OneOpen, AtMostOne DEF Own
  <2>5. ASSUME NEW p \in EmIds
        PROVE  Cardinality(Accepted(p)) <= 1
    BY <2>1, OneAccepted, AtMostOne
  <2>6. ASSUME NEW p \in EmIds
        PROVE  Cardinality(Backlog(p)) <= 1
    <3>1. \A c, d \in Backlog(p) : c = d
      BY <2>1, ConnectionFields DEF Backlog, SocketInv
    <3> QED  BY <3>1, AtMostOne
  <2>7. ASSUME NEW n \in Names
        PROVE  \A i \in 1 .. Len(files[n]) : files[n][i] \in Nat
    <3>1. files[n] \in Seq(Nat)
      BY <2>1 DEF TypeInv
    <3> QED  BY <3>1, ElementOfSeq
  <2>8. short \in BOOLEAN
    BY <2>1 DEF TypeInv
  <2> QED  BY <2>2, <2>3, <2>4, <2>5, <2>6, <2>7, <2>8 DEF TypeOK, Sizes
<1> QED  BY <1>1, AlwaysIInv, PTL

\* HeldOnce: the message is never with two peers or twice with one, however
\* often send_tcp and receive_tcp give up and begin again.
THEOREM HeldOnceHolds == Spec => []HeldOnce
<1>1. IInv => HeldOnce
  <2> SUFFICES ASSUME IInv PROVE HeldOnce
    OBVIOUS
  <2>1. TokenInv
    BY DEF IInv
  <2>2. \A p \in EmIds : Sending(p) => Busy(p)
    BY DEF Sending, Busy, InFile
  <2>3. \A p, q \in {r \in EmIds : Holding(r)} : p = q
    BY <2>1, <2>2 DEF Holding, TokenInv
  <2>4. Cardinality({p \in EmIds : Holding(p)}) <= 1
    BY <2>3, AtMostOne
  <2>5. \A p \in EmIds : Len(stack[p]) <= 1 /\ ~ (stack[p] # <<>> /\ Sending(p))
    BY <2>1, <2>2 DEF TokenInv
  <2> QED  BY <2>4, <2>5 DEF HeldOnce
<1> QED  BY <1>1, AlwaysIInv, PTL
-----------------------------------------------------------------------------
(* As long as no names clash the file of the message is whole, wherever it is. *)

\* What the receiver has or gets of the file on a connection.
Content(c) == IF InRecv(c) THEN files[rcv[c.dst].name] \o c.bytes ELSE Tail(c.bytes)

\* After a send cut short totalSent is behind position, and stays behind: that
\* sendFile never reaches the length it has announced.
Sends(p) ==
    /\ Busy(p) => files[snd[p].name] = File
    /\ snd[p].pc = "open" => snd[p].totalSent = 0 /\ snd[p].toSend = Len(File)
    /\ snd[p].pc = "file" => /\ snd[p].toSend = Len(File) /\ snd[p].fileSize = Len(File)
                             /\ snd[p].totalSent <= snd[p].position

Brings(c) ==
    /\ HasLength(c) => Expected(c) = Len(File)
    /\ Live(c) /\ c.open =>
           LET s == snd[c.src]
           IN  /\ s.pc = "file" /\ s.position = s.totalSent =>
                      Content(c) = SubSeq(File, 1, s.totalSent)
               /\ s.pc = "idle" /\ HasLength(c) => Content(c) = File

IntactInv ==
    /\ \A p \in EmIds : stack[p] # <<>> => files[stack[p][1].name] = File
    /\ \A p \in EmIds : Sends(p)
    /\ \A c \in conns : Brings(c)

LEMMA SendsFrame ==
    ASSUME NEW p \in EmIds, snd'[p] = snd[p], Busy(p) => files'[snd[p].name] = files[snd[p].name]
    PROVE  Sends(p) => Sends(p)'
BY BusyFrame DEF Sends

LEMMA BringsFrame ==
    ASSUME NEW c, c.accepted => rcv'[c.dst] = rcv[c.dst],
           files' = files, c.open => snd'[c.src] = snd[c.src], Live(c)' => Live(c)
    PROVE  Brings(c) => Brings(c)'
<1>1. InRecv(c)' = InRecv(c) /\ HasLength(c)' = HasLength(c) /\ Expected(c)' = Expected(c)
  BY CarriesFrame
<1>2. Content(c)' = Content(c)
  BY <1>1 DEF Content, InRecv
<1> QED  BY <1>1, <1>2 DEF Brings

\* There is as much content as sendFile has sent.
LEMMA ContentLength ==
    ASSUME IInv, NEW c \in conns, HasLength(c)
    PROVE  Content(c) \in Seq(Int) /\ Len(Content(c)) = Total(c)
<1>1. TypeInv /\ ItemsInv
  BY DEF IInv
<1>2. /\ c.bytes \in Seq(Int) /\ Len(c.bytes) \in Nat /\ c.dst \in EmIds
      /\ files[rcv[c.dst].name] \in Seq(Int)
  BY <1>1, ConnectionFields, Locals, SeqMonotonic
<1>3. CASE InRecv(c)
  <2>1. Len(files[rcv[c.dst].name]) = rcv[c.dst].got
    BY <1>1, <1>2, <1>3 DEF Items, ItemsInv, InRecv
  <2>2. /\ files[rcv[c.dst].name] \o c.bytes \in Seq(Int)
        /\ Len(files[rcv[c.dst].name] \o c.bytes) = Len(files[rcv[c.dst].name]) + Len(c.bytes)
    BY <1>2, ConcatProperties
  <2> QED  BY <1>3, <2>1, <2>2 DEF Content, Total
<1>4. CASE ~ InRecv(c)
  <2>1. c.bytes # <<>>
    BY <1>4 DEF HasLength
  <2> QED  BY <1>2, <1>4, <2>1, HeadTailProperties DEF Content, Total
<1> QED  BY <1>3, <1>4

\* A step of the sending thread that leaves the connections as they are.
LEMMA LocalIntact ==
    ASSUME IInv, IntactInv, NEW p \in EmIds, UNCHANGED <<rcv, conns, files>>,
           \A q \in EmIds : stack'[q] = stack[q] \/ stack'[q] = <<>>,
           \A q \in EmIds \ {p} : snd'[q] = snd[q],
           Sends(p)',
           \A c \in conns : c.src = p /\ c.open => Brings(c)'
    PROVE  IntactInv'
<1>1. \A q \in EmIds : stack'[q] # <<>> => files'[stack'[q][1].name] = File
  BY DEF IntactInv
<1>2. ASSUME NEW q \in EmIds
      PROVE  Sends(q)'
  <2>1. CASE q = p
    BY <2>1
  <2>2. CASE q # p
    BY <2>2, SendsFrame DEF IntactInv
  <2> QED  BY <2>1, <2>2
<1>3. ASSUME NEW c \in conns
      PROVE  Brings(c)'
  <2>1. c.src \in EmIds
    BY ConnectionFields DEF IInv
  <2>2. CASE c.src = p /\ c.open
    BY <2>2
  <2>3. CASE ~ (c.src = p /\ c.open)
    <3>1. c.open => snd'[c.src] = snd[c.src]
      BY <2>1, <2>3
    <3> QED  BY <3>1, BringsFrame DEF IntactInv, Live
  <2> QED  BY <2>2, <2>3
<1> QED  BY <1>1, <1>2, <1>3 DEF IntactInv

\* A step of the sending thread that sends on its connection or closes it.
LEMMA ReplaceIntact ==
    ASSUME IInv, IntactInv, NEW p \in EmIds, UNCHANGED <<rcv, files, stack>>,
           \A q \in EmIds \ {p} : snd'[q] = snd[q],
           NEW c \in Own(p), NEW d \in Connections, Replace(c, d),
           d.src = c.src, d.dst = c.dst, d.accepted = c.accepted,
           Sends(p)',
           Brings(d)'
    PROVE  IntactInv'
<1>1. TypeInv /\ SocketInv
  BY DEF IInv
<1>2. c \in conns /\ c.src = p /\ c.open
  BY DEF Own
<1>3. \A e \in conns' : e # d => e \in conns /\ e # c /\ (Live(e)' => Live(e))
  BY <1>1, <1>2, Replaced
<1>4. ASSUME NEW q \in EmIds
      PROVE  Sends(q)'
  <2>1. CASE q = p
    BY <2>1
  <2>2. CASE q # p
    BY <2>2, SendsFrame DEF IntactInv
  <2> QED  BY <2>1, <2>2
<1>5. ASSUME NEW e \in conns', e # d
      PROVE  Brings(e)'
  <2>1. e \in conns /\ ~ e.open /\ (Live(e)' => Live(e))
    BY <1>1, <1>2, <1>3, <1>5, OneOpen
  <2> QED  BY <2>1, BringsFrame DEF IntactInv
<1> QED  BY <1>4, <1>5 DEF IntactInv

LEMMA ConnectAgainIntact ==
    ASSUME IInv, IntactInv, NEW p \in EmIds, ConnectAgain(p), stack' = stack PROVE IntactInv'
<1>1. TypeInv
  BY DEF IInv
<1>2. Own(p) = {}
  BY OpenFacts DEF Own, ConnectAgain
<1>3. /\ snd' = [snd EXCEPT ![p].pc = "connect", ![p].fd = "fresh", ![p].totalSent = 0]
      /\ UNCHANGED <<rcv, conns, files>> /\ snd[p].pc = "connect"
  BY <1>2 DEF ConnectAgain, CloseSend
<1>4. /\ snd'[p].pc = "connect" /\ snd'[p].name = snd[p].name
      /\ \A q \in EmIds \ {p} : snd'[q] = snd[q]
  <2>1. snd[p] \in SndType
    BY <1>1, Locals
  <2> QED  BY <1>1, <1>3, <2>1 DEF TypeInv, SndType
<1>5. Sends(p)'
  BY <1>3, <1>4 DEF IntactInv, Sends, Busy
<1> QED  BY <1>2, <1>3, <1>4, <1>5, LocalIntact DEF Own

LEMMA PopIntact ==
    ASSUME IInv, IntactInv, NEW p \in EmIds, Pop(p) PROVE IntactInv'
<1>1. TypeInv /\ TokenInv
  BY DEF IInv
<1>2. /\ stack[p] # <<>> /\ conns = {} /\ stack[p] \in Seq(Message) /\ Len(stack[p]) <= 1
  BY <1>1 DEF Pop, TypeInv, TokenInv
<1>3. Len(stack[p]) = 1
  <2>1. Len(stack[p]) \in Nat /\ Len(stack[p]) # 0
    BY <1>2, EmptySeq
  <2>2. \A n \in Nat : n # 0 /\ n <= 1 => n = 1
    OBVIOUS
  <2> QED  BY <1>2, <2>1, <2>2
<1>4. /\ snd' = [snd EXCEPT ![p].pc = "connect", ![p].to = stack[p][1].to,
                            ![p].name = stack[p][1].name, ![p].totalSent = 0]
      /\ UNCHANGED <<rcv, conns, files>> /\ stack' = [stack EXCEPT ![p] = SubSeq(stack[p], 1, 0)]
  BY <1>1, <1>3 DEF Pop, StartSend, TypeInv
<1>5. \A q \in EmIds : stack'[q] = stack[q] \/ stack'[q] = <<>>
  <2>1. SubSeq(stack[p], 1, 0) = <<>>
    BY SubSeqEmpty
  <2> QED  BY <1>1, <1>4, <2>1 DEF TypeInv
<1>6. /\ snd'[p].pc = "connect" /\ snd'[p].name = stack[p][1].name
      /\ \A q \in EmIds \ {p} : snd'[q] = snd[q]
  <2>1. snd[p] \in SndType
    BY <1>1, Locals
  <2> QED  BY <1>1, <1>4, <2>1 DEF TypeInv, SndType
<1>7. Sends(p)'
  BY <1>2, <1>4, <1>6 DEF IntactInv, Sends
<1> QED  BY <1>2, <1>4, <1>5, <1>6, <1>7, LocalIntact

LEMMA ConnectOkIntact ==
    ASSUME IInv, IntactInv, NEW p \in EmIds, ConnectOk(p), stack' = stack PROVE IntactInv'
<1>1. TypeInv /\ TokenInv
  BY DEF IInv
<1>2. snd[p].pc = "connect" /\ snd[p].fd = "fresh" /\ Busy(p)
  BY DEF ConnectOk, Busy
<1>3. /\ snd' = [snd EXCEPT ![p].pc = "length", ![p].fd = "connected"]
      /\ UNCHANGED <<rcv, files>>
      /\ conns' = conns \cup {[src |-> p, dst |-> snd[p].to, accepted |-> FALSE,
                               open |-> TRUE, bytes |-> <<>>]}
  BY DEF ConnectOk
<1>4. /\ snd'[p].pc = "length" /\ snd'[p].name = snd[p].name
      /\ \A q \in EmIds \ {p} : snd'[q] = snd[q]
  <2>1. snd[p] \in SndType
    BY <1>1, Locals
  <2> QED  BY <1>1, <1>3, <2>1 DEF TypeInv, SndType
<1>5. \A q \in EmIds : Sends(q)'
  <2>1. Sends(p)'
    BY <1>2, <1>3, <1>4 DEF IntactInv, Sends, Busy
  <2> QED  BY <1>3, <1>4, <2>1, SendsFrame DEF IntactInv
<1>6. ASSUME NEW c \in conns
      PROVE  Brings(c)'
  <2>1. ~ c.open /\ (Live(c)' => Live(c))
    <3>1. c.src = p
      BY <1>1, <1>2 DEF TokenInv
    <3>2. ~ c.open
      BY <1>2, <3>1, OpenFacts
    <3>3. conns' = {c} => conns = {c}
      BY <1>3
    <3> QED  BY <3>2, <3>3 DEF Live
  <2> QED  BY <1>3, <2>1, BringsFrame DEF IntactInv
<1>7. ASSUME NEW c \in conns' \ conns
      PROVE  Brings(c)'
  <2>1. c.src = p /\ c.bytes = <<>> /\ ~ c.accepted
    BY <1>3, <1>7
  <2> QED  BY <1>4, <2>1 DEF Brings, HasLength, InRecv
<1> QED  BY <1>3, <1>5, <1>6, <1>7 DEF IntactInv

LEMMA SendEmptyIntact ==
    ASSUME IInv, IntactInv, NEW p \in EmIds, SendEmpty(p), stack' = stack PROVE IntactInv'
<1>1. TypeInv
  BY DEF IInv
<1>2. files[snd[p].name] = <<>> /\ files[snd[p].name] = File
  BY DEF SendEmpty, IntactInv, Sends, Busy
<1> QED  BY <1>2, Parameters, EmptySeq

LEMMA SendLengthIntact ==
    ASSUME IInv, IntactInv, NEW p \in EmIds, SendLength(p), stack' = stack PROVE IntactInv'
<1>1. TypeInv /\ SocketInv
  BY DEF IInv
<1>2. snd[p].pc = "length" /\ snd[p].totalSent = 0 /\ files[snd[p].name] = File
  BY <1>1 DEF SendLength, TypeInv, IntactInv, Sends, Busy
<1>3. /\ \E fd : snd' = [snd EXCEPT ![p].pc = "open", ![p].toSend = Len(File), ![p].fd = fd]
      /\ UNCHANGED <<rcv, files>> /\ Send(p, <<-Len(File)>>)
  BY <1>2 DEF SendLength
<1>4. /\ snd'[p].pc = "open" /\ snd'[p].name = snd[p].name
      /\ snd'[p].toSend = Len(File) /\ snd'[p].totalSent = 0
      /\ \A q \in EmIds \ {p} : snd'[q] = snd[q]
  <2>1. snd[p] \in SndType
    BY <1>1, Locals
  <2> QED  BY <1>1, <1>2, <1>3, <2>1 DEF TypeInv, SndType
<1>5. Sends(p)'
  BY <1>2, <1>3, <1>4 DEF Sends
<1>6. CASE Own(p) = {} /\ conns' = conns
  BY <1>3, <1>4, <1>5, <1>6, LocalIntact DEF Own
<1>7. ASSUME NEW c \in Own(p), NEW d, d = [c EXCEPT !.bytes = c.bytes \o <<-Len(File)>>], Replace(c, d)
      PROVE  IntactInv'
  <2>1. c \in conns /\ c.src = p /\ c.open /\ ~ HasLength(c)
    BY <1>2, OpenFacts DEF Own, Started
  <2>2. PICK bytes : bytes = <<-Len(File)>>
    OBVIOUS
  <2>3. /\ bytes \in Seq(Int) /\ Len(bytes) > 0 /\ - bytes[1] = Len(File)
        /\ Items(bytes, ~ HasLength(c))
    BY <2>1, <2>2, Parameters DEF Items
  <2>4. /\ d \in Connections /\ d.src = c.src /\ d.dst = c.dst /\ d.accepted = c.accepted
        /\ Expected(d)' = Len(File)
    <3>1. d = [c EXCEPT !.bytes = c.bytes \o bytes] /\ rcv' = rcv
      BY <1>3, <1>7, <2>2
    <3> QED  BY <2>1, <2>3, <3>1, Joined, ZenonT(40)
  <2>5. Brings(d)'
    BY <1>4, <2>1, <2>4 DEF Brings
  <2> QED  BY <1>3, <1>4, <1>5, <1>7, <2>4, <2>5, ReplaceIntact
<1> QED  BY <1>1, <1>3, <1>6, <1>7, Sent

LEMMA OpenFileIntact ==
    ASSUME IInv, IntactInv, NEW p \in EmIds, OpenFile(p), stack' = stack PROVE IntactInv'
<1>1. TypeInv
  BY DEF IInv
<1>2. /\ snd[p].pc = "open" /\ files[snd[p].name] = File
      /\ snd[p].totalSent = 0 /\ snd[p].toSend = Len(File)
  BY DEF OpenFile, IntactInv, Sends, Busy
<1>3. /\ snd' = [snd EXCEPT ![p].pc = "file", ![p].fileSize = Len(File), ![p].position = 0]
      /\ UNCHANGED <<rcv, conns, files>>
  BY <1>2 DEF OpenFile
<1>4. /\ snd'[p].pc = "file" /\ snd'[p].name = snd[p].name /\ snd'[p].fileSize = Len(File)
      /\ snd'[p].toSend = Len(File) /\ snd'[p].totalSent = 0 /\ snd'[p].position = 0
      /\ \A q \in EmIds \ {p} : snd'[q] = snd[q]
  <2>1. snd[p] \in SndType
    BY <1>1, Locals
  <2> QED  BY <1>1, <1>2, <1>3, <2>1 DEF TypeInv, SndType
<1>5. Sends(p)'
  BY <1>2, <1>3, <1>4 DEF Sends
<1>6. ASSUME NEW c \in conns, c.src = p, c.open
      PROVE  Brings(c)'
  <2>1. HasLength(c) /\ (Live(c) => Total(c) = 0)
    BY <1>2, <1>6, OpenFacts DEF Started, OpenFlow
  <2>2. Expected(c)' = Len(File)
    BY <1>3, <2>1, CarriesFrame DEF IntactInv, Brings
  <2>3. ASSUME Live(c)
        PROVE  Content(c)' = SubSeq(File, 1, 0)
    <3>1. Content(c) = <<>>
      BY <2>1, <2>3, ContentLength, EmptySeq
    <3>2. Content(c)' = Content(c)
      BY <1>3 DEF Content, InRecv
    <3> QED  BY <3>1, <3>2, SubSeqEmpty
  <2> QED  BY <1>3, <1>4, <1>6, <2>2, <2>3 DEF Brings, Live
<1> QED  BY <1>3, <1>4, <1>5, <1>6, LocalIntact

LEMMA Associative ==
    ASSUME NEW f \in Seq(Int), NEW g \in Seq(Int), NEW h \in Seq(Int)
    PROVE  (f \o g) \o h = f \o (g \o h)
BY ConcatAssociative, SMTT(30)

LEMMA TailOfConcat ==
    ASSUME NEW S, NEW s \in Seq(S), NEW t \in Seq(S), s # <<>>
    PROVE  Tail(s \o t) = Tail(s) \o t
<1>1. /\ s \o t \in Seq(S) /\ Len(s \o t) = Len(s) + Len(t)
      /\ \A i \in 1 .. Len(s) + Len(t) : (s \o t)[i] = IF i <= Len(s) THEN s[i] ELSE t[i - Len(s)]
  BY ConcatProperties
<1>2. Len(s) \in Nat /\ Len(s) > 0 /\ Len(t) \in Nat
  BY EmptySeq
<1>3. s \o t # <<>>
  BY <1>1, <1>2, EmptySeq
<1>4. /\ Tail(s) \in Seq(S) /\ Len(Tail(s)) = Len(s) - 1
      /\ \A i \in 1 .. Len(Tail(s)) : Tail(s)[i] = s[i + 1]
  BY HeadTailProperties
<1>5. /\ Tail(s \o t) \in Seq(S) /\ Len(Tail(s \o t)) = Len(s) + Len(t) - 1
      /\ \A i \in 1 .. Len(Tail(s \o t)) : Tail(s \o t)[i] = (s \o t)[i + 1]
  BY <1>1, <1>3, HeadTailProperties
<1>6. /\ Tail(s) \o t \in Seq(S) /\ Len(Tail(s) \o t) = Len(s) - 1 + Len(t)
      /\ \A i \in 1 .. Len(s) - 1 + Len(t) :
             (Tail(s) \o t)[i] = IF i <= Len(s) - 1 THEN Tail(s)[i] ELSE t[i - (Len(s) - 1)]
  BY <1>4, ConcatProperties
<1>7. ASSUME NEW i \in 1 .. Len(s) + Len(t) - 1
      PROVE  Tail(s \o t)[i] = (Tail(s) \o t)[i]
  <2>1. Tail(s \o t)[i] = IF i + 1 <= Len(s) THEN s[i + 1] ELSE t[i + 1 - Len(s)]
    BY <1>1, <1>2, <1>5
  <2>2. (Tail(s) \o t)[i] = IF i <= Len(s) - 1 THEN s[i + 1] ELSE t[i - (Len(s) - 1)]
    BY <1>2, <1>4, <1>6
  <2> QED  BY <1>2, <2>1, <2>2
<1>8. Len(Tail(s \o t)) = Len(Tail(s) \o t)
  BY <1>2, <1>5, <1>6, SMTT(30)
<1> QED  BY <1>5, <1>6, <1>7, <1>8, SeqEqual

LEMMA SendFileChunkIntact ==
    ASSUME IInv, IntactInv, NEW p \in EmIds, SendFileChunk(p), stack' = stack PROVE IntactInv'
<1>1. TypeInv /\ SocketInv
  BY DEF IInv
<1>2. PICK s \in SndType, sent \in Nat :
          \/ ChunkLost(p, s, sent)
          \/ \E c \in Own(p), d \in Connections : ChunkJoins(p, c, d, s, sent)
  BY ChunkSent
<1>3. /\ snd' = [snd EXCEPT ![p] = s] /\ sent <= ToRead(p) /\ UNCHANGED <<rcv, files>>
      /\ s.pc = "file" /\ s.toSend = snd[p].toSend /\ s.totalSent = snd[p].totalSent + sent
      /\ s.name = snd[p].name /\ s.fileSize = snd[p].fileSize
      /\ s.position = snd[p].position + ToRead(p)
  BY <1>2 DEF ChunkJoins, ChunkLost, ChunkRead
<1>4. /\ snd'[p] = s /\ \A q \in EmIds \ {p} : snd'[q] = snd[q]
      /\ snd[p].pc = "file" /\ Busy(p)
  BY <1>1, <1>3 DEF SendFileChunk, TypeInv, Busy, InFile
<1>5. /\ files[snd[p].name] = File /\ snd[p].toSend = Len(File) /\ snd[p].fileSize = Len(File)
      /\ snd[p].totalSent <= snd[p].position
  BY <1>4 DEF IntactInv, Sends
<1>6. /\ snd[p].totalSent \in Nat /\ snd[p].position \in Nat /\ ToRead(p) \in Nat
      /\ snd[p].position + ToRead(p) <= Len(File) /\ Len(File) \in Nat /\ File \in Seq(Nat)
  BY <1>1, <1>5, Locals, ReadFacts, Parameters DEF SendFileChunk, Readable
<1>7. s.totalSent <= s.position
  BY <1>3, <1>5, <1>6, SMTT(30)
<1>8. Sends(p)'
  BY <1>3, <1>4, <1>5, <1>7 DEF Sends
<1>9. CASE ChunkLost(p, s, sent)
  <2>1. conns' = conns /\ \A c \in conns : c.src = p /\ c.open => FALSE
    BY <1>9 DEF ChunkLost, Own
  <2> QED  BY <1>3, <1>4, <1>8, <2>1, LocalIntact
<1>10. ASSUME NEW c \in Own(p), NEW d \in Connections, ChunkJoins(p, c, d, s, sent)
       PROVE  IntactInv'
  <2>1. /\ HasLength(c) /\ Replace(c, d)
        /\ d.src = c.src /\ d.dst = c.dst /\ d.accepted = c.accepted /\ d.open = c.open
        /\ HasLength(d)' /\ Expected(d)' = Expected(c)
    BY <1>10 DEF ChunkJoins
  <2>2. /\ c \in conns /\ c.src = p /\ c.open /\ c \in Connections /\ c.bytes \in Seq(Int)
        /\ c.dst \in EmIds
    BY <1>1, <1>3, <2>1, ConnectionFields DEF Own
  <2>3. Live(d)' => Live(c)
    BY <1>1, <1>3, <2>1, <2>2, Replaced, SMTT(30)
  <2>4. ASSUME Live(c), s.position = s.totalSent
         PROVE  Content(d)' = SubSeq(File, 1, s.totalSent)
    <3>1. snd[p].position = snd[p].totalSent /\ sent = ToRead(p)
      <4>1. \A a, b, x, y \in Nat : a <= x /\ b <= y /\ x + y = a + b => x = a /\ b = y
        OBVIOUS
      <4> QED  BY <1>3, <2>1, <1>5, <1>6, <2>4, <4>1, ZenonT(30)
    <3>2. Content(c) = SubSeq(File, 1, snd[p].totalSent)
      BY <2>2, <1>4, <2>4, <3>1 DEF IntactInv, Brings
    <3>3. Content(d)' = Content(c) \o SubSeq(File, snd[p].totalSent + 1, snd[p].totalSent + sent)
      <4> DEFINE bytes == SubSeq(files[snd[p].name], snd[p].position + 1, snd[p].position + sent)
      <4>1. bytes = SubSeq(File, snd[p].totalSent + 1, snd[p].totalSent + sent)
        BY <1>5, <3>1
      <4>2. bytes \in Seq(Int) /\ d.bytes = c.bytes \o bytes
        BY <1>10 DEF ChunkJoins
      <4> HIDE DEF bytes
      <4>3. InRecv(d)' = InRecv(c)
        BY <1>3, <2>1, <1>4, SMTT(30) DEF InRecv
      <4>4. CASE InRecv(c)
        <5>1. files[rcv[c.dst].name] \in Seq(Int)
          BY <1>1, <2>2, Locals, SeqMonotonic
        <5>2. PICK old : old = files[rcv[c.dst].name]
          OBVIOUS
        <5>3. old \in Seq(Int) /\ c.bytes \in Seq(Int) /\ bytes \in Seq(Int)
          BY <2>2, <4>2, <5>1, <5>2
        <5>4. (old \o c.bytes) \o bytes = old \o (c.bytes \o bytes)
          BY <5>3, Associative
        <5> QED  BY <1>3, <2>1, <1>4, <4>1, <4>2, <4>3, <4>4, <5>2, <5>4, Zenon DEF Content
      <4>5. CASE ~ InRecv(c)
        <5>1. c.bytes # <<>>
          BY <1>3, <2>1, <4>5 DEF HasLength
        <5>2. Tail(c.bytes \o bytes) = Tail(c.bytes) \o bytes
          BY <2>2, <4>2, <5>1, TailOfConcat
        <5> QED  BY <4>1, <4>2, <4>3, <4>5, <5>2 DEF Content
      <4> QED  BY <4>4, <4>5
    <3>4. /\ 1 \in 1 .. Len(File) + 1 /\ snd[p].totalSent \in 1 - 1 .. Len(File)
          /\ snd[p].totalSent + sent \in snd[p].totalSent .. Len(File)
      BY <1>6, <3>1
    <3>5. SubSeq(File, 1, snd[p].totalSent)
              \o SubSeq(File, snd[p].totalSent + 1, snd[p].totalSent + sent)
          = SubSeq(File, 1, snd[p].totalSent + sent)
      BY <1>6, <3>4, ConcatAdjacentSubSeq
    <3> QED  BY <1>3, <2>1, <3>2, <3>3, <3>5, Zenon
  <2>5. Brings(d)'
    <3>1. Expected(d)' = Len(File)
      BY <1>3, <2>1, <2>2 DEF IntactInv, Brings
    <3> QED  BY <1>3, <2>1, <2>2, <1>4, <2>3, <2>4, <3>1 DEF Brings
  <2> QED  BY <1>3, <2>1, <1>4, <1>8, <2>5, ReplaceIntact
<1> QED  BY <1>2, <1>9, <1>10

LEMMA SendFileFailsIntact ==
    ASSUME IInv, IntactInv, NEW p \in EmIds, SendFileFails(p), stack' = stack PROVE IntactInv'
<1>1. TypeInv
  BY DEF IInv
<1>2. Busy(p) /\ CloseSend(p) /\ UNCHANGED <<rcv, files>>
  BY DEF SendFileFails, InFile, Busy
<1>3. /\ snd'[p].pc = "connect" /\ snd'[p].name = snd[p].name
      /\ \A q \in EmIds \ {p} : snd'[q] = snd[q]
  <2>1. snd[p] \in SndType
    BY <1>1, Locals
  <2> QED  BY <1>1, <1>2, <2>1 DEF TypeInv, SndType, CloseSend
<1>4. Sends(p)'
  BY <1>2, <1>3 DEF IntactInv, Sends
<1>5. CASE Own(p) = {} /\ conns' = conns
  BY <1>2, <1>3, <1>4, <1>5, LocalIntact DEF Own
<1>6. ASSUME NEW c \in Own(p),
             NEW n \in (IF c.bytes # <<>> /\ Head(c.bytes) < 0 THEN 1 ELSE 0) .. Len(c.bytes),
             NEW d, d = [c EXCEPT !.bytes = SubSeq(c.bytes, 1, n), !.open = FALSE], Replace(c, d)
      PROVE  IntactInv'
  <2>1. /\ c \in conns /\ c \in Connections /\ c.bytes \in Seq(Int) /\ Len(c.bytes) \in Nat
    BY <1>1, ConnectionFields DEF Own
  <2>2. n \in Nat /\ n <= Len(c.bytes)
    BY <2>1
  <2>3. /\ SubSeq(c.bytes, 1, n) \in Seq(Int) /\ Len(SubSeq(c.bytes, 1, n)) = n
        /\ n > 0 => SubSeq(c.bytes, 1, n)[1] = c.bytes[1] /\ c.bytes # <<>>
    <3>1. \A i \in 1 .. n : c.bytes[i] \in Int /\ 1 + i - 1 = i
      BY <2>1, <2>2, ElementOfSeq
    <3>2. /\ SubSeq(c.bytes, 1, n) \in Seq(Int)
          /\ Len(SubSeq(c.bytes, 1, n)) = (IF 1 <= n THEN n - 1 + 1 ELSE 0)
          /\ \A i \in 1 .. n - 1 + 1 : SubSeq(c.bytes, 1, n)[i] = c.bytes[1 + i - 1]
      BY <2>1, <2>2, <3>1, SubSeqProperties
    <3>3. n > 0 => c.bytes # <<>>
      BY <2>1, <2>2, EmptySeq
    <3>4. ASSUME n > 0
          PROVE  SubSeq(c.bytes, 1, n)[1] = c.bytes[1]
      BY <2>2, <3>1, <3>2, <3>4
    <3> QED  BY <2>2, <3>2, <3>3, <3>4
  <2>4. /\ d \in Connections /\ d.src = c.src /\ d.dst = c.dst
        /\ d.accepted = c.accepted /\ ~ d.open /\ d.bytes = SubSeq(c.bytes, 1, n)
    BY <1>6, <2>1, <2>3 DEF Connections
  <2>5. Brings(d)'
    <3>1. InRecv(d)' = InRecv(c)
      BY <1>2, <2>4 DEF InRecv
    <3>2. ASSUME HasLength(d)'
          PROVE  HasLength(c) /\ Expected(d)' = Expected(c)
      <4>1. CASE InRecv(c)
        BY <1>2, <2>4, <3>1, <4>1 DEF HasLength, Expected
      <4>2. CASE ~ InRecv(c)
        <5>1. n > 0
          BY <2>2, <2>3, <2>4, <3>1, <3>2, <4>2, EmptySeq DEF HasLength
        <5> QED  BY <2>3, <2>4, <3>1, <4>2, <5>1 DEF HasLength, Expected
      <4> QED  BY <4>1, <4>2
    <3> QED  BY <2>1, <2>4, <3>2 DEF IntactInv, Brings
  <2> QED  BY <1>2, <1>3, <1>4, <1>6, <2>4, <2>5, ReplaceIntact
<1> QED  BY <1>2, <1>5, <1>6 DEF CloseSend

LEMMA SendKilledIntact ==
    ASSUME IInv, IntactInv, NEW p \in EmIds, SendKilled(p), stack' = stack PROVE IntactInv'
<1>1. TypeInv /\ SocketInv /\ TokenInv
  BY DEF IInv
<1>2. /\ snd' = [snd EXCEPT ![p].pc = "dead"] /\ UNCHANGED files
      /\ rcv' = [rcv EXCEPT ![p].pc = "dead", ![p].listening = FALSE]
      /\ conns' = {c \in conns : c.dst # p} /\ snd[p].fd = "failed"
  BY DEF SendKilled
<1>3. /\ snd'[p].pc = "dead" /\ snd'[p].name = snd[p].name
      /\ \A q \in EmIds \ {p} : snd'[q] = snd[q] /\ rcv'[q] = rcv[q]
  <2>1. snd[p] \in SndType
    BY <1>1, Locals
  <2> QED  BY <1>1, <1>2, <2>1 DEF TypeInv, SndType
<1>4. \A q \in EmIds : Sends(q)'
  <2>1. Sends(p)'
    BY <1>3 DEF Sends, Busy, InFile
  <2> QED  BY <1>2, <1>3, <2>1, SendsFrame DEF IntactInv
<1>5. ASSUME NEW c \in conns'
      PROVE  Brings(c)'
  <2>1. c \in conns /\ c.dst \in EmIds /\ c.dst # p /\ c.src \in EmIds
    BY <1>1, <1>2, <1>5, ConnectionFields
  <2>2. conns' = conns
    <3>1. \A e \in conns : e.dst = c.dst
      BY <1>1, <2>1 DEF SocketInv
    <3> QED  BY <1>2, <2>1, <3>1
  <2>3. c.open => snd'[c.src] = snd[c.src]
    BY <1>2, <1>3, <2>1, OpenFacts
  <2> QED  BY <1>2, <1>3, <2>1, <2>2, <2>3, BringsFrame DEF IntactInv, Live
<1> QED  BY <1>2, <1>4, <1>5 DEF IntactInv

LEMMA SendFileDoneIntact ==
    ASSUME IInv, IntactInv, NEW p \in EmIds, SendFileDone(p), stack' = stack PROVE IntactInv'
<1>1. TypeInv
  BY DEF IInv
<1>2. /\ snd[p].pc = "file" /\ snd[p].toSend = Len(File) /\ snd[p].fileSize = Len(File)
      /\ snd[p].totalSent <= snd[p].position /\ ~ (snd[p].totalSent < snd[p].fileSize)
  BY DEF SendFileDone, InFile, IntactInv, Sends
<1>3. snd[p].totalSent = Len(File) /\ snd[p].position = Len(File) /\ Len(File) \in Nat
  <2>1. /\ snd[p].totalSent \in Nat /\ snd[p].position \in Nat /\ Len(File) \in Nat
        /\ snd[p].totalSent <= Len(File) /\ snd[p].position <= Len(File)
    BY <1>1, Locals, Parameters
  <2> QED  BY <1>2, <2>1
<1>4. snd' = [snd EXCEPT ![p].pc = "idle"] /\ UNCHANGED <<rcv, conns, files>>
  BY <1>2, <1>3 DEF SendFileDone
<1>5. snd'[p].pc = "idle" /\ \A q \in EmIds \ {p} : snd'[q] = snd[q]
  <2>1. snd[p] \in SndType
    BY <1>1, Locals
  <2> QED  BY <1>1, <1>4, <2>1 DEF TypeInv, SndType
<1>6. Sends(p)'
  BY <1>5 DEF Sends, Busy, InFile
<1>7. ASSUME NEW c \in conns, c.src = p, c.open
      PROVE  Brings(c)'
  <2>1. Expected(c)' = Len(File)
    BY <1>2, <1>4, <1>7, OpenFacts, CarriesFrame DEF IntactInv, Brings, Started
  <2>2. ASSUME Live(c)
        PROVE  Content(c)' = File
    <3>1. Content(c) = SubSeq(File, 1, Len(File))
      BY <1>2, <1>3, <1>7, <2>2 DEF IntactInv, Brings
    <3>2. Content(c)' = Content(c)
      BY <1>4 DEF Content, InRecv
    <3> QED  BY <3>1, <3>2, Parameters, SubSeqFull
  <2> QED  BY <1>4, <1>5, <1>7, <2>1, <2>2 DEF Brings, Live
<1> QED  BY <1>4, <1>5, <1>6, <1>7, LocalIntact

LEMMA ListenIntact ==
    ASSUME IInv, IntactInv, NEW q \in EmIds, Listen(q), stack' = stack PROVE IntactInv'
<1>1. TypeInv /\ SocketInv
  BY DEF IInv
<1>2. /\ rcv[q].pc = "listen" /\ UNCHANGED <<snd, conns, files>>
      /\ \A p \in EmIds \ {q} : rcv'[p] = rcv[p]
  BY <1>1 DEF Listen, TypeInv
<1>3. ASSUME NEW c \in conns
      PROVE  Brings(c)'
  <2>1. c.accepted => rcv'[c.dst] = rcv[c.dst]
    BY <1>1, <1>2, ConnectionFields DEF SocketInv
  <2> QED  BY <1>2, <2>1, BringsFrame DEF IntactInv, Live
<1> QED  BY <1>2, <1>3, SendsFrame DEF IntactInv

LEMMA AcceptIntact ==
    ASSUME IInv, IntactInv, IInv', NEW q \in EmIds, Accept(q), stack' = stack PROVE IntactInv'
<1>1. TypeInv /\ SocketInv
  BY DEF IInv
<1>2. rcv[q].pc = "accept" /\ UNCHANGED <<snd, files>> /\ rcv'[q].pc = "length"
  BY <1>1 DEF Accept, TypeInv, RcvType
<1>3. PICK c \in Backlog(q), d \in {[e EXCEPT !.accepted = TRUE] : e \in Backlog(q)} :
          d = [c EXCEPT !.accepted = TRUE] /\ Replace(c, d)
  BY DEF Accept
<1>4. c \in conns /\ c.dst = q /\ ~ c.accepted /\ c \in Connections
  BY <1>1, <1>3, ConnectionFields DEF Backlog
<1>5. d.src = c.src /\ d.dst = q /\ d.accepted /\ d.open = c.open /\ d.bytes = c.bytes
  BY <1>3, <1>4 DEF Connections
<1>6. conns = {c}
  <2>1. ASSUME NEW e \in conns PROVE e = c
    <3>1. e.dst = q /\ ~ e.accepted
      BY <1>1, <1>2, <1>4 DEF SocketInv
    <3> QED  BY <1>1, <1>4, <3>1, ConnectionFields DEF SocketInv
  <2> QED  BY <1>4, <2>1
<1>7. conns' = {d}
  BY <1>3, <1>6 DEF Replace
<1>8. ~ InRecv(c) /\ ~ InRecv(d)'
  BY <1>2, <1>4, <1>5 DEF InRecv
<1>9. HasLength(d)' = HasLength(c) /\ Expected(d)' = Expected(c) /\ Content(d)' = Content(c)
  BY <1>5, <1>8 DEF HasLength, Expected, Content
<1>10. Brings(d)'
  BY <1>2, <1>4, <1>5, <1>6, <1>9 DEF IntactInv, Brings, Live
<1> QED  BY <1>2, <1>7, <1>10, SendsFrame DEF IntactInv

\* recvFile writes what it has received into its file, which nobody sends.
LEMMA TakenIntact ==
    ASSUME IInv, IntactInv, IInv', ~ Clash', UNCHANGED <<snd, stack>>,
           NEW q \in EmIds, NEW c \in Accepted(q), NEW d, Replace(c, d),
           d.src = c.src, d.dst = q, d.accepted, d.open = c.open, HasLength(c),
           Expected(d)' = Expected(c), Content(d)' = Content(c),
           rcv'[q].pc = "file", rcv'[q].name = rcv[q].name,
           \A n \in Names \ {rcv[q].name} : files'[n] = files[n]
    PROVE  IntactInv'
<1>1. TypeInv /\ TokenInv /\ TypeInv' /\ SocketInv'
  BY DEF IInv
<1>2. /\ c \in conns /\ c.accepted /\ conns' = (conns \ {c}) \cup {d}
  BY DEF Accepted, Replace
<1>3. \A p \in EmIds : stack[p] = <<>>
  BY <1>1, <1>2 DEF TokenInv
<1>4. ASSUME NEW p \in EmIds
      PROVE  Sends(p)'
  <2>1. ASSUME Busy(p)
        PROVE  files'[snd[p].name] = files[snd[p].name]
    <3>1. snd'[p].pc \notin {"idle", "dead"}
      BY <2>1 DEF Busy
    <3>2. snd[p].name # rcv[q].name
      BY <3>1 DEF Clash
    <3> QED  BY <1>1, <3>2, Locals
  <2> QED  BY <2>1, SendsFrame DEF IntactInv
<1>5. ASSUME NEW e \in conns', e # d
      PROVE  Brings(e)'
  <2>1. e \in conns /\ d \in conns' /\ ~ Live(e)' /\ ~ e.accepted
    <3>1. e \in conns /\ d \in conns'
      BY <1>2, <1>5
    <3>2. Accepted(q)' = {d} /\ \A f \in conns' : f.accepted => f = d
      <4>1. d \in Accepted(q)'
        BY <3>1 DEF Accepted
      <4>2. ASSUME NEW f \in conns', f.accepted
            PROVE  f = d
        BY <1>1, <3>1, <4>2, ConnectionFields DEF SocketInv, TypeInv, Connections
      <4> QED  BY <4>1, <4>2 DEF Accepted
    <3> QED  BY <1>5, <3>1, <3>2 DEF Live
  <2>2. HasLength(e)' = HasLength(e) /\ Expected(e)' = Expected(e)
    BY <2>1 DEF HasLength, Expected, InRecv
  <2> QED  BY <2>1, <2>2 DEF IntactInv, Brings
<1>6. Brings(d)'
  BY <1>2 DEF IntactInv, Brings, Live
<1> QED  BY <1>3, <1>4, <1>5, <1>6 DEF IntactInv

LEMMA RecvLengthIntact ==
    ASSUME IInv, IntactInv, IInv', ~ Clash', NEW q \in EmIds, RecvLength(q), stack' = stack
    PROVE  IntactInv'
<1>1. TypeInv /\ ItemsInv
  BY DEF IInv
<1>2. PICK c \in Accepted(q), d \in {[e EXCEPT !.bytes = Tail(e.bytes)] : e \in Accepted(q)} :
          /\ c.bytes # <<>> /\ d = [c EXCEPT !.bytes = Tail(c.bytes)] /\ Replace(c, d)
          /\ rcv' = [rcv EXCEPT ![q].pc = "file", ![q].expected = - Head(c.bytes), ![q].got = 0]
  BY DEF RecvLength
<1>3. /\ c \in conns /\ c.dst = q /\ c.accepted /\ c \in Connections
      /\ c.bytes \in Seq(Int) /\ rcv[q].pc = "length" /\ rcv[q].name \in Names /\ rcv[q] \in RcvType
      /\ ~ InRecv(c) /\ HasLength(c)
  BY <1>1, <1>2, ConnectionFields, Locals DEF Accepted, RecvLength, InRecv, HasLength
<1>4. /\ d.src = c.src /\ d.dst = q /\ d.accepted /\ d.open = c.open /\ d.bytes = Tail(c.bytes)
  BY <1>2, <1>3 DEF Connections
<1>5. /\ files'[rcv[q].name] = <<>> /\ \A n \in Names \ {rcv[q].name} : files'[n] = files[n]
      /\ UNCHANGED snd
  BY <1>1, <1>3 DEF RecvLength, TypeInv
<1>6. /\ rcv'[q].pc = "file" /\ rcv'[q].name = rcv[q].name /\ rcv'[q].expected = - Head(c.bytes)
  BY <1>1, <1>2, <1>3 DEF TypeInv, RcvType
<1>7. InRecv(d)'
  BY <1>4, <1>6 DEF InRecv
<1>8. Expected(d)' = Expected(c)
  <2>1. Head(c.bytes) = c.bytes[1]
    BY <1>2, <1>3, HeadTailProperties
  <2>2. Expected(c) = - c.bytes[1]
    BY <1>3 DEF Expected
  <2>3. Expected(d)' = rcv'[q].expected
    BY <1>4, <1>7 DEF Expected
  <2> QED  BY <1>6, <2>1, <2>2, <2>3
<1>9. Content(d)' = Content(c)
  <2>1. Tail(c.bytes) \in Seq(Int)
    BY <1>2, <1>3, HeadTailProperties
  <2>2. <<>> \o Tail(c.bytes) = Tail(c.bytes)
    BY <2>1, ConcatEmptySeq
  <2>3. Content(c) = Tail(c.bytes)
    BY <1>3 DEF Content
  <2>4. Content(d)' = <<>> \o Tail(c.bytes)
    BY <1>4, <1>5, <1>6, <1>7 DEF Content
  <2> QED  BY <2>2, <2>3, <2>4
<1> QED  BY <1>2, <1>3, <1>4, <1>5, <1>6, <1>8, <1>9, TakenIntact

LEMMA RecvFileChunkIntact ==
    ASSUME IInv, IntactInv, IInv', ~ Clash', NEW q \in EmIds, RecvFileChunk(q), stack' = stack
    PROVE  IntactInv'
<1>1. TypeInv /\ ItemsInv
  BY DEF IInv
<1>2. PICK c \in Accepted(q) : \E r \in 1 .. Min({RecvChunk, Len(c.bytes)}) :
          /\ files' = [files EXCEPT ![rcv[q].name] = @ \o SubSeq(c.bytes, 1, r)]
          /\ rcv' = [rcv EXCEPT ![q].got = @ + r]
          /\ Replace(c, [c EXCEPT !.bytes = SubSeq(@, r + 1, Len(@))])
  BY DEF RecvFileChunk
<1>3. PICK r \in 1 .. Min({RecvChunk, Len(c.bytes)}) :
          /\ files' = [files EXCEPT ![rcv[q].name] = @ \o SubSeq(c.bytes, 1, r)]
          /\ rcv' = [rcv EXCEPT ![q].got = @ + r]
          /\ Replace(c, [c EXCEPT !.bytes = SubSeq(@, r + 1, Len(@))])
  BY <1>2
<1>4. PICK d : d = [c EXCEPT !.bytes = SubSeq(c.bytes, r + 1, Len(c.bytes))]
  OBVIOUS
<1>5. /\ c \in conns /\ c.dst = q /\ c.accepted /\ c \in Connections
      /\ c.bytes \in Seq(Int) /\ Len(c.bytes) \in Nat /\ rcv[q].pc = "file"
      /\ rcv[q].name \in Names /\ rcv[q] \in RcvType /\ files[rcv[q].name] \in Seq(Int)
      /\ InRecv(c) /\ HasLength(c)
  BY <1>1, <1>2, ConnectionFields, Locals, SeqMonotonic
  DEF Accepted, RecvFileChunk, InRecv, HasLength
<1>6. r \in 1 .. Len(c.bytes)
  <2>1. RecvChunk \in Int /\ Len(c.bytes) \in Int
    BY <1>5, Parameters
  <2>2. Min({RecvChunk, Len(c.bytes)}) \in Int /\ Min({RecvChunk, Len(c.bytes)}) <= Len(c.bytes)
    BY <2>1, MinOfTwo
  <2> QED  BY <1>5, <2>2
<1>7. /\ d.src = c.src /\ d.dst = q /\ d.accepted /\ d.open = c.open
      /\ d.bytes = SubSeq(c.bytes, r + 1, Len(c.bytes))
  BY <1>4, <1>5 DEF Connections
<1>8. /\ files'[rcv[q].name] = files[rcv[q].name] \o SubSeq(c.bytes, 1, r)
      /\ \A n \in Names \ {rcv[q].name} : files'[n] = files[n]
      /\ UNCHANGED snd
  BY <1>1, <1>3, <1>5 DEF RecvFileChunk, TypeInv
<1>9. rcv'[q].pc = "file" /\ rcv'[q].name = rcv[q].name /\ rcv'[q].expected = rcv[q].expected
  BY <1>1, <1>3, <1>5 DEF TypeInv, RcvType
<1>10. InRecv(d)'
  BY <1>7, <1>9 DEF InRecv
<1>11. Expected(d)' = Expected(c)
  BY <1>5, <1>7, <1>9, <1>10, SMTT(30) DEF Expected
<1>12. Content(d)' = Content(c)
  <2> DEFINE before == SubSeq(c.bytes, 1, r)
             after == SubSeq(c.bytes, r + 1, Len(c.bytes))
  <2>1. before \o after = c.bytes
    <3>1. 1 \in 1 .. Len(c.bytes) + 1 /\ r \in 1 - 1 .. Len(c.bytes) /\ Len(c.bytes) \in r .. Len(c.bytes)
      BY <1>5, <1>6
    <3>2. before \o after = SubSeq(c.bytes, 1, Len(c.bytes))
      BY <1>5, <3>1, ConcatAdjacentSubSeq
    <3> QED  BY <1>5, <3>2, SubSeqFull
  <2>2. before \in Seq(Int) /\ after \in Seq(Int)
    <3>1. /\ \A i \in 1 .. r : c.bytes[i] \in Int
          /\ \A i \in r + 1 .. Len(c.bytes) : c.bytes[i] \in Int
      <4>1. /\ \A i \in 1 .. r : i \in 1 .. Len(c.bytes)
            /\ \A i \in r + 1 .. Len(c.bytes) : i \in 1 .. Len(c.bytes)
        BY <1>5, <1>6
      <4> QED  BY <1>5, <4>1, ElementOfSeq, SMTT(30)
    <3> QED  BY <1>5, <1>6, <3>1, SubSeqProperties
  <2> HIDE DEF before, after
  <2>3. (files[rcv[q].name] \o before) \o after = files[rcv[q].name] \o c.bytes
    <3>1. PICK old : old = files[rcv[q].name]
      OBVIOUS
    <3>2. old \in Seq(Int)
      BY <1>5, <3>1
    <3>3. (old \o before) \o after = old \o (before \o after)
      BY <2>2, <3>2, Associative
    <3> QED  BY <2>1, <3>1, <3>3
  <2> QED  BY <1>5, <1>7, <1>8, <1>9, <1>10, <2>3, Zenon DEF Content, before, after
<1>13. Replace(c, d)
  BY <1>3, <1>4
<1> QED  BY <1>5, <1>7, <1>8, <1>9, <1>11, <1>12, <1>13, TakenIntact

LEMMA RecvFileFailsIntact ==
    ASSUME IInv, IntactInv, NEW q \in EmIds, RecvFileFails(q), stack' = stack PROVE IntactInv'
<1>1. SocketInv
  BY DEF IInv
<1>2. PICK c \in conns : c.dst = q
  BY DEF RecvFileFails, Reset, Accepted
<1>3. conns' = {} /\ UNCHANGED <<snd, files>>
  BY <1>1, <1>2 DEF RecvFileFails, SocketInv
<1> QED  BY <1>3, SendsFrame DEF IntactInv

LEMMA PushIntact ==
    ASSUME IInv, IntactInv, NEW q \in EmIds, Push(q) PROVE IntactInv'
<1>1. TypeInv
  BY DEF IInv
<1>2. PICK mes \in Message : ReceiveReturns(q, mes) /\ stack' = [stack EXCEPT ![q] = Append(@, mes)]
  BY DEF Push
<1>3. /\ conns' = {} /\ \A p \in EmIds : ~ Busy(p) /\ stack[p] = <<>>
      /\ \E c \in conns : /\ conns = {c} /\ c.open /\ c.dst = q /\ InRecv(c) /\ HasLength(c)
                          /\ c.bytes = <<>> /\ snd[c.src].pc \in {"file", "idle"} /\ c.src \in EmIds
  BY <1>2, WholeReceived
<1>4. PICK c \in conns : /\ conns = {c} /\ c.open /\ c.dst = q /\ InRecv(c) /\ HasLength(c)
                         /\ c.bytes = <<>> /\ snd[c.src].pc \in {"file", "idle"} /\ c.src \in EmIds
  BY <1>3
<1>5. UNCHANGED <<snd, files>> /\ mes.name = rcv[q].name
  BY <1>2 DEF ReceiveReturns
<1>6. Content(c) = File
  <2>1. CASE snd[c.src].pc = "idle"
    BY <1>4, <2>1 DEF IntactInv, Brings, Live
  <2>2. CASE snd[c.src].pc = "file"
    <3>1. /\ snd[c.src].toSend = Len(File) /\ snd[c.src].totalSent = snd[c.src].toSend
          /\ snd[c.src].totalSent <= snd[c.src].position
      BY <1>3, <1>4, <2>2 DEF IntactInv, Sends, Busy
    <3>2. snd[c.src].position \in Nat /\ snd[c.src].position <= Len(File) /\ Len(File) \in Nat
      BY <1>1, <1>4, Locals, Parameters
    <3>3. snd[c.src].position = snd[c.src].totalSent
      BY <3>1, <3>2
    <3>4. Content(c) = SubSeq(File, 1, Len(File))
      BY <1>4, <2>2, <3>1, <3>3 DEF IntactInv, Brings, Live
    <3> QED  BY <3>4, Parameters, SubSeqFull
  <2> QED  BY <1>4, <2>1, <2>2
<1>7. files[rcv[q].name] = File
  <2>1. files[rcv[q].name] \in Seq(Nat)
    BY <1>1, Locals
  <2>2. files[rcv[q].name] \o <<>> = files[rcv[q].name]
    BY <2>1, ConcatEmptySeq
  <2> QED  BY <1>4, <1>6, <2>2 DEF Content
<1>8. ASSUME NEW p \in EmIds, stack'[p] # <<>>
      PROVE  files'[stack'[p][1].name] = File
  <2>1. p = q
    BY <1>1, <1>2, <1>3, <1>8 DEF TypeInv
  <2>2. stack'[q][1] = mes
    <3>1. stack'[q] = Append(<<>>, mes)
      BY <1>1, <1>2, <1>3 DEF TypeInv
    <3> QED  BY <3>1
  <2> QED  BY <1>5, <1>7, <2>1, <2>2
<1> QED  BY <1>3, <1>5, <1>8, SendsFrame DEF IntactInv

LEMMA InitIntact == Init => IntactInv
<1> SUFFICES ASSUME Init PROVE IntactInv
  OBVIOUS
<1>1. \A p \in EmIds : snd[p].pc = "idle"
  BY DEF Init, HelperInit
<1>2. files[Original] = File /\ conns = {}
  BY Parameters DEF Init, HelperInit
<1>3. ASSUME NEW p \in EmIds, stack[p] # <<>>
      PROVE  stack[p][1].name = Original
  BY <1>3 DEF Init
<1>4. \A p \in EmIds : Sends(p)
  BY <1>1 DEF Sends, Busy
<1> QED  BY <1>2, <1>3, <1>4 DEF IntactInv

LEMMA NextIntact == IInv /\ IInv' /\ IntactInv /\ ~ Clash' /\ [Next]_vars => IntactInv'
<1> SUFFICES ASSUME IInv, IInv', IntactInv, ~ Clash', [Next]_vars PROVE IntactInv'
  OBVIOUS
<1>1. CASE UNCHANGED vars
  BY <1>1, SendsFrame, BringsFrame DEF vars, IntactInv, Live
<1>2. ASSUME NEW p \in EmIds, SendThread(p)
      PROVE  IntactInv'
  <2>1. CASE Pop(p)
    BY <2>1, PopIntact
  <2>2. CASE SendTcp(p) /\ stack' = stack
    BY <2>2, ConnectAgainIntact, ConnectOkIntact, SendEmptyIntact, SendLengthIntact, OpenFileIntact,
       SendFileChunkIntact, SendFileFailsIntact, SendKilledIntact, SendFileDoneIntact DEF SendTcp
  <2> QED  BY <1>2, <2>1, <2>2 DEF SendThread
<1>3. ASSUME NEW q \in EmIds, RecvThread(q)
      PROVE  IntactInv'
  <2>1. CASE Push(q)
    BY <2>1, PushIntact
  <2>2. CASE ReceiveTcp(q) /\ stack' = stack
    BY <2>2, ListenIntact, AcceptIntact, RecvLengthIntact, RecvFileChunkIntact, RecvFileFailsIntact
    DEF ReceiveTcp
  <2> QED  BY <1>3, <2>1, <2>2 DEF RecvThread
<1> QED  BY <1>1, <1>2, <1>3 DEF Next

\* FileIntact: unless names clash, every file that a peer has on its stack is the
\* whole file and nothing else, whatever sends are cut short.
THEOREM FileIntactHolds == Spec => FileIntact
<1>1. IInv /\ IntactInv => Intact
  <2> SUFFICES ASSUME IInv, IntactInv, NEW p \in EmIds, NEW i \in 1 .. Len(stack[p])
               PROVE  files[stack[p][i].name] = File
    BY DEF Intact
  <2>1. stack[p] \in Seq(Message) /\ Len(stack[p]) <= 1
    BY DEF IInv, TypeInv, TokenInv
  <2>2. Len(stack[p]) \in Nat
    BY <2>1
  <2>3. i = 1 /\ stack[p] # <<>>
    BY <2>1, <2>2, EmptySeq
  <2> QED  BY <2>3 DEF IntactInv
<1> QED  BY <1>1, AlwaysIInv, InitIntact, NextIntact, PTL DEF Spec, FileIntact
-----------------------------------------------------------------------------
(* As long as no send is cut short either, nothing fails.                  *)

UncutInv ==
    /\ \A c \in conns : c.open
    /\ \A p \in EmIds : snd[p].pc \in {"length", "open"} \/ InFile(p) => Own(p) # {}
    /\ \A p \in EmIds : snd[p].pc = "file" => snd[p].position = snd[p].totalSent
    /\ \A c \in conns : snd[c.src].pc = "idle" => HasLength(c)
    /\ \/ \E p \in EmIds : stack[p] # <<>> \/ Busy(p)
       \/ conns # {}

\* No connection waits behind one that has been closed.
LEMMA OneConnection ==
    ASSUME TypeInv, SocketInv, UncutInv, NEW c \in conns
    PROVE  conns = {c}
<1>1. \A d \in conns : d.open /\ c.open
  BY DEF UncutInv
<1>2. ASSUME NEW d \in conns PROVE d = c
  <2>1. c.accepted => d = c \/ ~ c.open
    BY DEF SocketInv
  <2>2. d.accepted => d = c \/ ~ d.open
    BY DEF SocketInv
  <2>3. c.accepted = d.accepted => c = d
    BY DEF SocketInv
  <2>4. c.accepted \in BOOLEAN /\ d.accepted \in BOOLEAN
    BY DEF TypeInv, Connections
  <2> QED
    BY <1>1, <2>1, <2>2, <2>3, <2>4
<1> QED
  BY <1>2

\* One connection takes the place of another.
LEMMA ReplaceUncut ==
    ASSUME TypeInv, SocketInv, UncutInv, NEW c \in conns, NEW d, Replace(c, d),
           d.src = c.src, d.open = c.open,
           \A p \in EmIds : p # c.src => snd'[p] = snd[p],
           snd'[c.src] = snd[c.src] \/ snd'[c.src].pc \in {"open", "file"},
           snd'[c.src].pc = "file" => snd'[c.src].position = snd'[c.src].totalSent,
           snd'[c.src].pc = "idle" /\ HasLength(c) => HasLength(d)'
    PROVE  UncutInv'
<1>1. conns = {c} /\ conns' = {d} /\ d.open /\ d.src = c.src
  BY OneConnection DEF Replace, UncutInv
<1>2. Own(c.src)' # {}
  BY <1>1 DEF Own
<1>3. ASSUME NEW p \in EmIds
      PROVE  /\ snd'[p].pc \in {"length", "open"} \/ InFile(p)' => Own(p)' # {}
             /\ snd'[p].pc = "file" => snd'[p].position = snd'[p].totalSent
  <2>1. CASE p = c.src
    BY <1>2, <2>1
  <2>2. CASE p # c.src
    <3>1. Own(p) = {} /\ snd'[p] = snd[p]
      BY <1>1, <2>2 DEF Own
    <3> QED  BY <3>1 DEF UncutInv, InFile
  <2> QED  BY <2>1, <2>2
<1>4. snd'[c.src].pc = "idle" => HasLength(d)'
  BY <1>1 DEF UncutInv
<1> QED  BY <1>1, <1>3, <1>4 DEF UncutInv

LEMMA PopUncut ==
    ASSUME IInv, UncutInv, NEW p \in EmIds, Pop(p) PROVE UncutInv'
<1>1. TypeInv /\ TokenInv
  BY DEF IInv
<1>2. conns = {} /\ conns' = {} /\ stack[p] # <<>>
  BY <1>1 DEF Pop, StartSend, TokenInv
<1>3. snd'[p].pc = "connect" /\ \A q \in EmIds \ {p} : snd'[q] = snd[q]
  <2>1. snd[p] \in SndType
    BY <1>1, Locals
  <2> QED  BY <1>1, <2>1 DEF Pop, StartSend, TypeInv, SndType
<1>4. Busy(p)'
  BY <1>3 DEF Busy
<1>5. \A q \in EmIds : Own(q)' = Own(q)
  BY <1>2 DEF Own
<1> QED  BY <1>2, <1>3, <1>4, <1>5 DEF UncutInv, InFile

LEMMA ConnectAgainUncut ==
    ASSUME IInv, UncutInv, NEW p \in EmIds, ConnectAgain(p) PROVE UncutInv'
<1>1. TypeInv
  BY DEF IInv
<1>2. Own(p) = {}
  BY OpenFacts DEF Own, ConnectAgain
<1>3. conns' = conns /\ rcv' = rcv
  BY <1>2 DEF ConnectAgain, CloseSend
<1>4. snd'[p].pc = "connect" /\ \A q \in EmIds \ {p} : snd'[q] = snd[q]
  <2>1. snd[p] \in SndType
    BY <1>1, Locals
  <2> QED  BY <1>1, <2>1 DEF ConnectAgain, CloseSend, TypeInv, SndType
<1>5. Busy(p)'
  BY <1>4 DEF Busy
<1>6. \A q \in EmIds : Own(q)' = Own(q)
  BY <1>3 DEF Own
<1>7. \A c \in conns : c.src # p /\ c.src \in EmIds /\ HasLength(c)' = HasLength(c)
  BY <1>1, <1>2, <1>3, ConnectionFields, CarriesFrame DEF Own, UncutInv
<1> QED  BY <1>3, <1>4, <1>5, <1>6, <1>7 DEF UncutInv, InFile

LEMMA ConnectOkUncut ==
    ASSUME IInv, UncutInv, NEW p \in EmIds, ConnectOk(p) PROVE UncutInv'
<1>1. TypeInv /\ TokenInv
  BY DEF IInv
<1>2. snd[p].pc = "connect" /\ Busy(p)
  BY DEF ConnectOk, Busy
<1>3. conns = {}
  BY <1>1, <1>2, OpenFacts DEF TokenInv, UncutInv
<1>4. snd'[p].pc = "length" /\ \A q \in EmIds \ {p} : snd'[q] = snd[q]
  <2>1. snd[p] \in SndType
    BY <1>1, Locals
  <2> QED  BY <1>1, <2>1 DEF ConnectOk, TypeInv, SndType
<1>5. PICK d : d = [src |-> p, dst |-> snd[p].to, accepted |-> FALSE, open |-> TRUE, bytes |-> <<>>]
  OBVIOUS
<1>6. d.src = p /\ d.open
  BY <1>5
<1>7. conns' = {d}
  BY <1>3, <1>5 DEF ConnectOk
<1>8. \A q \in EmIds \ {p} : ~ Busy(q)' /\ snd'[q].pc \notin {"length", "open"} /\ ~ InFile(q)'
  BY <1>1, <1>2, <1>4 DEF TokenInv, Busy, InFile
<1>9. \A q \in EmIds \ {p} : snd'[q].pc = "file" => snd'[q].position = snd'[q].totalSent
  BY <1>4 DEF UncutInv
<1>10. Own(p)' # {}
  BY <1>6, <1>7 DEF Own
<1> QED  BY <1>4, <1>6, <1>7, <1>8, <1>9, <1>10 DEF UncutInv, InFile

\* The file that is being sent is the whole one, so it is not empty.
LEMMA NeverEmpty ==
    ASSUME IInv, IntactInv, NEW p \in EmIds, Busy(p)
    PROVE  files[snd[p].name] = File /\ files[snd[p].name] # <<>>
BY Parameters, EmptySeq DEF IntactInv, Sends

LEMMA SendLengthUncut ==
    ASSUME IInv, UncutInv, NEW p \in EmIds, SendLength(p), stack' = stack PROVE UncutInv'
<1>1. TypeInv /\ SocketInv
  BY DEF IInv
<1>2. snd'[p].pc = "open" /\ \A q \in EmIds \ {p} : snd'[q] = snd[q]
  <2>1. snd[p] \in SndType
    BY <1>1, Locals
  <2> QED  BY <1>1, <2>1 DEF SendLength, TypeInv, SndType
<1>3. PICK bytes : Send(p, bytes)
  BY DEF SendLength
<1>4. PICK c \in Own(p) : Replace(c, [c EXCEPT !.bytes = c.bytes \o bytes])
  BY <1>1, <1>3, Sent DEF SendLength, UncutInv
<1>5. PICK d : d = [c EXCEPT !.bytes = c.bytes \o bytes]
  OBVIOUS
<1>6. c \in conns /\ c.src = p /\ d.src = p /\ d.open = c.open /\ Replace(c, d)
  BY <1>1, <1>4, <1>5, ConnectionFields DEF Own, Connections
<1> QED  BY <1>1, <1>2, <1>6, ReplaceUncut

LEMMA OpenFileUncut ==
    ASSUME IInv, UncutInv, NEW p \in EmIds, OpenFile(p) PROVE UncutInv'
<1>1. TypeInv
  BY DEF IInv
<1>2. /\ snd'[p].pc = "file" /\ snd'[p].position = snd'[p].totalSent
      /\ \A q \in EmIds \ {p} : snd'[q] = snd[q]
  <2>1. snd[p] \in SndType
    BY <1>1, Locals
  <2> QED  BY <1>1, <2>1 DEF OpenFile, TypeInv, SndType
<1>3. conns' = conns /\ rcv' = rcv /\ Own(p) # {} /\ snd[p].pc = "open"
  BY DEF OpenFile, UncutInv
<1>4. \A q \in EmIds : Own(q)' = Own(q)
  BY <1>3 DEF Own
<1>5. \A c \in conns : c.src \in EmIds /\ HasLength(c)' = HasLength(c)
  BY <1>1, <1>3, ConnectionFields, CarriesFrame
<1>6. conns' # {}
  BY <1>3 DEF Own
<1> QED  BY <1>2, <1>3, <1>4, <1>5, <1>6 DEF UncutInv, InFile

LEMMA SendFileChunkUncut ==
    ASSUME IInv, UncutInv, ~ short', NEW p \in EmIds, SendFileChunk(p) PROVE UncutInv'
<1>1. TypeInv /\ SocketInv
  BY DEF IInv
<1>2. Own(p) # {}
  BY DEF SendFileChunk, UncutInv
<1>3. PICK s \in SndType, sent \in Nat, c \in Own(p), d \in Connections :
          ChunkJoins(p, c, d, s, sent)
  BY <1>2, ChunkSent DEF ChunkLost
<1>4. /\ snd' = [snd EXCEPT ![p] = s] /\ sent <= ToRead(p) /\ ~ (sent < ToRead(p))
      /\ s.pc = "file" /\ s.totalSent = snd[p].totalSent + sent
      /\ s.position = snd[p].position + ToRead(p)
      /\ Replace(c, d) /\ d.src = c.src /\ d.open = c.open
  BY <1>3 DEF ChunkJoins, ChunkRead
<1>5. snd'[p] = s /\ \A q \in EmIds \ {p} : snd'[q] = snd[q]
  BY <1>1, <1>4 DEF TypeInv
<1>6. c \in conns /\ c.src = p
  BY DEF Own
<1>7. s.position = s.totalSent
  <2>1. snd[p].position = snd[p].totalSent
    BY DEF SendFileChunk, InFile, UncutInv
  <2>2. ToRead(p) \in Nat
    BY <1>1, ReadFacts DEF SendFileChunk
  <2>3. sent = ToRead(p)
    BY <1>4, <2>2
  <2> QED  BY <1>4, <2>1, <2>3
<1> QED  BY <1>1, <1>4, <1>5, <1>6, <1>7, ReplaceUncut

\* The three causes for which send_tcp begins again do not arise.
LEMMA SendFileFailsUncut ==
    ASSUME IInv, IntactInv, UncutInv, NEW p \in EmIds, SendFileFails(p) PROVE FALSE
<1>1. TypeInv
  BY DEF IInv
<1>2. CASE snd[p].pc = "open" /\ files[snd[p].name] = <<>>
  BY <1>2, NeverEmpty DEF Busy
<1>3. CASE InFile(p) /\ ~ Readable(p)
  <2>1. /\ files[snd[p].name] = File /\ snd[p].fileSize = Len(File)
        /\ snd[p].position = snd[p].totalSent
    BY <1>3, NeverEmpty DEF Busy, InFile, IntactInv, Sends, UncutInv
  <2> QED  BY <1>1, <1>3, <2>1, ReadFacts DEF Readable
<1>4. CASE InFile(p) /\ Own(p) = {}
  BY <1>4 DEF UncutInv
<1> QED  BY <1>2, <1>3, <1>4 DEF SendFileFails

LEMMA SendKilledUncut ==
    ASSUME IInv, UncutInv, NEW p \in EmIds, SendKilled(p) PROVE FALSE
<1>1. PICK c \in Own(p) : TRUE
  BY DEF SendKilled, UncutInv
<1> QED  BY <1>1, OpenFacts DEF Own, SendKilled

LEMMA SendFileDoneUncut ==
    ASSUME IInv, IntactInv, UncutInv, NEW p \in EmIds, SendFileDone(p), stack' = stack
    PROVE  UncutInv'
<1>1. TypeInv
  BY DEF IInv
<1>2. /\ snd[p].pc = "file" /\ snd[p].toSend = Len(File) /\ snd[p].fileSize = Len(File)
      /\ ~ InFile(p) /\ snd[p].totalSent \in Nat /\ snd[p].totalSent <= Len(File)
      /\ Len(File) \in Nat
  BY <1>1, Locals, Parameters DEF SendFileDone, IntactInv, Sends
<1>3. snd[p].totalSent = snd[p].toSend
  BY <1>2 DEF InFile
<1>4. snd'[p].pc = "idle" /\ \A q \in EmIds \ {p} : snd'[q] = snd[q]
  <2>1. snd[p] \in SndType
    BY <1>1, Locals
  <2> QED  BY <1>1, <1>3, <2>1 DEF SendFileDone, TypeInv, SndType
<1>5. conns' = conns /\ rcv' = rcv
  BY DEF SendFileDone
<1>6. \A q \in EmIds : Own(q)' = Own(q)
  BY <1>5 DEF Own
<1>7. ASSUME NEW c \in conns, snd'[c.src].pc = "idle"
      PROVE  HasLength(c)'
  <2>1. c.src \in EmIds /\ HasLength(c)' = HasLength(c) /\ c.open
    BY <1>1, <1>5, ConnectionFields, CarriesFrame DEF UncutInv
  <2>2. CASE c.src = p
    BY <1>2, <2>1, <2>2, OpenFacts DEF Started
  <2>3. CASE c.src # p
    BY <1>4, <1>7, <2>1, <2>3 DEF UncutInv
  <2> QED  BY <2>2, <2>3
<1>8. (\E q \in EmIds : stack'[q] # <<>> \/ Busy(q)') \/ conns' # {}
  <2>1. ~ Busy(p)
    BY <1>2, <1>3 DEF Busy
  <2>2. \A q \in EmIds : Busy(q) => Busy(q)'
    BY <1>4, <2>1, BusyFrame
  <2> QED  BY <1>5, <2>2 DEF UncutInv
<1> QED  BY <1>4, <1>5, <1>6, <1>7, <1>8 DEF UncutInv, InFile

LEMMA ListenUncut ==
    ASSUME IInv, UncutInv, NEW q \in EmIds, Listen(q), stack' = stack PROVE UncutInv'
<1>1. TypeInv /\ SocketInv
  BY DEF IInv
<1>2. /\ rcv[q].pc = "listen" /\ UNCHANGED <<snd, conns>>
      /\ \A p \in EmIds \ {q} : rcv'[p] = rcv[p]
  BY <1>1 DEF Listen, TypeInv
<1>3. ASSUME NEW c \in conns
      PROVE  HasLength(c)' = HasLength(c)
  <2>1. c.accepted => rcv'[c.dst] = rcv[c.dst]
    BY <1>1, <1>2, ConnectionFields DEF SocketInv
  <2> QED  BY <2>1, CarriesFrame
<1> QED  BY <1>2, <1>3, BusyFrame DEF UncutInv, Own, InFile

LEMMA AcceptUncut ==
    ASSUME IInv, UncutInv, NEW q \in EmIds, Accept(q), stack' = stack PROVE UncutInv'
<1>1. TypeInv /\ SocketInv
  BY DEF IInv
<1>2. PICK c \in Backlog(q) : Replace(c, [c EXCEPT !.accepted = TRUE])
  BY DEF Accept
<1>3. PICK d : d = [c EXCEPT !.accepted = TRUE]
  OBVIOUS
<1>4. c \in conns /\ ~ c.accepted /\ c \in Connections
  BY <1>1, <1>2, ConnectionFields DEF Backlog
<1>5. d.src = c.src /\ d.open = c.open /\ d.bytes = c.bytes /\ Replace(c, d)
  BY <1>2, <1>3, <1>4 DEF Connections
<1>6. HasLength(c) => HasLength(d)'
  BY <1>4, <1>5 DEF HasLength, InRecv
<1>7. snd' = snd /\ (snd'[c.src].pc = "file" => snd'[c.src].position = snd'[c.src].totalSent)
  BY <1>1, <1>4, ConnectionFields DEF Accept, UncutInv
<1> QED  BY <1>1, <1>4, <1>5, <1>6, <1>7, ReplaceUncut

\* recvFile is at work with a connection.
LEMMA TakenUncut ==
    ASSUME IInv, UncutInv, snd' = snd, NEW q \in EmIds, NEW c \in Accepted(q), NEW d, Replace(c, d),
           d.src = c.src, d.dst = c.dst, d.open = c.open, d.accepted = c.accepted,
           rcv'[q].pc = "file"
    PROVE  UncutInv'
<1>1. TypeInv /\ SocketInv /\ c \in conns
  BY DEF IInv, Accepted
<1>2. HasLength(d)'
  BY DEF HasLength, InRecv, Accepted
<1>3. snd'[c.src].pc = "file" => snd'[c.src].position = snd'[c.src].totalSent
  BY <1>1, ConnectionFields DEF IInv, UncutInv
<1> QED  BY <1>1, <1>2, <1>3, ReplaceUncut

LEMMA RecvLengthUncut ==
    ASSUME IInv, UncutInv, NEW q \in EmIds, RecvLength(q), stack' = stack PROVE UncutInv'
<1>1. TypeInv
  BY DEF IInv
<1>2. PICK c \in Accepted(q) : Replace(c, [c EXCEPT !.bytes = Tail(c.bytes)])
  BY DEF RecvLength
<1>3. PICK d : d = [c EXCEPT !.bytes = Tail(c.bytes)]
  OBVIOUS
<1>4. c \in Connections
  BY <1>1, <1>2, ConnectionFields DEF Accepted
<1>5. /\ d.src = c.src /\ d.dst = c.dst /\ d.open = c.open /\ d.accepted = c.accepted
      /\ Replace(c, d)
  BY <1>2, <1>3, <1>4 DEF Connections
<1>6. rcv'[q].pc = "file"
  <2>1. rcv[q] \in RcvType
    BY <1>1, Locals
  <2> QED  BY <1>1, <2>1 DEF RecvLength, TypeInv, RcvType
<1> QED  BY <1>2, <1>5, <1>6, TakenUncut DEF RecvLength

LEMMA RecvFileChunkUncut ==
    ASSUME IInv, UncutInv, NEW q \in EmIds, RecvFileChunk(q), stack' = stack PROVE UncutInv'
<1>1. TypeInv
  BY DEF IInv
<1>2. PICK c \in Accepted(q) : \E r \in 1 .. Min({RecvChunk, Len(c.bytes)}) :
          /\ rcv' = [rcv EXCEPT ![q].got = @ + r]
          /\ Replace(c, [c EXCEPT !.bytes = SubSeq(@, r + 1, Len(@))])
  BY DEF RecvFileChunk
<1>3. PICK r \in 1 .. Min({RecvChunk, Len(c.bytes)}) :
          /\ rcv' = [rcv EXCEPT ![q].got = @ + r]
          /\ Replace(c, [c EXCEPT !.bytes = SubSeq(@, r + 1, Len(@))])
  BY <1>2
<1>4. PICK d : d = [c EXCEPT !.bytes = SubSeq(c.bytes, r + 1, Len(c.bytes))]
  OBVIOUS
<1>5. c \in Connections
  BY <1>1, <1>2, ConnectionFields DEF Accepted
<1>6. /\ d.src = c.src /\ d.dst = c.dst /\ d.open = c.open /\ d.accepted = c.accepted
      /\ Replace(c, d)
  BY <1>3, <1>4, <1>5 DEF Connections
<1>7. rcv'[q].pc = "file"
  <2>1. rcv[q] \in RcvType
    BY <1>1, Locals
  <2> QED  BY <1>1, <1>3, <2>1 DEF RecvFileChunk, TypeInv, RcvType
<1> QED  BY <1>2, <1>6, <1>7, TakenUncut DEF RecvFileChunk

\* No connection is reset.
LEMMA RecvFileFailsUncut ==
    ASSUME UncutInv, NEW q \in EmIds, RecvFileFails(q) PROVE FALSE
BY DEF RecvFileFails, Reset, Accepted, UncutInv

LEMMA PushUncut ==
    ASSUME IInv, UncutInv, NEW q \in EmIds, Push(q) PROVE UncutInv'
<1>1. TypeInv
  BY DEF IInv
<1>2. PICK mes \in Message : ReceiveReturns(q, mes) /\ stack' = [stack EXCEPT ![q] = Append(@, mes)]
  BY DEF Push
<1>3. conns' = {} /\ \A p \in EmIds : ~ Busy(p) /\ stack[p] = <<>>
  BY <1>2, WholeReceived
<1>4. snd' = snd
  BY <1>2 DEF ReceiveReturns
<1>5. stack'[q] # <<>>
  <2>1. stack'[q] = Append(<<>>, mes)
    BY <1>1, <1>2, <1>3 DEF TypeInv
  <2> QED  BY <2>1
<1>6. \A p \in EmIds : snd'[p].pc \notin {"length", "open"} /\ ~ InFile(p)'
  BY <1>3, <1>4 DEF Busy, InFile
<1> QED  BY <1>3, <1>4, <1>5, <1>6 DEF UncutInv

LEMMA InitUncut == Init => UncutInv
<1> SUFFICES ASSUME Init PROVE UncutInv
  OBVIOUS
<1>1. \A p \in EmIds : snd[p].pc = "idle"
  BY DEF Init, HelperInit
<1>2. conns = {}
  BY DEF Init, HelperInit
<1>3. stack[0] # <<>>
  BY Parameters DEF Init
<1> QED  BY <1>1, <1>2, <1>3, Parameters DEF UncutInv, InFile

LEMMA NextUncut == IInv /\ IntactInv /\ UncutInv /\ ~ short' /\ [Next]_vars => UncutInv'
<1> SUFFICES ASSUME IInv, IntactInv, UncutInv, ~ short', [Next]_vars PROVE UncutInv'
  OBVIOUS
<1>1. CASE UNCHANGED vars
  BY <1>1, BusyFrame, CarriesFrame DEF vars, UncutInv, Own, InFile
<1>2. ASSUME NEW p \in EmIds, SendThread(p)
      PROVE  UncutInv'
  <2>1. CASE Pop(p)
    BY <2>1, PopUncut
  <2>2. CASE SendTcp(p) /\ stack' = stack
    <3>1. ~ SendEmpty(p)
      BY NeverEmpty DEF SendEmpty, Busy
    <3> QED  BY <2>2, <3>1, ConnectAgainUncut, ConnectOkUncut, SendLengthUncut, OpenFileUncut,
                SendFileChunkUncut, SendFileFailsUncut, SendKilledUncut, SendFileDoneUncut DEF SendTcp
  <2> QED  BY <1>2, <2>1, <2>2 DEF SendThread
<1>3. ASSUME NEW q \in EmIds, RecvThread(q)
      PROVE  UncutInv'
  <2>1. CASE Push(q)
    BY <2>1, PushUncut
  <2>2. CASE ReceiveTcp(q) /\ stack' = stack
    BY <2>2, ListenUncut, AcceptUncut, RecvLengthUncut, RecvFileChunkUncut, RecvFileFailsUncut
    DEF ReceiveTcp
  <2> QED  BY <1>3, <2>1, <2>2 DEF RecvThread
<1> QED  BY <1>1, <1>2, <1>3 DEF Next

\* send_tcp, network-helper.hpp:409: as long as no send is cut short and no names
\* clash, a success means that the message is not lost.  The run short_send shows that
\* the first exception is needed.
THEOREM SuccessMeansSentHolds == Spec => ([](~ short /\ ~ Clash) => []SuccessMeansSent)
<1>1. IInv /\ IntactInv /\ UncutInv => SuccessMeansSent
  <2> SUFFICES ASSUME IInv, IntactInv, UncutInv PROVE SuccessMeansSent
    OBVIOUS
  <2>1. CASE \E p \in EmIds : stack[p] # <<>> \/ Busy(p)
    BY <2>1 DEF SuccessMeansSent, Holding, Sending, Busy
  <2>2. ASSUME NEW c \in conns
        PROVE  SuccessMeansSent
    <3>1. TypeInv /\ SocketInv /\ c.open /\ c.src \in EmIds
      BY ConnectionFields DEF IInv, UncutInv
    <3>2. Live(c)
      BY <3>1, OneConnection DEF Live
    <3>3. CASE snd[c.src].pc = "idle"
      <4>1. HasLength(c) /\ Total(c) = Expected(c) /\ Expected(c) = Len(File)
        BY <3>1, <3>2, <3>3, OpenFacts DEF OpenFlow, UncutInv, IntactInv, Brings
      <4>2. /\ c.bytes \in Seq(Int) /\ Len(c.bytes) \in Nat /\ c.dst \in EmIds
            /\ rcv[c.dst].got \in Nat
        BY ConnectionFields, Locals DEF IInv
      <4>3. Arriving(c)
        BY <4>1, <4>2 DEF Total, Arriving, InRecv
      <4> QED  BY <4>3 DEF SuccessMeansSent
    <3>4. CASE snd[c.src].pc # "idle"
      BY <3>1, <3>4, OpenFacts DEF SuccessMeansSent, Holding, Sending
    <3> QED  BY <3>3, <3>4
  <2> QED  BY <2>1, <2>2 DEF UncutInv
<1>2. IInv /\ IInv' /\ IntactInv /\ UncutInv /\ ~ Clash' /\ ~ short' /\ [Next]_vars
        => IntactInv' /\ UncutInv'
  BY NextIntact, NextUncut
<1> QED  BY <1>1, <1>2, AlwaysIInv, InitIntact, InitUncut, PTL DEF Spec
=============================================================================
