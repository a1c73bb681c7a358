--------------------- MODULE ByzantineReliableBroadcast ---------------------
(***************************************************************************)
(* ByzantineReliableBroadcast of the sample program: process 0 broadcasts  *)
(* SEND, everyone answers with ECHO and READY by thresholds, and delivers. *)
(* No process is faulty other than by exit.  Messages carry one value, the *)
(* one process 0 started with, which is left out.                          *)
(***************************************************************************)
EXTENDS AlgorithmBase

VARIABLE st   \* st[p]: the members and local variables of start in p

vars == <<st, out, fd, rcv, conns>>

f == (procs - 1) \div 3
Quorum == (procs + f) \div 2

ASSUME TypesAssumption == Types = {"SEND", "ECHO", "READY"}

\* Process 0 sends SEND and, in its first iteration, ECHO before it receives.
Init ==
    /\ BaseInit
    /\ st = [p \in EmIds |->
                [sentecho |-> p = 0, sentready |-> FALSE, delivered |-> FALSE,
                 echos |-> {q \in {0} : p = 0}, readys |-> {}, echoed |-> 0, readied |-> 0]]
    /\ out = [p \in EmIds |->
                IF p = 0 THEN broadcast(0, "SEND") \o broadcast(0, "ECHO") ELSE <<>>]

\* The first SEND of process 0 is answered before anything else.
FirstSend(p, mes) == mes.type = "SEND" /\ ~ st[p].sentecho /\ mes.from = 0

\* A mutant of Counted: whatever comes from a process counts as its echo.
CountedAnyType(p, mes) ==
    [st[p] EXCEPT !.sentecho = @ \/ FirstSend(p, mes),
                  !.echos    = @ \cup {q \in {p} : FirstSend(p, mes)} \cup {mes.from},
                  !.echoed   = @ + 1]

\* The state of p after the tests of the type: a SEND counts as ready.
Counted(p, mes) ==
    LET echo  == {q \in {mes.from} : mes.type = "ECHO"}
        ready == {q \in {mes.from} : mes.type = "SEND"}
        own   == {q \in {p} : FirstSend(p, mes)}
    IN  [sentecho  |-> st[p].sentecho \/ FirstSend(p, mes),
         sentready |-> st[p].sentready,
         delivered |-> st[p].delivered,
         echos     |-> st[p].echos \cup own \cup echo,
         echoed    |-> st[p].echoed + Cardinality(echo \ st[p].echos),
         readys    |-> st[p].readys \cup ready,
         readied   |-> st[p].readied + Cardinality(ready \ st[p].readys)]

\* What p broadcasts after it received mes: its echo of a first SEND, then more.
Answer(p, mes, more) ==
    out' = [out EXCEPT ![p] = (IF FirstSend(p, mes) THEN broadcast(p, "ECHO") ELSE <<>>) \o more]

\* The tests of the thresholds, of which the first that holds is answered.
Reached(s)    == s.echoed >= Quorum \/ s.readied > f
WantsEcho(s)  == Reached(s) /\ ~ s.sentecho
\* A mutant of WantsReady: nobody looks whether the echo has been sent.
WantsReadyAtOnce(s) == Reached(s) /\ ~ s.sentready
WantsReady(s) == Reached(s) /\ s.sentecho /\ ~ s.sentready

Echo(p, mes) ==
    LET s == Counted(p, mes)
    IN  /\ WantsEcho(s)
        /\ st' = [st EXCEPT ![p] = [s EXCEPT !.sentecho = TRUE, !.echos = @ \cup {p}]]
        /\ Answer(p, mes, broadcast(p, "ECHO"))

Ready(p, mes) ==
    LET s == Counted(p, mes)
    IN  /\ WantsReady(s)
        /\ st' = [st EXCEPT ![p] = [s EXCEPT !.sentready = TRUE, !.readys = @ \cup {p}]]
        /\ Answer(p, mes, broadcast(p, "READY"))

\* A mutant of Delivers: the echoes are tested.
DeliversEchoed(s) == s.echoed > 2 * f

Delivers(s) == s.readied > 2 * f

Deliver(p, mes) ==
    LET s == Counted(p, mes)
    IN  /\ ~ WantsEcho(s) /\ ~ WantsReady(s)
        /\ st' = [st EXCEPT ![p] = [s EXCEPT !.delivered = @ \/ Delivers(s)]]
        /\ Answer(p, mes, <<>>)

OnMessage(p) ==
    \E mes \in [from : EmIds, type : Types] :
        /\ force_receive(p, mes)
        /\ Echo(p, mes) \/ Ready(p, mes) \/ Deliver(p, mes)

Process(p) == OnMessage(p) \/ (Transport(p) /\ UNCHANGED st)

Next == \E p \in EmIds : Process(p)

Spec == Init /\ [][Next]_vars
FairSpec == Spec /\ \A p \in EmIds : WF_vars(Process(p))

-----------------------------------------------------------------------------
(* Everyone is in a state of the source, sockets have one connection at most *)
(* and a process waits with one more in its backlog.                         *)
TypeOK ==
    /\ \A p \in EmIds :
           /\ st[p].sentecho \in BOOLEAN /\ st[p].sentready \in BOOLEAN
           /\ st[p].delivered \in BOOLEAN
           /\ st[p].echos \subseteq EmIds /\ st[p].readys \subseteq EmIds
           /\ st[p].echoed \in 0 .. procs - 1 /\ st[p].readied \in 0 .. procs - 1
           /\ fd[p] \in {"fresh", "connected"}
           /\ rcv[p] \in {"bound", "listening", "exited"}
           /\ out[p] \in Seq([to : EmIds, type : Types])
           /\ Cardinality(Own(p)) <= 1
           /\ Cardinality(Accepted(p)) <= 1 /\ Cardinality(Backlog(p)) <= 1
    /\ conns \subseteq [src : EmIds, dst : EmIds, type : Types \cup {Lost},
                        accepted : BOOLEAN, open : BOOLEAN]

\* start, byzantine-reliable-broadcast.hpp:79-84: the echoes a process has counted
\* are echoes sent by as many others, whatever was lost, reset or cut off by exit.
EchoesAreSent ==
    \A p \in EmIds :
        /\ st[p].echos \ {p} \subseteq {q \in EmIds : st[q].sentecho}
        /\ st[p].echoed = Cardinality(st[p].echos \ {p})

\* start, byzantine-reliable-broadcast.hpp:100-134: a process goes through the
\* stages of the protocol in order; none is left out by the order of the tests.
StagesInOrder ==
    \A p \in EmIds : /\ st[p].delivered => st[p].sentready
                     /\ st[p].sentready => st[p].sentecho

\* start, byzantine-reliable-broadcast.hpp:85-89 and 128: what is delivered has come
\* from process 0 itself; readied counts SEND, so no process delivers by the READY
\* of others, process 0 never delivers, and with f > 0 nobody does.
DeliveredFromSender ==
    \A p \in EmIds : st[p].delivered => p # 0 /\ f = 0 /\ 0 \in st[p].readys

\* broadcast, algorithm-base.hpp:37-48: every broadcast comes to its end, though all
\* may send and nobody receives: a full backlog makes connect fail, not wait.  (The
\* processes that have not exited run on, as they do without the emulator, which
\* hangs in sigwait once one has.)
BroadcastsEnd == \A p \in EmIds : Sending(p) ~> ~ Sending(p)
=============================================================================
