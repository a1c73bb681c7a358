------------------------------ MODULE TCPpeer ------------------------------
(***************************************************************************)
(* TCPpeer of the sample program, in its file test: each peer has a thread *)
(* that receives a file and pushes it, addressed to its sender, on a       *)
(* stack, and a thread that pops the stack and sends the file.  Peer 0     *)
(* starts with one message for peer 1, so the file goes to and fro.        *)
(***************************************************************************)
EXTENDS NetworkHelper

VARIABLE stack   \* stack[p]: messages_to_send of p

vars == <<stack, snd, rcv, conns, files, short>>

Message == [to : EmIds, name : Names]

Init ==
    /\ HelperInit
    /\ stack = [p \in EmIds |-> IF p = 0 THEN <<[to |-> 1, name |-> Original]>> ELSE <<>>]

\* A mutant of Pop: pop_back is missing.
Peek(p) ==
    /\ stack[p] # <<>>
    /\ StartSend(p, stack[p][Len(stack[p])])
    /\ UNCHANGED stack

\* The send thread, under the mutex: wait for a message, pop it.
Pop(p) ==
    /\ stack[p] # <<>>
    /\ StartSend(p, stack[p][Len(stack[p])])
    /\ stack' = [stack EXCEPT ![p] = SubSeq(@, 1, Len(@) - 1)]

\* The receive thread, under the mutex: push what has been received.
Push(q) ==
    \E mes \in Message :
        /\ ReceiveReturns(q, mes)
        /\ stack' = [stack EXCEPT ![q] = Append(@, mes)]

SendThread(p) == Pop(p) \/ (SendTcp(p) /\ UNCHANGED stack)
RecvThread(q) == Push(q) \/ (ReceiveTcp(q) /\ UNCHANGED stack)

Next == \E p \in EmIds : SendThread(p) \/ RecvThread(p)

Spec == Init /\ [][Next]_vars
FairSpec == Spec /\ \A p \in EmIds : WF_vars(SendThread(p)) /\ WF_vars(RecvThread(p))

-----------------------------------------------------------------------------
(* Every thread is where the source has a step, sizes are within the file,   *)
(* and a socket has one connection: a peer sends on one at most, and has at  *)
(* most one accepted and one waiting.                                        *)
TypeOK ==
    LET sizes == 0 .. Len(File)
    IN  /\ \A p \in EmIds :
               /\ snd[p].pc \in {"idle", "connect", "length", "open", "file", "dead"}
               /\ snd[p].fd \in {"fresh", "connected", "failed"}
               /\ [to |-> snd[p].to, name |-> snd[p].name] \in Message
               /\ snd[p].toSend \in sizes /\ snd[p].fileSize \in sizes
               /\ snd[p].position \in sizes /\ snd[p].totalSent \in sizes
               /\ rcv[p].pc \in {"listen", "accept", "length", "file", "dead"}
               /\ rcv[p].listening \in BOOLEAN
               /\ rcv[p].name \in NamesOf[p]
               /\ rcv[p].expected \in sizes /\ rcv[p].got \in sizes
               /\ \A i \in 1 .. Len(stack[p]) : stack[p][i] \in Message
               /\ Cardinality(Own(p)) <= 1
               /\ Cardinality(Accepted(p)) <= 1 /\ Cardinality(Backlog(p)) <= 1
        /\ \A n \in Names : \A i \in 1 .. Len(files[n]) : files[n][i] \in Nat
        /\ short \in BOOLEAN

\* One peer writes the file that the other is sending: both have drawn its name.
Clash ==
    \E p, q \in EmIds : /\ snd[p].pc \notin {"idle", "dead"}
                        /\ rcv[q].pc = "file" /\ rcv[q].name = snd[p].name

Intact == \A p \in EmIds : \A i \in 1 .. Len(stack[p]) : files[stack[p][i].name] = File

\* recvFile and sendFile, network-helper.hpp:220-337: unless names clash, a file
\* that receive_tcp returned is the whole file, though sends are cut short (which
\* makes sendFile skip bytes), connections reset and transfers begun again.
FileIntact == [](~ Clash) => []Intact

\* A message that p holds: in its stack, or being sent and not all sent.
Sending(p) == snd[p].pc \in {"connect", "length", "open"} \/ InFile(p)
Holding(p) == stack[p] # <<>> \/ Sending(p)

\* TCPpeer, tcp-peer.hpp:142-230: the one message is in one place: no retry of
\* send_tcp leaves it with two peers, or twice with one.
HeldOnce ==
    /\ Cardinality({p \in EmIds : Holding(p)}) <= 1
    /\ \A p \in EmIds :
           Len(stack[p]) <= 1 /\ ~ (stack[p] # <<>> /\ Sending(p))

\* tcp_thread, tcp-peer.hpp:51-83: as long as no send is cut short and no names
\* clash, the file goes to and fro for ever between peers 0 and 1, although every
\* connect but a peer's first finds the socket still connected.
KeepsGoing == [](~ short /\ ~ Clash) => \A p \in {0, 1} : []<>(stack[p] # <<>>)

\* send_tcp, network-helper.hpp:409 ("@return 0 if success or -1 if fail"): when
\* the send thread has been told of success the message is not lost: a peer has
\* it, or what is missing of it has arrived on the connection it comes by.
Arriving(c) ==
    Len(File) = Len(c.bytes) + (IF c.accepted /\ rcv[c.dst].pc = "file" THEN rcv[c.dst].got ELSE -1)

SuccessMeansSent ==
    \/ \E p \in EmIds : Holding(p) \/ snd[p].pc \in {"file", "dead"}
    \/ \E c \in conns : Arriving(c)
=============================================================================
