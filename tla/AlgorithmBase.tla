--------------------------- MODULE AlgorithmBase ---------------------------
(***************************************************************************)
(* AlgorithmBase of the sample program: broadcast and force_receive, with  *)
(* send_tcp and receive_tcp of NetworkHelper in mode 0, one short message  *)
(* on each connection.                                                     *)
(*                                                                         *)
(* A process has one thread, one sending and one listening socket.  The    *)
(* sending socket is still connected at the second send: that connect      *)
(* fails, and the socket is closed.  It lingers for time 0: close resets   *)
(* the connection, with what the receiver has not yet got.                 *)
(***************************************************************************)
EXTENDS Integers, Sequences, FiniteSets

CONSTANTS
    procs,     \* number of processes
    Types      \* types of messages

EmIds == 0 .. procs - 1

\* What a connection brings whose message was lost with a reset.
Lost == "lost"

ASSUME AlgorithmAssumption == procs \in Nat \ {0} /\ Lost \notin Types

VARIABLES
    out,     \* out[p]: the sends that p has still to do before it receives
    fd,      \* fd[p]: the sending socket of p, "fresh" or "connected"
    rcv,     \* rcv[p]: the receiving socket, "bound" or "listening"; "exited"
    conns    \* the connections, at the end of their receivers

baseVars == <<out, fd, rcv, conns>>

\* broadcast: to all others, in the order of their numbers.
broadcast(p, type) ==
    [i \in 1 .. procs - 1 |-> [to |-> IF i <= p THEN i - 1 ELSE i, type |-> type]]

BaseInit ==
    /\ fd = [p \in EmIds |-> "fresh"]
    /\ rcv = [p \in EmIds |-> "bound"]
    /\ conns = {}

Own(p)      == {c \in conns : c.src = p /\ c.open}
Accepted(q) == {c \in conns : c.dst = q /\ c.accepted}
Backlog(q)  == {c \in conns : c.dst = q /\ ~ c.accepted}

-----------------------------------------------------------------------------
(* Sending.  broadcast does not repeat a send that fails.                    *)

Sending(p) == out[p] # <<>> /\ rcv[p] # "exited"

\* What a reset leaves of a connection: its message, if that has arrived; itself,
\* to tell the receiver of the reset; nothing, before the handshake has ended.
Remains(c) ==
    {{[c EXCEPT !.open = FALSE, !.type = t]} : t \in {c.type, Lost}}
        \cup {d \in {{}} : ~ c.accepted}

\* A mutant of CloseSend: the old socket is not closed.
CloseSendForgotten(p, kept) == conns' = kept

\* close of the sending socket, where kept are the connections of p that stay.
CloseSend(p, kept) ==
    \/ Own(p) = {} /\ conns' = kept
    \/ \E c \in Own(p) : \E d \in Remains(c) : conns' = (kept \ {c}) \cup d

\* A mutant of ConnectAgain: the send is repeated, on the same socket.
ConnectAgainRepeats(p) ==
    /\ Sending(p) /\ fd[p] = "connected"
    /\ CloseSend(p, conns)
    /\ UNCHANGED <<out, fd, rcv>>

\* connect fails with EISCONN, and there is a new socket for the next send.
ConnectAgain(p) ==
    /\ Sending(p) /\ fd[p] = "connected"
    /\ CloseSend(p, conns)
    /\ fd' = [fd EXCEPT ![p] = "fresh"]
    /\ out' = [out EXCEPT ![p] = Tail(@)]
    /\ UNCHANGED rcv

\* connect is refused, or times out since the backlog of the receiver is full.
\* (When the receiver exits between connect and send, send fails to the same end.)
ConnectFails(p) ==
    /\ Sending(p) /\ fd[p] = "fresh"
    /\ rcv[Head(out[p]).to] # "listening" \/ Backlog(Head(out[p]).to) # {}
    /\ out' = [out EXCEPT ![p] = Tail(@)]
    /\ UNCHANGED <<fd, rcv, conns>>

\* connect, and the message is sent at once.
ConnectAndSend(p) ==
    LET s == Head(out[p])
    IN  /\ Sending(p) /\ fd[p] = "fresh"
        /\ rcv[s.to] = "listening" /\ Backlog(s.to) = {}
        /\ conns' = conns \cup {[src |-> p, dst |-> s.to, type |-> s.type,
                                 accepted |-> FALSE, open |-> TRUE]}
        /\ fd' = [fd EXCEPT ![p] = "connected"]
        /\ out' = [out EXCEPT ![p] = Tail(@)]
        /\ UNCHANGED rcv

-----------------------------------------------------------------------------
(* force_receive: listen, accept and one recv.                               *)

Listen(p) ==
    /\ out[p] = <<>> /\ rcv[p] = "bound"
    /\ rcv' = [rcv EXCEPT ![p] = "listening"]
    /\ UNCHANGED <<out, fd, conns>>

Accept(p) ==
    /\ out[p] = <<>> /\ rcv[p] = "listening"
    /\ Accepted(p) = {}
    /\ \E c \in Backlog(p) : conns' = (conns \ {c}) \cup {[c EXCEPT !.accepted = TRUE]}
    /\ UNCHANGED <<out, fd, rcv>>

\* recv fails for a reset connection, and the process exits.
RecvFails(p) ==
    /\ out[p] = <<>> /\ rcv[p] = "listening"
    /\ \E c \in Accepted(p) : c.type = Lost
    /\ CloseSend(p, {c \in conns : c.dst # p})
    /\ rcv' = [rcv EXCEPT ![p] = "exited"]
    /\ UNCHANGED <<out, fd>>

\* The message is there; close of the accepted socket.
force_receive(p, mes) ==
    /\ out[p] = <<>> /\ rcv[p] = "listening"
    /\ \E c \in Accepted(p) :
           /\ c.type # Lost
           /\ mes = [from |-> c.src, type |-> c.type]
           /\ conns' = conns \ {c}
    /\ UNCHANGED <<fd, rcv>>

Transport(p) ==
    \/ ConnectAgain(p) \/ ConnectFails(p) \/ ConnectAndSend(p)
    \/ Listen(p) \/ Accept(p) \/ RecvFails(p)
=============================================================================
