--------------------------- MODULE NetworkHelper ---------------------------
(***************************************************************************)
(* NetworkHelper of the sample program: send_tcp and receive_tcp in mode 1 *)
(* (a file), with sendFile, recvFile and the set-up of their two sockets,  *)
(* one action per system call or per run of calls nobody else can observe. *)
(*                                                                         *)
(* A peer has one sending socket, used for one connection after another,   *)
(* and one listening socket, from which it accepts one connection at a     *)
(* time (backlog 0: one more may wait).  Sending sockets have SO_LINGER    *)
(* with time 0, so close resets the connection.  The connections are the   *)
(* kernel's: in order, nothing lost but what a reset cuts off.  The peers  *)
(* run in one directory, so all of them see the same files.                *)
(***************************************************************************)
EXTENDS Integers, Sequences, FiniteSetsExt

CONSTANTS
    procs,        \* number of peers
    Original,     \* name of the file of peer 0
    File,         \* its bytes
    NamesOf,      \* NamesOf[p]: names p may give to a file it receives
    SendChunk,    \* chunkSize of sendFile
    RecvChunk,    \* chunkSize of recvFile
    ShortSends    \* TRUE: a stop signal may cut a send short

EmIds == 0 .. procs - 1
Names == {Original} \cup UNION {NamesOf[p] : p \in EmIds}

ASSUME HelperAssumption ==
    /\ procs \in Nat /\ procs >= 2
    /\ File \in Seq(Nat) /\ File # <<>>
    /\ \A p \in EmIds : Original \notin NamesOf[p] /\ NamesOf[p] # {}
    /\ SendChunk \in Nat \ {0} /\ RecvChunk \in Nat \ {0}
    /\ ShortSends \in BOOLEAN

VARIABLES
    snd,     \* snd[p]: the sending thread of p and its socket send_fd
    rcv,     \* rcv[q]: the receiving thread of q and its socket recv_fd
    conns,   \* the connections, at the end of their receivers
    files,   \* files[name]: content of the file of that name
    short    \* some send has been cut short

helperVars == <<snd, rcv, conns, files, short>>

HelperInit ==
    /\ snd = [p \in EmIds |-> [pc |-> "idle", to |-> p, name |-> Original, fd |-> "fresh",
                               toSend |-> 0, fileSize |-> 0, position |-> 0, totalSent |-> 0]]
    /\ rcv \in [EmIds -> [pc : {"listen"}, listening : {FALSE}, name : UNION {NamesOf[p] : p \in EmIds},
                          expected : {0}, got : {0}]]
    /\ \A q \in EmIds : rcv[q].name \in NamesOf[q]
    /\ conns = {}
    /\ files = [n \in Names |-> IF n = Original THEN File ELSE <<>>]
    /\ short = FALSE

\* The connection p has open (none when the peer has closed it), the one q has
\* accepted, and the one that waits to be.
Own(p)      == {c \in conns : c.src = p /\ c.open}
Accepted(q) == {c \in conns : c.dst = q /\ c.accepted}
Backlog(q)  == {c \in conns : c.dst = q /\ ~ c.accepted}

Replace(c, d) == conns' = (conns \ {c}) \cup {d}

\* send: the bytes join the connection.  If the receiver no longer has it they are
\* lost, and so is what is sent after them until its reset is back.
Send(p, bytes) ==
    conns' = (conns \ Own(p)) \cup {[c EXCEPT !.bytes = @ \o bytes] : c \in Own(p)}

\* A mutant of CloseSend: the old socket is not closed.
CloseSendForgotten(p) ==
    /\ snd' = [snd EXCEPT ![p].pc = "connect", ![p].fd = "fresh", ![p].totalSent = 0]
    /\ UNCHANGED conns

\* close and setup_send_socket.  Of the bytes not yet received, those that have
\* not been transmitted are lost; a length (a negative item), sent long before,
\* has been.
CloseSend(p) ==
    /\ \/ Own(p) = {} /\ UNCHANGED conns
       \/ \E c \in Own(p) :
              \E n \in (IF c.bytes # <<>> /\ Head(c.bytes) < 0 THEN 1 ELSE 0) .. Len(c.bytes) :
                  Replace(c, [c EXCEPT !.bytes = SubSeq(@, 1, n), !.open = FALSE])
    /\ snd' = [snd EXCEPT ![p].pc = "connect", ![p].fd = "fresh", ![p].totalSent = 0]

-----------------------------------------------------------------------------
(* send_tcp.  Its caller repeats it until it succeeds.                       *)

StartSend(p, mes) ==
    /\ snd[p].pc = "idle"
    /\ snd' = [snd EXCEPT ![p].pc = "connect", ![p].to = mes.to, ![p].name = mes.name,
                          ![p].totalSent = 0]
    /\ UNCHANGED <<rcv, conns, files, short>>

\* A mutant of ConnectAgain: the connected socket is kept and tried again.
ConnectAgainKeeps(p) ==
    /\ snd[p].pc = "connect" /\ snd[p].fd # "fresh"
    /\ UNCHANGED helperVars

\* The last connection was never closed: connect fails with EISCONN.
ConnectAgain(p) ==
    /\ snd[p].pc = "connect" /\ snd[p].fd # "fresh"
    /\ CloseSend(p)
    /\ UNCHANGED <<rcv, files, short>>

\* While nobody listens connect fails and is repeated; while the backlog is
\* full it waits.
ConnectOk(p) ==
    /\ snd[p].pc = "connect" /\ snd[p].fd = "fresh"
    /\ rcv[snd[p].to].listening
    /\ Backlog(snd[p].to) = {}
    /\ conns' = conns \cup {[src |-> p, dst |-> snd[p].to, accepted |-> FALSE,
                             open |-> TRUE, bytes |-> <<>>]}
    /\ snd' = [snd EXCEPT ![p].pc = "length", ![p].fd = "connected"]
    /\ UNCHANGED <<rcv, files, short>>

\* An empty file: send_tcp returns success and has sent nothing.
SendEmpty(p) ==
    /\ snd[p].pc = "length" /\ files[snd[p].name] = <<>>
    /\ snd' = [snd EXCEPT ![p].pc = "idle"]
    /\ UNCHANGED <<rcv, conns, files, short>>

\* The result of this send is ignored: the error of a reset is lost.
SendLength(p) ==
    LET size == Len(files[snd[p].name])
    IN  /\ snd[p].pc = "length" /\ size > 0
        /\ Send(p, <<-size>>)
        /\ \E fd \in {"connected"} \cup {f \in {"failed"} : Own(p) = {}} :
               snd' = [snd EXCEPT ![p].pc = "open", ![p].toSend = size, ![p].fd = fd]
        /\ UNCHANGED <<rcv, files, short>>

\* sendFile: measure the file again, and read on from where the last call ended.
OpenFile(p) ==
    LET size == Len(files[snd[p].name])
    IN  /\ snd[p].pc = "open" /\ size > 0
        /\ snd' = [snd EXCEPT ![p].pc = "file", ![p].fileSize = size,
                              ![p].position = snd[p].totalSent]
        /\ UNCHANGED <<rcv, conns, files, short>>

InFile(p)   == snd[p].pc = "file" /\ snd[p].totalSent < snd[p].fileSize
ToRead(p)   == Min({SendChunk, snd[p].fileSize - snd[p].totalSent})
Readable(p) == snd[p].position + ToRead(p) <= Len(files[snd[p].name])

\* A send cut short: the file is read on from the end of the whole chunk.
SendFileChunk(p) ==
    /\ InFile(p) /\ Readable(p) /\ snd[p].fd = "connected"
    /\ \E sent \in 1 .. ToRead(p) :
           /\ sent = ToRead(p) \/ ShortSends
           /\ Send(p, SubSeq(files[snd[p].name], snd[p].position + 1, snd[p].position + sent))
           /\ snd' = [snd EXCEPT ![p].position = @ + ToRead(p), ![p].totalSent = @ + sent]
           /\ short' = (short \/ sent < ToRead(p))
    /\ UNCHANGED <<rcv, files>>

\* sendFile returns 0 (the file is empty) or -3 (the file ended before its size,
\* or a reset is back from the receiver): close, and send_tcp again.
SendFileFails(p) ==
    /\ \/ snd[p].pc = "open" /\ files[snd[p].name] = <<>>
       \/ InFile(p) /\ ~ Readable(p)
       \/ InFile(p) /\ Readable(p) /\ snd[p].fd = "connected" /\ Own(p) = {}
    /\ CloseSend(p)
    /\ UNCHANGED <<rcv, files, short>>

\* A send on a connection whose error was lost: SIGPIPE ends the process.
SendKilled(p) ==
    /\ InFile(p) /\ Readable(p) /\ snd[p].fd = "failed"
    /\ snd' = [snd EXCEPT ![p].pc = "dead"]
    /\ rcv' = [rcv EXCEPT ![p].pc = "dead", ![p].listening = FALSE]
    /\ conns' = {c \in conns : c.dst # p}
    /\ UNCHANGED <<files, short>>

\* sendFile returns; send_tcp does too, if that was the size it announced.
SendFileDone(p) ==
    /\ snd[p].pc = "file" /\ ~ InFile(p)
    /\ snd' = [snd EXCEPT ![p].pc = IF snd[p].totalSent = snd[p].toSend THEN "idle" ELSE "open"]
    /\ UNCHANGED <<rcv, conns, files, short>>

SendTcp(p) ==
    \/ ConnectAgain(p) \/ ConnectOk(p)
    \/ SendEmpty(p) \/ SendLength(p)
    \/ OpenFile(p) \/ SendFileChunk(p) \/ SendFileFails(p) \/ SendKilled(p) \/ SendFileDone(p)

-----------------------------------------------------------------------------
(* receive_tcp.  Its caller repeats it, with one name, until it succeeds.    *)

Listen(q) ==
    /\ rcv[q].pc = "listen"
    /\ rcv' = [rcv EXCEPT ![q].pc = "accept", ![q].listening = TRUE]
    /\ UNCHANGED <<snd, conns, files, short>>

Accept(q) ==
    /\ rcv[q].pc = "accept"
    /\ \E c \in Backlog(q) : Replace(c, [c EXCEPT !.accepted = TRUE])
    /\ rcv' = [rcv EXCEPT ![q].pc = "length"]
    /\ UNCHANGED <<snd, files, short>>

\* The length, and recvFile opens the file to write, which empties it.  (No
\* connection is ever closed without a length: see SendEmpty, whose sender has
\* nothing more to send.)
RecvLength(q) ==
    /\ rcv[q].pc = "length"
    /\ \E c \in Accepted(q) :
           /\ c.bytes # <<>>
           /\ rcv' = [rcv EXCEPT ![q].pc = "file", ![q].expected = - Head(c.bytes), ![q].got = 0]
           /\ Replace(c, [c EXCEPT !.bytes = Tail(@)])
    /\ files' = [files EXCEPT ![rcv[q].name] = <<>>]
    /\ UNCHANGED <<snd, short>>

\* recv returns any number of the bytes that have arrived.
RecvFileChunk(q) ==
    /\ rcv[q].pc = "file" /\ rcv[q].got < rcv[q].expected
    /\ \E c \in Accepted(q) : \E r \in 1 .. Min({RecvChunk, Len(c.bytes)}) :
           /\ files' = [files EXCEPT ![rcv[q].name] = @ \o SubSeq(c.bytes, 1, r)]
           /\ rcv' = [rcv EXCEPT ![q].got = @ + r]
           /\ Replace(c, [c EXCEPT !.bytes = SubSeq(@, r + 1, Len(@))])
    /\ UNCHANGED <<snd, short>>

\* The connection was reset: recvFile returns -3, and the listening socket is
\* closed with the accepted one.  A connection in its backlog goes with it.
Reset(q) == \E c \in Accepted(q) : c.bytes = <<>> /\ ~ c.open

RecvFileFails(q) ==
    /\ rcv[q].pc = "file" /\ rcv[q].got < rcv[q].expected /\ Reset(q)
    /\ conns' = {c \in conns : c.dst # q}
    /\ rcv' = [rcv EXCEPT ![q].pc = "listen", ![q].listening = FALSE]
    /\ UNCHANGED <<snd, files, short>>

\* A mutant of RecvFileOk: the end of the connection is the end of the file.
RecvFileUnchecked(q) == rcv[q].got = rcv[q].expected \/ Reset(q)

\* recvFile has not failed.
RecvFileOk(q) == rcv[q].got = rcv[q].expected

\* receive_tcp returns the sender, known by its address, and the name of the
\* file; its caller makes a new name for the next file.
ReceiveReturns(q, mes) ==
    /\ rcv[q].pc = "file" /\ RecvFileOk(q)
    /\ \E c \in Accepted(q) :
           /\ mes = [to |-> c.src, name |-> rcv[q].name]
           /\ conns' = conns \ {c}
    /\ \E n \in NamesOf[q] \ {rcv[q].name} :
           rcv' = [rcv EXCEPT ![q].pc = "listen", ![q].name = n]
    /\ UNCHANGED <<snd, files, short>>

ReceiveTcp(q) == Listen(q) \/ Accept(q) \/ RecvLength(q) \/ RecvFileChunk(q) \/ RecvFileFails(q)
=============================================================================
