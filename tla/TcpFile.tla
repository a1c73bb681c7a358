------------------------------ MODULE TcpFile ------------------------------
(***************************************************************************)
(* The file transfer of tcp_file.hpp: SendFile at one end of a connection, *)
(* RecvFile at the other, one action per send, recv, read or write.        *)
(*                                                                         *)
(* A library: at this commit tcp_client and tcp_server have the two calls  *)
(* commented out.  The connection is the kernel's: in order, bounded, and  *)
(* lossless until the receiver closes its end.  The sender learns of that  *)
(* by a reset, which what it has sent in vain comes back as: until then    *)
(* send succeeds.  Either program may end at any point (kill_emulation     *)
(* interrupts it).                                                         *)
(***************************************************************************)
EXTENDS Integers, SequencesExt, FiniteSetsExt

CONSTANTS
    File,         \* the bytes of the file
    SizeBytes,    \* sizeof(int64_t)
    SendChunk,    \* chunkSize of SendFile
    RecvChunk,    \* chunkSize of RecvFile
    BufferChunk,  \* chunkSize of RecvBuffer
    StreamBuffer, \* bytes an output stream may still hold when it is closed
    Capacity      \* bytes the connection holds, the sender's buffer included

ASSUME FileAssumption ==
    /\ File \in Seq(Nat)
    /\ StreamBuffer \in Nat
    /\ {SizeBytes, SendChunk, RecvChunk, BufferChunk, Capacity} \subseteq Nat \ {0}

VARIABLES
    spc,      \* where SendFile is
    sret,     \* what it returned
    sent,     \* i of SendFile
    buffer,   \* the buffer SendBuffer sends, and
    bi,       \*   its i
    wire,     \* what is on the connection, sent and not read
    sclosed,  \* the sender's end is closed
    rclosed,  \* the receiver's end is closed
    reset,    \* a reset of the connection: "none", it has "arrived" at the
              \*   sender, and send has "reported" it
    rpc,      \* where RecvFile is
    rret,     \* what it returned
    rbuf,     \* what RecvBuffer has
    got,      \* i of RecvFile
    file,     \* what has been written
    wfail,    \* the output stream is in a failed state
    cfail     \* its close has failed

sender   == <<spc, sret, sent, buffer, bi>>
receiver == <<rpc, rret, rbuf, got, file, wfail, cfail>>
network  == <<wire, sclosed, rclosed, reset>>
vars     == <<sender, network, receiver>>

GetFileSize == Len(File)

\* The bytes of fileSize, as they are sent.
Size == [k \in 1 .. SizeBytes |-> GetFileSize]

Running == -10   \* no return value yet

Init ==
    /\ spc = "open" /\ sret = Running /\ sent = 0 /\ buffer = <<>> /\ bi = 0
    /\ wire = <<>> /\ sclosed = FALSE /\ rclosed = FALSE /\ reset = "none"
    /\ rpc = "open" /\ rret = Running /\ rbuf = <<>> /\ got = 0 /\ file = <<>> /\ wfail = FALSE
    /\ cfail = FALSE

-----------------------------------------------------------------------------
(* SendFile. *)

SendReturns(r) == spc' = "returned" /\ sret' = r

SendFileOpen ==
    /\ spc = "open"
    /\ \/ SendReturns(-1) /\ UNCHANGED buffer
       \/ spc' = "size" /\ buffer' = Size /\ UNCHANGED sret
    /\ UNCHANGED <<sent, bi, network, receiver>>

InSendBuffer == spc \in {"size", "chunk"} /\ bi < Len(buffer)

\* Fault: what a short send did not send is dropped.
SendBufferOnce ==
    /\ InSendBuffer
    /\ reset = "none"
    /\ \E l \in 1 .. Min({Len(buffer) - bi, Capacity - Len(wire)}) :
           wire' = wire \o SubSeq(buffer, bi + 1, bi + l)
    /\ bi' = Len(buffer)
    /\ UNCHANGED <<spc, sret, sent, buffer, reset, sclosed, rclosed, receiver>>

\* One send of SendBuffer: it waits for room, and a stop signal may cut it short.
\* It succeeds also when the receiver has gone, as long as no reset has come back.
SendBuffer ==
    /\ InSendBuffer
    /\ reset = "none"
    /\ \E l \in 1 .. Min({Len(buffer) - bi, Capacity - Len(wire)}) :
           /\ wire' = wire \o SubSeq(buffer, bi + 1, bi + l)
           /\ bi' = bi + l
    /\ UNCHANGED <<spc, sret, sent, buffer, reset, sclosed, rclosed, receiver>>

\* Fault: the error is taken for a send.
SendErrorIgnored ==
    /\ InSendBuffer
    /\ reset = "arrived"
    /\ reset' = "reported"
    /\ bi' = Len(buffer)
    /\ UNCHANGED <<spc, sret, sent, buffer, wire, sclosed, rclosed, receiver>>

\* send reports a reset once: SendFile then fails for the size, and sends a
\* chunk once more, from its beginning.
SendBufferFails ==
    /\ InSendBuffer
    /\ reset = "arrived"
    /\ reset' = "reported"
    /\ \/ spc = "size" /\ SendReturns(-2)
       \/ spc = "chunk" /\ UNCHANGED <<spc, sret>>
    /\ bi' = 0
    /\ UNCHANGED <<sent, buffer, wire, sclosed, rclosed, receiver>>

\* Fault: send on a reset connection raises no SIGPIPE.
SendGoesOn ==
    /\ InSendBuffer
    /\ reset # "none"
    /\ bi' = 0
    /\ UNCHANGED <<spc, sret, sent, buffer, network, receiver>>

\* After that, or if the receiver had closed in order before, SIGPIPE ends the
\* process.
SendKilled ==
    /\ InSendBuffer
    /\ reset # "none"
    /\ spc' = "killed" /\ sclosed' = TRUE
    /\ UNCHANGED <<sret, sent, buffer, bi, reset, wire, rclosed, receiver>>

\* SendBuffer has sent the buffer: the next chunk is read, or all is sent.
NextChunk ==
    LET i     == sent + (IF spc = "chunk" THEN bi ELSE 0)
        ssize == Min({GetFileSize - i, SendChunk})
    IN  /\ spc \in {"size", "chunk"} /\ bi = Len(buffer)
        /\ sent' = i
        /\ \/ /\ i < GetFileSize
              /\ spc' = "chunk" /\ buffer' = SubSeq(File, i + 1, i + ssize) /\ bi' = 0
              /\ UNCHANGED sret
           \/ i >= GetFileSize /\ SendReturns(GetFileSize) /\ UNCHANGED <<buffer, bi>>
        /\ UNCHANGED <<network, receiver>>

\* The program closes its socket, or ends.
SenderEnds ==
    /\ ~ sclosed
    /\ sclosed' = TRUE
    /\ spc' = IF spc = "returned" THEN spc ELSE "killed"
    /\ UNCHANGED <<sret, sent, buffer, bi, reset, wire, rclosed, receiver>>

SendFile == SendFileOpen \/ SendBuffer \/ SendBufferFails \/ SendKilled \/ NextChunk

-----------------------------------------------------------------------------
(* RecvFile. *)

RecvReturns(r) == rpc' = "returned" /\ rret' = r

RecvFileOpen ==
    /\ rpc = "open"
    /\ \/ RecvReturns(-1)
       \/ rpc' = "size" /\ UNCHANGED rret
    /\ UNCHANGED <<sender, network, rbuf, got, file, wfail, cfail>>

\* Fault: RecvFile always asks for a whole chunk.
WholeChunks == IF rpc = "size" THEN SizeBytes ELSE RecvChunk

\* bufferSize of the RecvBuffer in progress.
BufferSize == IF rpc = "size" THEN SizeBytes ELSE Min({GetFileSize - got, RecvChunk})

InRecvBuffer == rpc = "size" \/ (rpc = "data" /\ got < GetFileSize)

\* Fault: recv may fill more than what is left of the buffer.
RecvBufferOverrun ==
    /\ InRecvBuffer
    /\ \E l \in 1 .. Min({BufferChunk, Len(wire)}) :
           /\ rbuf' = rbuf \o SubSeq(wire, 1, l)
           /\ wire' = SubSeq(wire, l + 1, Len(wire))
    /\ UNCHANGED <<sender, sclosed, rclosed, reset, rpc, rret, got, file, wfail, cfail>>

\* One recv of RecvBuffer: any number of the bytes that have arrived.
RecvBuffer ==
    /\ InRecvBuffer
    /\ \E l \in 1 .. Min({BufferChunk, BufferSize - Len(rbuf), Len(wire)}) :
           /\ rbuf' = rbuf \o SubSeq(wire, 1, l)
           /\ wire' = SubSeq(wire, l + 1, Len(wire))
    /\ UNCHANGED <<sender, sclosed, rclosed, reset, rpc, rret, got, file, wfail, cfail>>

\* RecvBuffer returns: its buffer is full, or the connection has ended.
RecvBufferEnds == InRecvBuffer /\ (Len(rbuf) = BufferSize \/ (wire = <<>> /\ sclosed))

RecvSize ==
    /\ rpc = "size" /\ RecvBufferEnds
    /\ \/ Len(rbuf) # SizeBytes /\ RecvReturns(-2)
       \/ Len(rbuf) = SizeBytes /\ rpc' = "data" /\ UNCHANGED rret
    /\ rbuf' = <<>>
    /\ UNCHANGED <<sender, network, got, file, wfail, cfail>>

\* Fault: a stream that failed once takes the next buffer again.
WriteAgain ==
    /\ rpc = "data" /\ RecvBufferEnds /\ rbuf # <<>>
    /\ \/ file' = file \o rbuf /\ got' = got + Len(rbuf)
       \/ UNCHANGED <<file, got>>
    /\ rbuf' = <<>>
    /\ UNCHANGED <<sender, network, rpc, rret, wfail, cfail>>

\* The buffer is written, unless the write fails (the disk is full): then what it
\* has not written is gone, and so is each later buffer, for the state of the
\* stream is not cleared.
WriteBuffer ==
    /\ rpc = "data" /\ RecvBufferEnds /\ rbuf # <<>>
    /\ \/ ~ wfail /\ file' = file \o rbuf /\ got' = got + Len(rbuf) /\ UNCHANGED wfail
       \/ /\ wfail' = TRUE
          /\ \E n \in 0 .. (IF wfail THEN 0 ELSE Len(rbuf) - 1) : file' = file \o SubSeq(rbuf, 1, n)
          /\ UNCHANGED got
    /\ rbuf' = <<>>
    /\ UNCHANGED <<sender, network, rpc, rret, cfail>>

\* Fault: the end of the connection is taken for that of the file.
EndIsEnd ==
    /\ \/ rpc = "data" /\ got >= GetFileSize
       \/ rpc = "data" /\ RecvBufferEnds /\ rbuf = <<>>
    /\ RecvReturns(GetFileSize)
    /\ UNCHANGED <<sender, network, rbuf, got, file, wfail, cfail>>

\* The stream is closed; whether that has written all it held is not looked at.
RecvFileReturns ==
    /\ \/ rpc = "data" /\ got >= GetFileSize /\ RecvReturns(GetFileSize)
       \/ rpc = "data" /\ RecvBufferEnds /\ rbuf = <<>> /\ RecvReturns(-3)
    /\ \E lost \in 0 .. Min({StreamBuffer, Len(file)}) :
           /\ file' = SubSeq(file, 1, Len(file) - lost)
           /\ cfail' = (lost > 0)
    /\ UNCHANGED <<sender, network, rbuf, got, wfail>>

\* The program closes its socket, or ends.  What it has not read is lost.
ReceiverEnds ==
    /\ ~ rclosed
    /\ rclosed' = TRUE
    /\ rpc' = IF rpc = "returned" THEN rpc ELSE "killed"
    /\ UNCHANGED <<sender, wire, sclosed, reset, rret, rbuf, got, file, wfail, cfail>>

\* The kernel: what reaches a socket that is closed, or is unread when it is closed,
\* is answered by a reset, which at the sender discards what is still on its way.
ResetArrives ==
    /\ rclosed /\ wire # <<>>
    /\ reset' = "arrived"
    /\ wire' = <<>>
    /\ UNCHANGED <<sender, sclosed, rclosed, receiver>>

RecvFile == RecvFileOpen \/ RecvBuffer \/ RecvSize \/ WriteBuffer \/ RecvFileReturns

-----------------------------------------------------------------------------
Terminated == sclosed /\ rclosed /\ UNCHANGED vars

Next == SendFile \/ SenderEnds \/ RecvFile \/ ReceiverEnds \/ ResetArrives \/ Terminated

Spec == Init /\ [][Next]_vars

\* A program in a call of these goes on with it.  (That the sender's program
\* ends or closes its socket is not assumed.)  A reset arrives in the end.
FairSpec == Spec /\ WF_vars(SendFile) /\ WF_vars(RecvFile) /\ WF_vars(ResetArrives)

-----------------------------------------------------------------------------
TypeOK ==
    /\ spc \in {"open", "size", "chunk", "returned", "killed"}
    /\ sret \in {Running, -1, -2, GetFileSize}
    /\ spc = "returned" <=> sret # Running
    /\ sent \in 0 .. GetFileSize
    /\ bi \in 0 .. Len(buffer)
    /\ Len(buffer) <= Max({SizeBytes, SendChunk})
    /\ Len(wire) <= Capacity
    /\ {sclosed, rclosed, wfail, cfail} \subseteq BOOLEAN
    /\ reset \in {"none", "arrived", "reported"}
    /\ rpc \in {"open", "size", "data", "returned", "killed"}
    /\ rret \in {Running, -1, -2, -3, GetFileSize}
    /\ rpc = "returned" <=> rret # Running
    /\ Len(rbuf) <= Max({SizeBytes, RecvChunk})
    /\ got \in 0 .. GetFileSize

\* SendBuffer and RecvBuffer: sends cut short, partial reads and the different
\* chunks of the two ends lose and repeat nothing: until an end is closed or a
\* write fails, what SendFile has sent is what has been written, buffered, and
\* is on its way.
SentSoFar ==
    IF spc = "size" THEN SubSeq(Size, 1, bi)
    ELSE Size \o SubSeq(File, 1, IF spc = "returned" THEN sent ELSE sent + bi)

NothingLost ==
    spc \in {"size", "chunk"} /\ rpc \in {"size", "data"} /\ ~ rclosed /\ ~ wfail =>
        SentSoFar = (IF rpc = "size" THEN <<>> ELSE Size) \o file \o rbuf \o wire

\* RecvFile: whatever fails, and whoever ends, the file written is a beginning
\* of the file sent: a failed write leaves no gap.
WrittenIsPrefix == IsPrefix(file, File)

\* RecvFile: it returns a size only when it has written the whole file; if the
\* connection ends before, or a write fails, it returns an error.  The one
\* failure it does not see is that of the close.
SuccessIsWhole == rret >= 0 => file = File \/ cfail

\* SendFile: once a reset is back with bytes yet to be sent, it never returns the
\* size, although it sends the chunk again after an error.  (It may return it to a
\* program whose peer has gone, if the last bytes were sent before that.)
NoSuccessAfterReset == [](reset # "none" /\ InSendBuffer => [](sret # GetFileSize))

\* SendFile: when the receiver has gone, it comes to an end: it does not wait for
\* room for ever, and its loop around SendBuffer does not send a chunk again and
\* again, for SIGPIPE ends the program (SendFile never returns -3).
ResetEndsSender == rclosed ~> spc \in {"returned", "killed"}

\* Both return the size of the file if nothing fails.
Undisturbed ==
    /\ sret \notin {-1, -2} /\ spc # "killed"
    /\ rret # -1 /\ rpc # "killed" /\ ~ wfail
    /\ sclosed => sret = GetFileSize
    /\ rclosed => rret = GetFileSize

TransferEnds == []Undisturbed => <>(sret = GetFileSize /\ rret = GetFileSize)
=============================================================================
