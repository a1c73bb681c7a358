# Verification of SimpleEM

SimpleEM (`src/`) emulates a network on one machine: it forks the programs of a
distributed system, lets one of them run at a time for a *window* of real time,
and moves the IP packets they exchange through a TUN device between them with
the latencies of a configuration file.  What a program sees should be what it
would see if all ran at the same time, connected by links with those latencies.

This directory holds TLA+ models of that program, TLC configurations that check
them, and TLAPS proofs.  All paths below are relative to the repository
(`src/src/...` is the emulator, `src/examples/dummy/...` the sample program).

## 1. The system

| Component | State | Operations | Interacts with |
|---|---|---|---|
| `Emulator` (emulator.hpp) | the vector of `EMProc` | constructor and `fork_stop_run`, `start_emulation`, `choose_next_proc`, `get_time_interval`, `schedule_sent_packets`, `kill_emulation`, `child_init` (in the child) | calls `EMProc`, `Network`, `Packet`; signals its children |
| `EMProc` (emproc.hpp) | `virtual_clock`, heaps `in_packets` and `out_packets`, `pid` | `awake`, `to_receive_before` | SIGCONT, SIGSTOP, SIGCHLD; reads and writes the TUN device |
| `Network` (network.hpp) | TUN descriptor, `max_latency` | `get_latency`, `get_em_id`, `send`, `receive`, `create_tun` | the kernel's TUN device |
| `Packet` (packet.hpp) | bytes, timestamp | header setters with checksums, `operator<`, `increase_ts` | element of the heaps |
| `ConfigParser` (config-parser.hpp) | the configuration | constructor | file |
| time.cpp, utils.hpp | none | arithmetic on `timespec` | everywhere |
| tinyem.cpp | `em_ptr`, `logger_ptr` | `main`, SIGINT/SIGSEGV handler | runs `Emulator` |
| tcp_file.hpp | the two ends of one transfer: buffers, positions, streams | `SendFile`, `RecvFile`, `SendBuffer`, `RecvBuffer`, `GetFileSize` | kernel sockets, files |
| tcp_client, tcp_server | sockets | a straight line of calls | programs run inside the emulator (their calls of the file helpers are commented out) |
| NetworkHelper (dummy) | one sending and one listening socket | `send_tcp`, `receive_tcp`, `sendFile`, `recvFile` | kernel sockets |
| TCPpeer (dummy) | stack of messages, mutex, condition | two threads | NetworkHelper |
| ByzantineReliableBroadcast, LoopNetwork, SingleMessage (no caller) | flags and counts | `start` | AlgorithmBase over NetworkHelper |
| Logger, proc_frame, test_packet | text | output | — |

What is hard in it:

* **Conservative simulation.**  A process may only run while nothing can still
  be sent to it that should already have arrived.  That depends on the order in
  which processes are chosen, on the length of the windows, on the direction of
  asymmetric latencies, and on a real clock that is read late.
* **Packets live across windows**: in the device, in a heap of the sender, in a
  heap of the receiver.  They may be late, lost, duplicated, reordered, or taken
  for packets of another process.
* **Signals.**  `sigwait` consumes one pending bit that any child can set; the
  children stop, continue and end on their own schedule; a SIGINT handler runs
  the whole of `kill_emulation` wherever the main program is.
* **Children that do not become programs.**  `child_init` returns when `execve`
  fails, or after `system()` for a java: that process goes on in the fork loop
  and in `main`, and is a second emulator with the same children.
* **Application protocols** on top of reused sockets, short reads and writes,
  failing writes, two threads, and Byzantine quorums.

`PROJECT.json` lists each hazard at its line with the properties that cover it.

## 2. Modules

| Module | Models |
|---|---|
| `VirtualNetwork` | abstract: what the emulation promises to the programs |
| `Emulator` | the emulation loop: `start_emulation`, `awake`, `schedule_sent_packets`, packets and clocks |
| `ConfigParser` | what the constructor makes of the matrix and the program lines of a file |
| `ConfigProofs` | which files give the latencies that `Emulator` assumes, and each process its own program |
| `MCEmulator` | instances of `Emulator`, with matrices read by `ConfigParser` |
| `EmulatorProofs` | type correctness, the safety invariant, lookahead, delivery order, no arrival in the past; `Emulator` implements `VirtualNetwork` |
| `EmulatorOrderProofs` | where each frame is, the order of arrivals, the progress of windows, what is sent after what |
| `ProcControl` | the fork loop, and the signals between emulator and children |
| `MCProcControl` | instances of `ProcControl` |
| `ProcControlProofs` | one process runs at a time, `awake` returns with it stopped, none is left behind |
| `TimeSpec` | the arithmetic of time.cpp |
| `Packet` | the bytes of one frame on its way: setters, checksums, timestamp |
| `MCPacket` | instances of `Packet` |
| `PacketProofs` | time arithmetic is exact; the checksum loops compute the checksum of RFC 1071; the setters turn a frame into the one its sender would compose; which segments are lost |
| `TcpFile` | `SendFile` and `RecvFile` at the two ends of a connection |
| `MCTcpFile` | instance of `TcpFile` |
| `TcpFileProofs` | positions agree, nothing is lost or repeated, what a success means |
| `NetworkHelper` | `send_tcp` and `receive_tcp` of the sample program for files, with their sockets |
| `TCPpeer` | the two threads of a peer and their stack, over `NetworkHelper` |
| `MCTCPpeer` | instances of `TCPpeer` |
| `TCPpeerProofs` | one message, in one place; its file is whole where nothing clashes; when a success means that it was sent |
| `AlgorithmBase` | `broadcast` and `force_receive`, with `send_tcp` and `receive_tcp` for messages |
| `ByzantineReliableBroadcast` | the loop of `start` over `AlgorithmBase` |
| `MCByzantineReliableBroadcast` | instance of `ByzantineReliableBroadcast` |
| `BroadcastProofs` | type correctness, what its counters count, the order of its stages, who delivers |

### Emulator

One variable per field: `virtual_clock`, `in_packets`, `out_packets` of each
`EMProc`; `pc`, `loop`, `cur`, `ts`, `elapsed` are the program counter and the
locals of `start_emulation` and `awake`; `tun` is the queue of frames in the
device.  `sent` and `delivered` are history (how many frames the programs wrote,
and what was written to the device for each process, in order).

| Action | Code |
|---|---|
| `Awake` | emulator.hpp:170-173, choice of the process and its window |
| `ReadClock` | emproc.hpp:102-106, also the end of the window |
| `DeliverDue` | emproc.hpp:109-119 with `to_receive_before` |
| `ReceiveNothing`, `ReceiveUnsupported`, `ReceiveOwn`, `ReceiveForOther` | emproc.hpp:122-167, one `read` of the device and its four outcomes |
| `Stop` | emproc.hpp:171-174 |
| `schedule_sent_packets` | emulator.hpp:322-361 |
| `Finish` | end of the loop |
| `Emit` | the running program, or the kernel for its sockets, writes a frame (external) |

A heap is a set: `DeliverDue` takes any packet with the smallest timestamp, as
`std::priority_queue` gives no order among equal ones.  The version test of
`schedule_sent_packets` (line 330) cannot fail there: `awake` has made it
already.  Packets carry the process they really came from (`src`) beside the
one the emulator attributes them to (`from`), to state what can go wrong there.
Bytes are in `Packet`; errors for which the code panics are left out.

Assumptions on the constants: `procs >= 1`, latencies are natural numbers with a
zero diagonal (`ConfigProofs` says for which files: ConfigParser checks the
diagonal, it does not refuse negative numbers), distinct addresses (`get_em_id` is a function of the frame's `dst`).

`MinTick` is the least distance of two readings of CLOCK_MONOTONIC: 0 allows
equal readings, 1 forbids them.  `KernelTimers = TRUE` lets the kernel write
frames for processes that are stopped (acknowledgements, retransmissions).

### ConfigParser

Operators on a file that is given from the latency matrix on: its entries in
order, the words of the lines behind them, and whether a newline ends the last
line.  They keep what the streams do at the end of a file: `lat` and
`program_path` keep an earlier value, an entry that is a word makes every later
read fail.  `AsInt` wraps a product that exceeds an int, as the builds do.  An
empty file, one that does not open (`procs` is then indeterminate), the device and the addresses
are left out.  In `MCEmulator` a millisecond is one unit of time.

### ProcControl

`epc` is the emulator's program counter through `fork_stop_run`, `main`,
`start_emulation`, `awake` and `kill_emulation`; `life`, `raised`, `pending`, `notify` are the state
the kernel keeps for a child; `sigchld` is the one pending bit that `sigwait`
waits for, and `blocked` says whether it is kept or discarded.  Which process is
chosen is left open (any), what happens in a window is left to `Emulator`.
`Exiting` names children whose program may end by itself, `StartupSettles` says
that the 100 ms of `main` are enough.  The kernel's part is Linux': SIGCONT
discards a pending SIGSTOP and continues a stopped process, which reports that
before it does anything else; it has no effect on a process that runs or has
ended.

| Action | Code |
|---|---|
| `Fork`, `AllForked` | emulator.hpp:201-215, one turn of the fork loop, and its end |
| `EndEarly` | `fork` fails, or SIGINT before the handler is installed: the children forked so far stay |
| `RaiseSigstop`, `ReturnFromInit` | `child_init`, before `execve` and when it returns |
| `AwakeSibling`, `PassSigintOn` | a second emulator: its first awakening, its SIGINT handler |
| `EndSleep` | the 100 ms of `main` |
| `Awake`, `Continue`, `AwaitContinued`, `StopProcess`, `AwaitStopped` | `awake`, its signals one by one |
| `Finish`, `KillContinue`, `KillInterrupt`, `WaitForChild`, `AllWaitedFor` | `kill_emulation` |
| `Interrupt` | the SIGINT handler |
| `NotifyContinued`, `TakeSigstop`, `TakeSigint`, `Exit` | a child's answers (kernel), and its end |

`Programs` are the configurations: each child's program is one `execve` runs, one
it cannot run (`missing`), or a `java`, which the source runs by `system()` and
does not stop first.  `second[c]` says that `child_init` of c has returned.  Such a
second emulator finds all its clocks equal and awakens process 0 of its own list,
whose pid it inherited: a sibling.  The child with id 0 has an indeterminate pid
there, hence any sibling.  It comes no further than its first `sigwait`; the
processes it forks itself have stopped before and signal nobody else, so they are
left out.  With one, most promises of the emulator are void, and the properties
say so by `OneEmulator`; `AllKilled` holds nevertheless.

The window of `Emulator` between `Awake` and `Stop` is the interval between
`Continue` and `AwaitStopped` here; `WindowIsRun` and `OneRunsAtATime` are what
`Emulator` takes for granted when only `cur` may `Emit`.

### VirtualNetwork

Clocks, messages in flight, messages received.  A clock advances no further than
the smallest `clock[q] + Latency[q][p]`; a process transmits only when nothing
older is still in flight to it; it receives the message due first.  The mapping
is in `Emulator`: the abstract clock of the running process is its virtual clock
plus the elapsed part of the window (never more than the window), and a packet
in `out_packets` is already in flight with its latency.  It has no configuration
of its own: run `three` and the refinement theorem are about it.

### TimeSpec and Packet

A frame is the words of its IP header and the bytes behind it; `Write` (external)
composes one with the checksums of a kernel, `Receive` is emproc.hpp:131-167,
`schedule_sent_packets` the body of that loop with its four calls of setters,
`Send` is `Network::send`.  There is one frame at a time, since setters touch
nothing else.  The setters are pure operators (`set_dest_addr_tcp`,
`set_source_addr_tcp`) over `ip4_checksum` and `tcp_checksum`, which keep the
widths and the signs of the code: a `char` is signed, as on x86, so `LastByte` is
not 256 times the byte.  The reference (`Composed`, `HeaderVerifies`,
`SegmentVerifies`) is the definition by a sum modulo 65535.  The carry loop is
written as two rounds; theorem `TwoRounds` shows that it never takes more.
`TextTraffic` describes the traffic that the code handles right: TCP, checksums
and addresses not yet filled in, frames no longer than 65535 bytes, no first
fragment of several (its segment goes on in other frames; later ones have no
transport header and are covered), and no last byte above 127 where it is padded.
It is what the theorems about frames assume, and TLC evaluates it for the
constants of run `rewrite`.

### TcpFile

| Action | Code |
|---|---|
| `SendFileOpen` | tcp_file.hpp:213-223, the size becomes the first buffer |
| `SendBuffer`, `SendBufferFails`, `SendKilled` | one `send` of tcp_file.hpp:177-197: some bytes, also after the receiver has closed; the one error of a reset that has come back; SIGPIPE after it |
| `NextChunk` | tcp_file.hpp:227-266, the next chunk, also after a failed one (line 252) |
| `RecvFileOpen`, `RecvSize` | tcp_file.hpp:282-291 |
| `RecvBuffer`, `RecvBufferEnds` | one `recv` of tcp_file.hpp:144-165, and its ends |
| `WriteBuffer`, `RecvFileReturns` | tcp_file.hpp:296-315, with a stream that fails and stays failed, and a close that is not looked at |
| `SenderEnds`, `ReceiverEnds` | the programs close, end, or are ended (external) |
| `ResetArrives` | the kernel answers what reaches a closed end by a reset (external) |

Bytes are numbers that TLC can tell apart; the size is that number in each of its
`SizeBytes` places, as nothing looks into it.  `wire` is the connection: in order,
bounded by `Capacity`.  After the receiver has closed, `send` succeeds as before
until a reset is back: the kernel sends one for what reaches a closed socket, or
was unread when it was closed, and the emulated latencies may put it off for long.
So `SendFile` may return the size to a program whose peer has gone, if the last
bytes were sent by then; `NoSuccessAfterReset` is about what comes after the reset.
`sret` and `rret` are the results of the two calls, as in the source; that
`SendFile` returns -3 (line 265) never happens, because the second send after a
reset ends the process.

### NetworkHelper and TCPpeer

| Action | Code |
|---|---|
| `StartSend`, `Push` | tcp-peer.hpp:142-224, critical sections under the mutex |
| `ConnectAgain`, `ConnectOk` | network-helper.hpp:426-433 |
| `SendEmpty`, `SendLength`, `SendFileFails`, `SendFileDone` | network-helper.hpp:436-474 |
| `OpenFile`, `SendFileChunk` | `sendFile`, network-helper.hpp:220-269 |
| `SendKilled` | SIGPIPE at the send after one whose error was ignored (line 444) |
| `Listen`, `Accept`, `RecvLength`, `RecvFileFails`, `ReceiveReturns` | `receive_tcp`, network-helper.hpp:511-622 |
| `RecvFileChunk` | `recvFile`, network-helper.hpp:286-325 |

`snd` and `rcv` hold the locals and the socket of each thread, `conns` the
connections (external: in order, one accepted and one in the backlog of each
listening socket), `files` the one directory all peers run in, `stack` the buffer
between the threads of a peer.  One message goes to and fro, as in the program:
whoever receives the file sends it back.  A reset (SO_LINGER 0, on close) cuts
off what has not been transmitted: any suffix of the bytes, but not the length,
which was sent long before.  A sender whose receiver has closed learns of it only
when a reset is back: any number of sends succeed before, and their bytes are lost
(`Send`, `SendFileFails`); the error may fall on the send whose result is ignored
(`SendLength`).  `ShortSends` lets a stop signal cut a `send` short;
`short` remembers that one did.

### AlgorithmBase and ByzantineReliableBroadcast

| Action | Code |
|---|---|
| `ConnectAgain`, `ConnectFails`, `ConnectAndSend` | one send of `broadcast` (algorithm-base.hpp:37-48), by the outcome of its connect (network-helper.hpp:426-433, 476-499) |
| `Listen`, `Accept`, `RecvFails` | `receive_tcp` in mode 0, network-helper.hpp:519-534 and 583-604 |
| `OnMessage` with `Echo`, `Ready`, `Deliver` | one iteration of the loop, byzantine-reliable-broadcast.hpp:66-136, by the first threshold that is reached |

A process has one thread, so that an iteration is one step (nobody sees its
locals) followed by the sends it has queued in `out`, one at a time.  `st` holds
the flags, sets and counters.  Every connection carries one message, which one
`recv` returns.  A connection is reset at the next send; the reset may leave the
message, take it (then `recv` fails and the process exits, line 602), or take the
connection if the handshake has not ended.  All messages carry the one value of
process 0, so it is left out; no process lies, since none of this program does.
Process 0 sends to itself nothing, and its first iteration sends ECHO before it
receives: both broadcasts are in `Init`.

## 3. Runs

| Run | Instance | Shows |
|---|---|---|
| `three` | 3 processes, latencies 1 and 2, each pair asymmetric, 4 windows, 2 frames, also of the kernel for stopped programs, IPv6 and unknown addresses, equal clock readings, fair | refinement of `VirtualNetwork`; no process ahead of what may be sent to it; deliveries by timestamp, in the order of each channel where clock readings differ, none in the past; nothing sent before what was due earlier; each frame in one place at most, and only unsupported ones dropped; windows not empty; the loop ends |
| `attribution` | 3 processes, frames for the third only | **violated**: a frame left in the device is read in the window of another process, and goes into its `out_packets` |
| `signals` | 3 children from their fork on, at most one of them java or missing, that may all end at any time, 3 awakenings, SIGINT at any point, fair | with one emulator one process runs at a time, stopped on return, no SIGCHLD is left over; none is left behind; no wait is for ever unless a program has ended |
| `late_start` | 2 children, startup not settled | **violated**: `awake` returns with its process running |
| `program_exit` | 2 children, one program ends, fair | **violated**: `sigwait` waits for ever |
| `java_program` | 2 children, both java, fair | **violated**: the first `sigwait` waits for ever |
| `rewrite` | headers with and without options, whole frames and later fragments, payloads up to 3 bytes with 0, 97 and 255, sums that vanish modulo 65535, times at the edge of a second | every checksum verifies at each step; what is delivered is what the sender would have sent from its own address |
| `odd_byte` | the same with any last byte | **violated**: a last byte of 128 or more makes a wrong checksum |
| `tcp_file` | a file of 7 bytes, chunks of 3 (`SendFile`), 4 (`RecvFile`) and 2 (`RecvBuffer`), a size of 2 bytes, room for 4 on the connection, short sends, partial reads, failing writes and opens, ends that close at any point, resets that come back at any time after, fair | positions of the two ends agree; the file written is a beginning of the one sent; a success is the whole file; no success after a reset with bytes unsent; a sender whose peer has gone comes to an end; both succeed if nothing fails |
| `files` | 2 peers, a file of 3 bytes in chunks of 2 (sent) and 4 (received), short sends, names that may clash, fair | one holder at a time; a received file is whole unless names clash; the exchange goes on for ever without short sends and clashes |
| `short_send` | 2 peers, short sends | **violated**: success reported for a lost file |
| `broadcast` | 3 processes, fair | each echo counted once and really sent; stages in order; only those that process 0 reached itself deliver; every broadcast ends |

Bounds: `steps`, `MaxSent` and the latencies are constants; windows have length
1 to 4 and are read at every instant, so that frames can be written and read
before, at and after each window's end.  Four windows of three processes contain
each order of windows that the choice allows, including two in a row of one
process, and two frames are enough for any pair of packets to meet in a heap, in
a channel, or across a window.  Three children are enough for the SIGCHLD
of one to be taken for that of another while a third rests, and for a second emulator to continue one child while another has its window.  Seven bytes
give `SendFile` two chunks and a rest, and `RecvFile` one and a rest at other
places; the connection is smaller than size and file, so that the sender waits.
Three bytes in chunks of two give a whole chunk, a rest, and each place a send or a reset can
cut; two peers have both roles at once.  Checksums are sums, so that values at
the ends of their ranges, even and odd lengths, and sums that vanish cover the
cases of the code.  Three processes have f = 0, so that deliveries happen, and two
targets for each broadcast, one of which fails; with four (f = 1) nothing is ever
delivered, which `DeliveredFromSenderAlways` proves for any number.  `CHECK_DEADLOCK FALSE` appears where the system really may
stop: a program that ended (`signals`, `program_exit`), a java (`java_program`) or a wrong start makes
`sigwait` wait for ever; a lost message or a killed peer leaves the threads of
`TCPpeer` waiting; a broadcast comes to its end; a receiver of `TcpFile` waits
for ever on a sender that returned with an error and neither closes its socket
nor ends.

Fairness: `three` assumes that the emulator keeps taking steps (it is a running
program; all its calls return) and nothing of the programs.  Two readings of the
clock may be equal (`MinTick = 0`); that CLOCK_MONOTONIC, which the loop of a
window reads again and again, does not stand still for ever is the strong
fairness of a reading that advances.  `tcp_file` assumes that each of the two
calls goes on where it can (the kernel takes and hands out bytes); not that a
program closes its socket or ends, that an open or a write succeeds, or that one
fails.  A reset that is on its way arrives in the end.  `signals` (like `program_exit`
and `java_program`) assumes the same of the emulator, and that a running child gets to
handle its signals; never that a program ends, or that a SIGINT arrives.  `files`
assumes that both threads of each peer keep running, as they do under an emulator
that awakens every process again and again; it assumes nothing of the choices of
the kernel.  Its liveness property has the two failures (short sends, clashes)
as an exception, because the exchange can stop then (section 4).  `broadcast`
assumes that every process that has not exited keeps running: so it is for programs
run directly.  Under the emulator nothing runs any more once one has exited
(finding 3), and what `BroadcastsEnd` says holds only until then.

## 4. Findings

1. A frame written after the last `read` of a window is read in the next window,
   attributed to another process, stamped with its clock and sent on with its
   address (emproc.hpp:122-166 against the comment at 56-58).  Run `attribution`.
2. `awake` can return with its process running, if a child needs more than the
   100 ms of `main` (emproc.hpp:172 against 65-66).  Run `late_start`.
3. `sigwait` waits for ever on a process whose program has ended; the programs of
   `configs/config.txt` end (emproc.hpp:101 against emulator.hpp:50).  Run
   `program_exit`.
4. `tcp_checksum` is wrong for a segment of odd length whose last byte is 128 or
   more (packet.hpp:621): the receiver's kernel drops it, again and again.  Run
   `odd_byte`.
5. `send_tcp` returns 0 for a file that is lost, because a failed receive closes
   the listening socket and with it the connection of the retry
   (network-helper.hpp:555 against 409).  Run `short_send`.
6. An emulation with a java hangs in its first window: `child_init` runs `system()`
   without stopping itself first (emulator.hpp:262-263, where 39-40 and 103-105 say
   that every new process does), SIGCONT to a process that is not stopped raises no
   SIGCHLD, and `sigwait` (emproc.hpp:101) waits for ever.  All five programs of
   `configs/config_bftsmart.txt` are java, with which the emulator was tested
   according to Readme.md:15-16.  Run `java_program`.

Seen in passing, without a run.  The latency of a packet is entry *to* of line
*from* of the file (emulator.hpp:334, config-parser.hpp:80); the documented layout
is the transposed one (config-parser.hpp:29-30), so that with an asymmetric matrix
each direction gets the latency of the other.  With a zero entry towards the
earliest process its windows are empty, and it is chosen again and again
(emulator.hpp:316); no configuration has one.  All frames are rewritten as TCP (emproc.hpp:160,
emulator.hpp:348), so that UDP datagrams lose two bytes of their payload, where
packet.hpp:32-33 says that the code works only for UDP.  Two peers that draw the same file name in one
directory lose the file: the receiver empties what its sender is still sending,
and `send_tcp` returns 0 for the empty file (network-helper.hpp:439 against 409;
`SuccessMeansSent` with `ShortSends = FALSE`).  `ByzantineReliableBroadcast` counts
SEND where it should count READY (line 85), so that process 0 never delivers and
with four or more processes nobody does; and of two consecutive sends of a process
one fails (network-helper.hpp:427), so that no broadcast reaches all others.
`receive_tcp` exits on a reset connection (line 602) where its comment (lines
510-511) promises `{-1, ""}`.  `get_nsec` (time.cpp:83) takes the remainder by
`MILLISECOND` where utils.hpp:42-43 promises at most 999; nothing calls it.

## 5. Proofs

All for every number of processes, every latency matrix, every traffic and
number of windows; what a theorem assumes beyond the assumptions on the constants
(`StartupSettles`, `TextTraffic`) is named here.

* `EmulatorProofs`: `TypeCorrect`; `SafetyInvariantHolds`, from which
  `LookaheadHolds`, `TimestampOrderHolds` and `NoArrivalInPastHolds` follow.
  Lookahead alone is not inductive: inside a window what matters is the *end* of
  the window, and `schedule_sent_packets` may only add packets that are not in
  the past because `SentInTime` bounds the stamps in `out_packets` from below by
  the receiver's clock minus the latency.  `DeliveredInPast` carries the order of
  deliveries from one window to the next.  The window computed
  by `get_time_interval` is never negative because `choose_next_proc` takes the
  smallest clock (lemma `IntervalIsSafe`).
  `EmulatorImplementsVirtualNetwork` is the refinement, step by step, with
  `IdsInOrder` and `QueuedIdsUnique` added (a frame is in one place, so that the
  abstract message is new when it is transmitted).
* `EmulatorOrderProofs`: `OrderInvariant`, on top of the two above, from which
  `ChannelFIFOHolds` and `AtMostOnePlaceHolds` follow.  That the timestamps in a
  heap are in order is not enough for the order of a channel: a packet passes
  through two heaps, so the invariant compares any two packets that were read,
  wherever they are (`ReadInOrder`), and knows that all were read before the last
  reading of the clock (`SentBeforeReading`).  `OnlyUnsupportedDroppedHolds` and
  `WindowsMakeProgressHolds` are about single steps: no step makes a supported
  frame disappear, and every window ends later than it began.  `CausalStampsHold`
  needs `StampsInPast`, and that no arrival is due before the end of a window.
* `ProcControlProofs`: `TurnInvariantHolds` under `StartupSettles` (needed: run
  `late_start`), for any programs, which may end at any time; `OneRunsAtATimeHolds`,
  `StoppedOnReturnHolds`, `WindowIsRunHolds` and `NoStaleSigchldHolds` follow.  `OneAnswer` is what makes it inductive: the
  awakened process owes exactly one SIGCHLD for each signal, all others owe none.
  `KilledSoFarHolds` and `AllKilledHolds` need neither that nor `OneEmulator`.
* `ConfigProofs`: `AcceptedLatencies` (whatever file is accepted, also one that
  ends too early, meets the assumption of `Emulator` on `latency`, if each entry
  fits an int of nanoseconds: 2147 ms), `LongLatencyTurnsNegative` (the bound is
  sharp: every accepted file with a longer entry, up to twice the bound, gives those
  two processes a negative latency, and there is such a file for any two), `ProgramOfOwnLine`.
* `PacketProofs`: `RoundTrip` and `TimesAreNumbers` (for any length of a second,
  any sign: this is why `Emulator` may count in numbers), `ElapsedIsTime` (what `awake` adds to a
  clock is exact), `TwoRounds` and `StoredChecksumVerifies` (for every 32-bit sum).
  For frames of any length: the sum over the words of a header or a segment is
  defined by a fold, so that facts about it (it changes by what one word changes,
  it is bounded by 65535 times the length) are proved by a smallest set of
  positions without them.  With the bounds no sum exceeds 32 bits, so that what
  `ip4_checksum` and `tcp_checksum` store is the checksum of RFC 1071, whatever
  checksum was there before.  `SettersRecompose` puts this together: after a setter
  the frame is, byte for byte, the one that a kernel composes with the new address.
  `PacketTypeCorrect`, `ChecksumsVerifyHolds` and `DeliveredAsSentHolds` follow for
  all traffic that meets `TextTraffic`.  The properties are not inductive, since a
  checksum that verifies does not determine the frame; `FrameInvariant` says of
  the frame at each place which header, segment and addresses it was composed
  from.  That the odd last byte has to be excluded is `NegativeByteFails`: *every*
  segment with such a byte gets a checksum that does not verify (run `odd_byte`
  shows one), because the sign adds 255 modulo 65535 to the sum.
* `BroadcastProofs`: `BroadcastInv`, from which `EchoesAreSentAlways`,
  `StagesInOrderAlways` and `DeliveredFromSenderAlways` follow, for any number of
  processes and any losses.  The counters alone are not inductive: `TrafficInv`
  says of every message that is queued or on a connection that its sender is in a
  state that sends it.  `BroadcastTypeCorrect` adds `SocketInv` (a process has one
  open connection, no two wait in one backlog), without which the counts of
  connections have no bound.
* `TcpFileProofs`: `TransferTypeCorrect`, `NothingLostHolds`, `WrittenIsPrefixHolds`,
  `SuccessIsWholeHolds`, `NoSuccessAfterResetHolds`, for every file and any sizes of
  the chunks, of the connection and of the output stream.  Size and file are one
  stream; `IInv` says of every buffer and of the connection which segment of the
  stream it holds, and that each segment begins where the one before ends
  (`LinkInv`).  That the properties follow is arithmetic of positions; that they
  are kept is a lemma about segments for each of send, receive, read and write.
  For `NoSuccessAfterReset`: no send succeeds once a reset is back, so that `SendFile`
  stays in `SendBuffer` until it fails or is killed.
* `TCPpeerProofs`: `TCPpeerTypeCorrect`, `HeldOnceHolds`, `FileIntactHolds`,
  `SuccessMeansSentHolds`, for any number of peers, any file, chunks and names.
  `HeldOnce` needs `TokenInv`: the message is on one stack, with one sending
  thread, or on connections from one peer to one other, and a sender that gives
  up and begins again leaves old connections behind.  So two threads could come
  to hold it, unless an abandoned connection never brings the whole file: that is
  `ClosedFlow`, which holds because `sendFile` gives up before the last byte, and
  `Live` excludes the connection that waits behind an abandoned one, since the
  failed receive closes the socket of both.  `FileIntact` adds what the
  bytes are (`IntactInv`): after a short send `totalSent` stays behind `position`,
  so that the announced length is never reached with bytes missing.  With
  neither short sends nor clashes no connection is given up (`UncutInv`), so that the
  causes named in finding 5 and below it are the only ones.  Run `short_send`
  shows that the first exception is needed.

Every invariant and action property of a passing run is a theorem.  Only
model-checked are the six liveness properties (`EmulationFinishes`,
`EndsUnlessProgramEnds`, `TransferEnds`, `ResetEndsSender`, `KeepsGoing`,
`BroadcastsEnd`), which are out of the prover's reach.

## 6. Not modelled, and the plan

Left out for good: `LoopNetwork` (it sends UDP on a TCP socket and would end at
once) and `SingleMessage` (one send and one receive of `AlgorithmBase`), which
nothing calls; text output (Logger, proc_frame, test_packet), the ioctl
set-up of the TUN device, the shell script, getters that nothing calls.

Left out of modelled parts: what the processes that a second emulator forks do
(they stop themselves and are never continued by the first emulator), an
emulation whose configuration does not open (an indeterminate number of
processes), a read of `SendFile`'s input that fails (tried again every second),
UDP datagrams (their bytes go through the setters for TCP; no program of this
commit sends any through the emulator), and `NetworkHelper`'s UDP mode.

What could follow:

* UDP datagrams in `Packet`, as a run that is expected to fail.
* The safety half of the liveness properties: that no reachable state of
  `ProcControl` and `TcpFile` waits on somebody who has nothing left to do.
