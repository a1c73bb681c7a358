------------------------------- MODULE Packet -------------------------------
(***************************************************************************)
(* What happens to the contents of one frame on its way through the        *)
(* emulator: EMProc::awake reads it from the TUN device and makes a Packet *)
(* of it, schedule_sent_packets rewrites its addresses with the setters of *)
(* class Packet (network/packet.hpp), Network::send writes it back.  Which *)
(* frame is handled when is the subject of module Emulator; this module is *)
(* about the bytes, with the widths of the code.                           *)
(*                                                                         *)
(* A frame is its IP header, a sequence of 16-bit words in network order   *)
(* (twice ihl of them), and the bytes behind it.                           *)
(***************************************************************************)
EXTENDS TimeSpec, Sequences, SequencesExt

CONSTANTS
    Addrs,      \* Addrs[p]: the two words of the address of process p
    Inter,      \* the address of the TUN device, which all programs have
    latency,    \* latency[p][q], a time
    Heads,      \* IP headers programs send; tot_len, check, addresses are 0
    Segments,   \* what they send behind the header, transport checksum 0
    Clocks      \* values of virtual_clock and of elapsed_time

EmIds == DOMAIN Addrs

TCP == 6

NoFrame == [ip |-> <<>>, seg |-> <<>>]

VARIABLES
    place,      \* where the frame is: "none", "tun", "out_packets", "in_packets"
    from,       \* em_id of the process that sent it
    to,         \* em_id of the process it is for
    packet,     \* the frame
    ts,         \* its timestamp
    written     \* history: the frame as its process wrote it, with no checksums

vars == <<place, from, to, packet, ts, written>>
-----------------------------------------------------------------------------
(* Words, fields and sums.                                                 *)

Octet  == 0 .. 255
Word16 == 0 .. 65535
Word(b, i) == (256 * b[2*i - 1]) + b[2*i]
SetWord(b, i, w) == [b EXCEPT ![2*i - 1] = w \div 256, ![2*i] = w % 256]
Words(b) == [i \in 1 .. Len(b) \div 2 |-> Word(b, i)]
SumOf(words) == FoldSeq(LAMBDA x, y : x + y, 0, words)

\* Fields of the IP header: words 2 (tot_len), 4 (frag_off), 5 (ttl, protocol),
\* 6 (check), 7-8 (saddr), 9-10 (daddr).
protocol(ip) == ip[5] % 256
daddr(ip) == <<ip[9], ip[10]>>

(***************************************************************************)
(* The loop "while (sum >> 16)": a sum of 32 bits has no carry left after  *)
(* two rounds (theorem TwoRounds of PacketProofs).                         *)
(***************************************************************************)
Carry(sum) == (sum % 65536) + (sum \div 65536)
Folded(sum) == Carry(Carry(sum))
Complement(w) == 65535 - w
-----------------------------------------------------------------------------
(* The setters of Packet.                                                  *)

\* A defect used as a mutant: the options are left out.
ChecksumOfTwenty(ip) == Complement(Folded(SumOf(SubSeq(ip, 1, 10)) - ip[6]))

ip4_checksum(ip) == Complement(Folded(SumOf(ip) - ip[6]))

\* ((uint16_t) data[i]) << 8, where char has a sign.
LastByte(b) == IF b < 128 THEN 256 * b ELSE 256 * (65280 + b)

\* The pseudo header always says TCP; the checksum field is word 9.
tcp_checksum(ip, seg) ==
    LET pseudo == ip[7] + ip[8] + ip[9] + ip[10] + TCP + Len(seg)
        odd    == IF Len(seg) % 2 = 1 THEN LastByte(seg[Len(seg)]) ELSE 0
    IN  Complement(Folded(pseudo + SumOf(Words(seg)) - Word(seg, 9) + odd))

\* A defect used as a mutant.
AnyHasHeader(ip) == TRUE

\* No fragment offset.
has_transport_layer_hdr(ip) == ip[4] % 8192 = 0

\* What both setters do once the address is in the header.
Recomputed(ip, seg) ==
    [ip  |-> [ip EXCEPT ![6] = ip4_checksum(ip)],
     seg |-> IF has_transport_layer_hdr(ip)
             THEN SetWord(seg, 9, tcp_checksum(ip, seg)) ELSE seg]

set_dest_addr_tcp(f, a) ==
    Recomputed([f.ip EXCEPT ![9] = a[1], ![10] = a[2]], f.seg)
set_source_addr_tcp(f, a) ==
    Recomputed([f.ip EXCEPT ![7] = a[1], ![8] = a[2]], f.seg)

Rewritten(f, p) == set_source_addr_tcp(set_dest_addr_tcp(f, Inter), Addrs[p])
-----------------------------------------------------------------------------
(* The sender's kernel: checksums by their definition (RFC 1071).          *)

Whole(ip) == ip[4] % 16384 = 0       \* neither a first nor a later fragment
LaterFragment(ip) == ip[4] % 8192 # 0
Even(seg) == IF Len(seg) % 2 = 1 THEN Append(seg, 0) ELSE seg
PseudoSum(ip, seg) ==
    ip[7] + ip[8] + ip[9] + ip[10] + protocol(ip) + Len(seg)
ChecksumWord(ip) == IF protocol(ip) = TCP THEN 9 ELSE 4
RFC1071(sum) == (65535 - (sum % 65535)) % 65535

Composed(h, seg, s, d) ==
    LET ip == [h EXCEPT ![2] = (2 * Len(h)) + Len(seg), ![7] = s[1],
                        ![8] = s[2], ![9] = d[1], ![10] = d[2]]
    IN  [ip  |-> [ip EXCEPT ![6] = RFC1071(SumOf(ip))],
         seg |-> IF Whole(ip)
                 THEN SetWord(seg, ChecksumWord(ip),
                        RFC1071(PseudoSum(ip, seg) + SumOf(Words(Even(seg)))))
                 ELSE seg]

\* And what a receiver verifies.
HeaderVerifies(f) == SumOf(f.ip) % 65535 = 0
SegmentVerifies(f) ==
    Whole(f.ip) =>
        (PseudoSum(f.ip, f.seg) + SumOf(Words(Even(f.seg)))) % 65535 = 0
-----------------------------------------------------------------------------
Init ==
    /\ place = "none" /\ from = 0 /\ to = 0
    /\ packet = NoFrame /\ written = NoFrame /\ ts = ts_from_nano(0)

\* Process p writes a frame to the TUN device (external).
Write(p, q, h, seg) ==
    /\ place = "none"
    /\ place' = "tun" /\ from' = p /\ to' = q
    /\ packet' = Composed(h, seg, Inter, Addrs[q])
    /\ written' = [ip |-> h, seg |-> seg]
    /\ UNCHANGED ts

\* awake(from) reads it; a frame for its own sender is rewritten and kept.
Receive(virtual_clock, elapsed_time) ==
    /\ place = "tun"
    /\ ts' = Plus(virtual_clock, elapsed_time)
    /\ IF daddr(packet.ip) = Addrs[from]
       THEN /\ packet' = Rewritten(packet, from)
            /\ place' = "in_packets"
       ELSE /\ place' = "out_packets"
            /\ UNCHANGED packet
    /\ UNCHANGED <<from, to, written>>

\* The body of the loop of Emulator::schedule_sent_packets.
schedule_sent_packets ==
    /\ place = "out_packets"
    /\ ts' = Plus(ts, latency[from][to])
    /\ packet' = Rewritten(Rewritten(packet, from), from)
    /\ place' = "in_packets"
    /\ UNCHANGED <<from, to, written>>

\* Network::send, when the packet falls due.
Send ==
    /\ place = "in_packets"
    /\ place' = "none" /\ from' = 0 /\ to' = 0
    /\ packet' = NoFrame /\ written' = NoFrame /\ ts' = ts_from_nano(0)

Next ==
    \/ \E p, q \in EmIds, h \in Heads, seg \in Segments : Write(p, q, h, seg)
    \/ \E c, e \in Clocks : Receive(c, e)
    \/ schedule_sent_packets
    \/ Send

Spec == Init /\ [][Next]_vars
-----------------------------------------------------------------------------
(***************************************************************************)
(* The frames of programs that talk TCP and send text: no IP fragmentation *)
(* at the sender, a whole TCP header, and no byte above 127 where it would *)
(* be padded (what becomes of one is the subject of the run odd_byte).     *)
(***************************************************************************)
Addresses == Word16 \X Word16

TextFrame(h, seg) ==
    /\ h \in Seq(Word16) /\ seg \in Seq(Octet)
    /\ Len(h) >= 10 /\ (2 * Len(h)) + Len(seg) =< 65535
    /\ \A i \in {2, 6, 7, 8, 9, 10} : h[i] = 0
    /\ protocol(h) = TCP
    /\ ~ LaterFragment(h) =>
        /\ Whole(h)
        /\ Len(seg) >= 20 /\ seg[17] = 0 /\ seg[18] = 0
        /\ Len(seg) % 2 = 1 => seg[Len(seg)] < 128

TextTraffic ==
    /\ 0 \in EmIds /\ Inter \in Addresses
    /\ \A p \in EmIds : Addrs[p] \in Addresses
    /\ \A p, q \in EmIds : latency[p][q] \in Times
    /\ \A c \in Clocks : c \in Times
    /\ \A h \in Heads, seg \in Segments : TextFrame(h, seg)
-----------------------------------------------------------------------------
(* Properties.                                                             *)

\* Types; in particular every word is one of 16 bits, every byte one of 8,
\* and tv_nsec is less than a second (time.cpp), as timers require.
TypeOK ==
    /\ place \in {"none", "tun", "out_packets", "in_packets"}
    /\ from \in EmIds /\ to \in EmIds
    /\ packet.ip \in Seq(Word16) /\ packet.seg \in Seq(Octet)
    /\ ts \in Times

\* The IP header and the segment verify wherever the frame is: a kernel
\* drops a frame whose checksums do not, and the emulation goes on as if a
\* packet had been lost (packet.hpp: "Function to calculate the TCP checksum").
ChecksumsVerify ==
    packet # NoFrame => HeaderVerifies(packet) /\ SegmentVerifies(packet)

\* What the receiver gets is, byte for byte, what the sender would have sent
\* from its own address to the address that all programs have: nothing but
\* addresses and checksums changes on the way (class Packet, emproc.hpp:151-163,
\* emulator.hpp:322-361).
DeliveredAsSent ==
    place = "in_packets" =>
        packet = Composed(written.ip, written.seg, Addrs[from], Inter)
=============================================================================
