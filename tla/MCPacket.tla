------------------------------ MODULE MCPacket ------------------------------
(* Packet for TLC: two processes of 172.16.0.0/16, IP headers with and       *)
(* without options and fragment offset, TCP headers (and one of UDP) with    *)
(* payloads of up to three bytes.                                            *)
EXTENDS Packet

TwoAddrs == 0 :> <<44048, 2>> @@ 1 :> <<44048, 3>>
TunAddr  == <<44048, 1>>
\* 10 ms and 20 ms; times of less than a second, for the integers of TLC.
Nanos(n) == [tv_sec |-> 0, tv_nsec |-> n]
Latencies == 0 :> (0 :> Nanos(0) @@ 1 :> Nanos(10000000))
          @@ 1 :> (0 :> Nanos(20000000) @@ 1 :> Nanos(0))
Readings == {Nanos(0), Nanos(1), Nanos(999999999)}

TCPHeader == <<156, 64, 31, 144, 0, 0, 0, 1, 255, 255, 255, 255,
               80, 24, 1, 246, 0, 0, 0, 0>>

\* Ids that make the sum of a header 0 modulo 65535 are among these.
Header(options, id, frag_off, proto) ==
    <<17664 + (128 * Len(options)), 0, id, frag_off,
      (64 * 256) + proto, 0, 0, 0, 0, 0>> \o options
DF       == 16384
Options  == {<<>>, <<257, 257>>}
Balanced(seg) ==
    LET rest == SumOf(Header(<<>>, 0, DF, TCP)) + 20 + Len(seg)
                + (2 * 44048) + 2 + 1
    IN  65535 - (rest % 65535)
TCPHeads ==
    {Header(o, id, f, TCP) : o \in Options, f \in {DF, 185},
        id \in {0, 54321, Balanced(TCPHeader)}}

Bytes     == {0, 97, 255}
Payloads  == {<<>>} \cup {<<a>> : a \in Bytes} \cup {<<a, b>> : a, b \in Bytes}
             \cup {<<a, 97, b>> : a, b \in Bytes}
Ascii(s)  == Len(s) % 2 = 0 \/ s[Len(s)] < 128

TextSegments == {TCPHeader \o s : s \in {t \in Payloads : Ascii(t)}}
AnySegments  == {TCPHeader \o s : s \in Payloads}

\* What the theorems about frames assume, for the frames of text.
ASSUME TextTrafficAssumption == Segments = TextSegments => TextTraffic
=============================================================================
