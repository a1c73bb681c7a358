---------------------------- MODULE TcpFileProofs ----------------------------
(***************************************************************************)
(* What holds of the file transfer for every file, every size of the       *)
(* chunks and of the connection, and whatever fails.                       *)
(*                                                                         *)
(* What SendFile sends, the size and then the file, is one stream.  The    *)
(* invariant says of every buffer which segment of the stream it holds.    *)
(***************************************************************************)
EXTENDS TcpFile, SequenceTheorems, TLAPS

Stream == Size \o File

Segment(a, b) == SubSeq(Stream, a + 1, b)

LEMMA Sizes ==
    /\ Len(File) \in Nat /\ GetFileSize = Len(File)
    /\ SizeBytes \in Nat /\ SizeBytes > 0 /\ SendChunk \in Nat /\ SendChunk > 0
    /\ RecvChunk \in Nat /\ RecvChunk > 0 /\ BufferChunk \in Nat /\ BufferChunk > 0
    /\ Capacity \in Nat /\ Capacity > 0 /\ StreamBuffer \in Nat
BY FileAssumption DEF GetFileSize

LEMMA Streams ==
    /\ File \in Seq(Nat) /\ Size \in Seq(Nat) /\ Stream \in Seq(Nat)
    /\ Len(Size) = SizeBytes /\ Len(Stream) = SizeBytes + Len(File)
    /\ \A k \in 1 .. SizeBytes : Size[k] = Stream[k]
    /\ \A k \in 1 .. Len(File) : File[k] = Stream[SizeBytes + k]
<1>1. File \in Seq(Nat) /\ Len(File) \in Nat /\ SizeBytes \in Nat
  BY FileAssumption, Sizes
<1>2. Size \in [1 .. SizeBytes -> Nat]
  BY <1>1, Sizes DEF Size
<1>3. Size \in Seq(Nat) /\ Len(Size) = SizeBytes
  BY <1>1, <1>2
<1>4. /\ Stream \in Seq(Nat) /\ Len(Stream) = SizeBytes + Len(File)
      /\ \A i \in 1 .. SizeBytes + Len(File) :
             Stream[i] = IF i <= SizeBytes THEN Size[i] ELSE File[i - SizeBytes]
  BY <1>1, <1>3, ConcatProperties DEF Stream
<1>5. \A k \in 1 .. SizeBytes : Size[k] = Stream[k]
  BY <1>1, <1>4
<1>6. ASSUME NEW k \in 1 .. Len(File)
      PROVE  File[k] = Stream[SizeBytes + k]
  <2>1. SizeBytes + k \in 1 .. SizeBytes + Len(File) /\ ~ (SizeBytes + k <= SizeBytes)
        /\ (SizeBytes + k) - SizeBytes = k
    BY <1>1
  <2> QED  BY <1>4, <2>1
<1> QED  BY <1>1, <1>3, <1>4, <1>5, <1>6

LEMMA Lengths ==
    /\ File \in Seq(Nat) /\ Size \in Seq(Nat) /\ Stream \in Seq(Nat)
    /\ Len(File) \in Nat /\ GetFileSize = Len(File)
    /\ Len(Size) = SizeBytes /\ Len(Stream) = SizeBytes + Len(File)
    /\ SizeBytes \in Nat /\ SizeBytes > 0 /\ SendChunk \in Nat /\ SendChunk > 0
    /\ RecvChunk \in Nat /\ RecvChunk > 0 /\ BufferChunk \in Nat /\ BufferChunk > 0
    /\ Capacity \in Nat /\ Capacity > 0 /\ StreamBuffer \in Nat
BY Streams, Sizes

\* A part of a sequence of bytes.
LEMMA Part ==
    ASSUME NEW s \in Seq(Nat), NEW a \in Nat, NEW b \in Nat, a <= b, b <= Len(s)
    PROVE  /\ SubSeq(s, a + 1, b) \in Seq(Nat) /\ Len(SubSeq(s, a + 1, b)) = b - a
           /\ \A i \in 1 .. b - a : SubSeq(s, a + 1, b)[i] = s[a + i]
<1>1. \A i \in a + 1 .. b : s[i] \in Nat
  BY ElementOfSeq
<1>2. /\ SubSeq(s, a + 1, b) \in Seq(Nat)
      /\ Len(SubSeq(s, a + 1, b)) = IF a + 1 <= b THEN b - (a + 1) + 1 ELSE 0
      /\ \A i \in 1 .. b - (a + 1) + 1 : SubSeq(s, a + 1, b)[i] = s[(a + 1) + i - 1]
  BY <1>1, SubSeqProperties
<1>3. /\ b - (a + 1) + 1 = b - a
      /\ \A i \in 1 .. b - a : (a + 1) + i - 1 = a + i
  OBVIOUS
<1> QED  BY <1>2, <1>3

\* A part of a part.
LEMMA PartOfPart ==
    ASSUME NEW s \in Seq(Nat), NEW a \in Nat, NEW b \in Nat, a <= b, b <= Len(s),
           NEW l \in Nat, NEW m \in Nat, l <= m, m <= b - a
    PROVE  SubSeq(SubSeq(s, a + 1, b), l + 1, m) = SubSeq(s, (a + l) + 1, a + m)
<1> DEFINE p == SubSeq(s, a + 1, b)
           q == SubSeq(p, l + 1, m)
           r == SubSeq(s, (a + l) + 1, a + m)
<1>1. p \in Seq(Nat) /\ Len(p) = b - a /\ \A i \in 1 .. b - a : p[i] = s[a + i]
  BY Part
<1> HIDE DEF p
<1>2. q \in Seq(Nat) /\ Len(q) = m - l /\ \A i \in 1 .. m - l : q[i] = p[l + i]
  BY <1>1, Part
<1>3. a + l \in Nat /\ a + m \in Nat /\ a + l <= a + m /\ a + m <= Len(s)
      /\ (a + m) - (a + l) = m - l
  OBVIOUS
<1>4. r \in Seq(Nat) /\ Len(r) = m - l /\ \A i \in 1 .. m - l : r[i] = s[(a + l) + i]
  BY <1>3, Part
<1> HIDE DEF q, r
<1>5. ASSUME NEW i \in 1 .. m - l
      PROVE  q[i] = r[i]
  <2>1. l + i \in 1 .. b - a /\ a + (l + i) = (a + l) + i
    OBVIOUS
  <2> QED  BY <1>1, <1>2, <1>4, <2>1
<1>6. q = r
  BY <1>2, <1>4, <1>5, SeqEqual
<1> QED  BY <1>6 DEF p, q, r

LEMMA Joined ==
    ASSUME NEW s \in Seq(Nat), NEW a \in Nat, NEW b \in Nat, NEW c \in Nat,
           a <= b, b <= c, c <= Len(s)
    PROVE  SubSeq(s, a + 1, b) \o SubSeq(s, b + 1, c) = SubSeq(s, a + 1, c)
<1>1. a + 1 \in 1 .. Len(s) + 1 /\ b \in (a + 1) - 1 .. Len(s) /\ c \in b .. Len(s)
  OBVIOUS
<1> QED  BY <1>1, ConcatAdjacentSubSeq

\* The segments of the stream.
LEMMA Segments ==
    ASSUME NEW a \in Nat, NEW b \in Nat, a <= b, b <= Len(Stream)
    PROVE  /\ Segment(a, b) \in Seq(Nat) /\ Len(Segment(a, b)) = b - a
           /\ Segment(a, a) = <<>>
           /\ \A l \in 0 .. b - a : /\ SubSeq(Segment(a, b), 1, l) = Segment(a, a + l)
                                    /\ SubSeq(Segment(a, b), l + 1, b - a) = Segment(a + l, b)
           /\ \A c \in b .. Len(Stream) : Segment(a, b) \o Segment(b, c) = Segment(a, c)
<1>1. Segment(a, b) \in Seq(Nat) /\ Len(Segment(a, b)) = b - a
  BY Streams, Sizes, Part DEF Segment
<1>2. Segment(a, a) = <<>>
  BY SubSeqEmpty DEF Segment
<1>3. ASSUME NEW l \in 0 .. b - a
      PROVE  /\ SubSeq(Segment(a, b), 1, l) = Segment(a, a + l)
             /\ SubSeq(Segment(a, b), l + 1, b - a) = Segment(a + l, b)
  <2>1. SubSeq(Segment(a, b), 0 + 1, l) = SubSeq(Stream, (a + 0) + 1, a + l)
    BY Streams, Sizes, PartOfPart DEF Segment
  <2>2. SubSeq(Segment(a, b), l + 1, b - a) = SubSeq(Stream, (a + l) + 1, a + (b - a))
    <3>1. b - a \in Nat
      OBVIOUS
    <3> QED  BY <3>1, Streams, Sizes, PartOfPart DEF Segment
  <2>3. 0 + 1 = 1 /\ a + 0 = a /\ a + (b - a) = b
    OBVIOUS
  <2> QED  BY <2>1, <2>2, <2>3 DEF Segment
<1>4. ASSUME NEW c \in b .. Len(Stream)
      PROVE  Segment(a, b) \o Segment(b, c) = Segment(a, c)
  <2>1. Stream \in Seq(Nat) /\ c \in Nat /\ b <= c /\ c <= Len(Stream)
    BY Streams, Sizes
  <2> QED  BY <2>1, Joined DEF Segment
<1> QED  BY <1>1, <1>2, <1>3, <1>4

\* Parts of the size and parts of the file are segments.
LEMMA SizeSegment ==
    ASSUME NEW a \in Nat, NEW b \in Nat, a <= b, b <= SizeBytes
    PROVE  SubSeq(Size, a + 1, b) = Segment(a, b)
<1> DEFINE q == SubSeq(Size, a + 1, b)
           r == Segment(a, b)
<1>1. q \in Seq(Nat) /\ Len(q) = b - a /\ \A i \in 1 .. b - a : q[i] = Size[a + i]
  <2>1. Size \in Seq(Nat) /\ b <= Len(Size)
    BY Streams
  <2> QED  BY <2>1, Part
<1>2. r \in Seq(Nat) /\ Len(r) = b - a /\ \A i \in 1 .. b - a : r[i] = Stream[a + i]
  <2>1. Stream \in Seq(Nat) /\ b <= Len(Stream)
    BY Streams, Sizes
  <2> QED  BY <2>1, Part DEF Segment
<1> HIDE DEF q, r
<1>3. \A i \in 1 .. b - a : a + i \in 1 .. SizeBytes
  BY Streams, Sizes
<1>4. \A i \in 1 .. b - a : q[i] = r[i]
  BY <1>1, <1>2, <1>3, Streams, Sizes
<1>5. q = r
  BY <1>1, <1>2, <1>4, SeqEqual
<1> QED  BY <1>5 DEF q, r

LEMMA FileSegment ==
    ASSUME NEW a \in Nat, NEW b \in Nat, a <= b, b <= Len(File)
    PROVE  SubSeq(File, a + 1, b) = Segment(SizeBytes + a, SizeBytes + b)
<1> DEFINE q == SubSeq(File, a + 1, b)
           r == Segment(SizeBytes + a, SizeBytes + b)
<1>1. q \in Seq(Nat) /\ Len(q) = b - a /\ \A i \in 1 .. b - a : q[i] = File[a + i]
  <2>1. File \in Seq(Nat)
    BY Streams
  <2> QED  BY <2>1, Part
<1>2. r \in Seq(Nat) /\ Len(r) = b - a /\ \A i \in 1 .. b - a : r[i] = Stream[(SizeBytes + a) + i]
  <2> DEFINE x == SizeBytes + a
             y == SizeBytes + b
  <2>1. x \in Nat /\ y \in Nat /\ x <= y /\ y <= Len(Stream) /\ y - x = b - a
    BY Streams, Sizes
  <2>2. Stream \in Seq(Nat)
    BY Streams
  <2> HIDE DEF x, y
  <2>3. /\ SubSeq(Stream, x + 1, y) \in Seq(Nat) /\ Len(SubSeq(Stream, x + 1, y)) = y - x
        /\ \A i \in 1 .. y - x : SubSeq(Stream, x + 1, y)[i] = Stream[x + i]
    BY <2>1, <2>2, Part
  <2>4. r = SubSeq(Stream, x + 1, y)
    BY DEF Segment, x, y
  <2> HIDE DEF r
  <2>5. r \in Seq(Nat) /\ Len(r) = b - a /\ \A i \in 1 .. b - a : r[i] = Stream[x + i]
    BY <2>1, <2>3, <2>4
  <2> QED  BY <2>5 DEF x
<1> HIDE DEF q, r
<1>4. ASSUME NEW i \in 1 .. b - a
      PROVE  q[i] = r[i]
  <2>1. Len(File) \in Nat /\ SizeBytes \in Nat
    BY Streams, Sizes
  <2>2. a + i \in 1 .. Len(File) /\ (SizeBytes + a) + i = SizeBytes + (a + i)
    BY <2>1
  <2> QED  BY <1>1, <1>2, <2>2, Streams, Sizes
<1>5. q = r
  BY <1>1, <1>2, <1>4, SeqEqual
<1> QED  BY <1>5 DEF q, r

\* The smallest and the greatest of two, and of three.
LEMMA MinOfTwo ==
    ASSUME NEW a \in Int, NEW b \in Int
    PROVE  Min({a, b}) \in {a, b} /\ Min({a, b}) <= a /\ Min({a, b}) <= b
<1>1. \E x \in {a, b} : \A y \in {a, b} : x <= y
  BY DEF Min
<1> QED  BY <1>1 DEF Min

LEMMA MinOfThree ==
    ASSUME NEW a \in Int, NEW b \in Int, NEW c \in Int
    PROVE  /\ Min({a, b, c}) \in {a, b, c}
           /\ Min({a, b, c}) <= a /\ Min({a, b, c}) <= b /\ Min({a, b, c}) <= c
<1>1. \E x \in {a, b, c} : \A y \in {a, b, c} : x <= y
  OBVIOUS
<1> QED  BY <1>1 DEF Min

LEMMA MaxOfTwo ==
    ASSUME NEW a \in Int, NEW b \in Int
    PROVE  Max({a, b}) \in {a, b} /\ a <= Max({a, b}) /\ b <= Max({a, b})
<1>1. \E x \in {a, b} : \A y \in {a, b} : x >= y
  OBVIOUS
<1> QED  BY <1>1 DEF Max

-----------------------------------------------------------------------------
(* The invariant. *)

TypeInv ==
    /\ spc \in {"open", "size", "chunk", "returned", "killed"}
    /\ sret \in {Running, -1, -2, GetFileSize}
    /\ spc = "returned" <=> sret # Running
    /\ sent \in 0 .. GetFileSize
    /\ buffer \in Seq(Nat) /\ bi \in 0 .. Len(buffer)
    /\ wire \in Seq(Nat) /\ Len(wire) <= Capacity
    /\ sclosed \in BOOLEAN /\ rclosed \in BOOLEAN /\ reset \in {"none", "arrived", "reported"}
    /\ rpc \in {"open", "size", "data", "returned", "killed"}
    /\ rret \in {Running, -1, -2, -3, GetFileSize}
    /\ rpc = "returned" <=> rret # Running
    /\ rbuf \in Seq(Nat) /\ file \in Seq(Nat)
    /\ got \in 0 .. GetFileSize
    /\ wfail \in BOOLEAN /\ cfail \in BOOLEAN

\* What SendFile has in its buffer.
SenderInv ==
    /\ spc = "open" => sent = 0 /\ buffer = <<>>
    /\ spc = "size" => sent = 0 /\ buffer = Size
    /\ spc = "chunk" => /\ Len(buffer) \in 1 .. SendChunk
                        /\ sent + Len(buffer) <= GetFileSize
                        /\ buffer = SubSeq(File, sent + 1, sent + Len(buffer))
    /\ Len(buffer) <= SizeBytes \/ Len(buffer) <= SendChunk

\* What RecvFile has in its buffer, and has written.
ReceiverInv ==
    /\ rpc \in {"open", "size"} => got = 0 /\ file = <<>> /\ ~ wfail
    /\ rpc = "open" => rbuf = <<>>
    /\ rpc = "size" => Len(rbuf) <= SizeBytes
    /\ rpc = "data" => Len(rbuf) <= RecvChunk /\ got + Len(rbuf) <= GetFileSize
    /\ rpc = "data" => IF wfail THEN got < GetFileSize ELSE Len(file) = got
    /\ Len(rbuf) <= SizeBytes \/ Len(rbuf) <= RecvChunk
    /\ Len(file) <= GetFileSize /\ file = SubSeq(File, 1, Len(file))
    /\ rret >= 0 => file = File \/ cfail
    /\ rclosed => rpc \in {"returned", "killed"}
    /\ reset # "none" => rclosed

\* The positions in the stream: where the buffer of RecvBuffer begins and ends, and
\* how much has been sent.
Start == IF rpc = "data" THEN SizeBytes + got ELSE 0
Read == Start + Len(rbuf)
Written == IF spc = "chunk" THEN SizeBytes + sent + bi ELSE bi

\* The connection holds what was sent and has not been received.
LinkInv ==
    rpc \in {"open", "size", "data"} /\ ~ wfail =>
        /\ rbuf = Segment(Start, Read)
        /\ Read + Len(wire) <= Len(Stream)
        /\ wire = Segment(Read, Read + Len(wire))
        /\ spc \in {"open", "size", "chunk"} => Read + Len(wire) = Written

IInv == TypeInv /\ SenderInv /\ ReceiverInv /\ LinkInv

LEMMA ReadType == TypeInv => Start \in Nat /\ Read \in Nat
<1> SUFFICES ASSUME TypeInv PROVE Start \in Nat /\ Read \in Nat
  OBVIOUS
<1>1. got \in 0 .. GetFileSize /\ rbuf \in Seq(Nat)
  BY DEF TypeInv
<1>2. Start \in Nat /\ Len(rbuf) \in Nat
  BY <1>1, Lengths DEF Start
<1> QED  BY <1>2 DEF Read

LEMMA InitInv == Init => IInv
<1> SUFFICES ASSUME Init PROVE IInv
  OBVIOUS
<1>1. /\ Len(<<>>) = 0 /\ <<>> \in Seq(Nat) /\ SubSeq(File, 1, 0) = <<>>
      /\ Segment(0, 0) = <<>> /\ Running = -10
  BY SubSeqEmpty, EmptySeq DEF Segment, Running
<1>2. TypeInv
  <2>1. /\ buffer \in Seq(Nat) /\ bi \in 0 .. Len(buffer) /\ wire \in Seq(Nat) /\ Len(wire) <= Capacity
        /\ rbuf \in Seq(Nat) /\ file \in Seq(Nat)
    BY <1>1, Lengths DEF Init
  <2>2. sent \in 0 .. GetFileSize /\ got \in 0 .. GetFileSize
    BY Lengths DEF Init
  <2> QED  BY <2>1, <2>2 DEF Init, TypeInv
<1>3. SenderInv /\ ReceiverInv
  BY <1>1, Lengths DEF Init, SenderInv, ReceiverInv
<1>4. LinkInv
  BY <1>1, Lengths DEF Init, LinkInv, Start, Read, Written
<1> QED  BY <1>2, <1>3, <1>4 DEF IInv

-----------------------------------------------------------------------------
(* The steps of SendFile. *)

LEMMA SendFileOpenStep == ASSUME IInv, SendFileOpen PROVE IInv'
<1>1. TypeInv /\ SenderInv /\ ReceiverInv /\ LinkInv
  BY DEF IInv
<1>2. Len(<<>>) = 0 /\ Running = -10
  BY DEF Running
<1>3. TypeInv' /\ SenderInv'
  <2>1. /\ spc = "open" /\ sent = 0 /\ Len(buffer) = 0 /\ bi = 0
        /\ UNCHANGED <<sent, bi, reset, wire, sclosed, rclosed>> /\ UNCHANGED receiver
    BY <1>1, <1>2 DEF SendFileOpen, TypeInv, SenderInv, network
  <2>2. CASE SendReturns(-1) /\ UNCHANGED buffer
    BY <1>1, <1>2, <2>1, <2>2 DEF SendReturns, TypeInv, SenderInv, receiver
  <2>3. CASE spc' = "size" /\ buffer' = Size /\ UNCHANGED sret
    <3>1. buffer' \in Seq(Nat) /\ bi' \in 0 .. Len(buffer') /\ Len(buffer') = SizeBytes
      BY <2>1, <2>3, Lengths
    <3>2. TypeInv'
      BY <1>1, <2>1, <2>3, <3>1 DEF TypeInv, receiver
    <3> QED  BY <2>1, <2>3, <3>1, <3>2 DEF SenderInv
  <2> QED  BY <2>2, <2>3 DEF SendFileOpen
<1>4. ReceiverInv'
  BY <1>1 DEF SendFileOpen, ReceiverInv, receiver, network
<1>5. LinkInv'
  <2>1. /\ Start' = Start /\ Read' = Read /\ Written' = Written /\ wire' = wire /\ rbuf' = rbuf
        /\ rpc' = rpc /\ wfail' = wfail
        /\ spc = "open"
    BY DEF SendFileOpen, SendReturns, Start, Read, Written, receiver, network
  <2> QED  BY <1>1, <2>1 DEF LinkInv
<1> QED  BY <1>3, <1>4, <1>5 DEF IInv

\* What a send adds to the connection is the next segment of the stream.
LEMMA NextSegment ==
    ASSUME TypeInv, SenderInv, InSendBuffer, NEW l \in Nat, bi + l <= Len(buffer)
    PROVE  /\ Written \in Nat /\ Written + l <= Len(Stream)
           /\ SubSeq(buffer, bi + 1, bi + l) = Segment(Written, Written + l)
<1>1. bi \in Nat /\ sent \in Nat /\ Len(buffer) \in Nat /\ buffer \in Seq(Nat) /\ sent <= Len(File)
  BY Lengths DEF TypeInv
<1>2. CASE spc = "size"
  <2>1. buffer = Size /\ Written = bi
    BY <1>2 DEF SenderInv, Written
  <2>2. bi + l <= SizeBytes /\ bi + l \in Nat /\ bi <= bi + l /\ SizeBytes <= Len(Stream)
    BY <1>1, <2>1, Lengths
  <2>3. SubSeq(Size, bi + 1, bi + l) = Segment(bi, bi + l)
    BY <1>1, <2>2, SizeSegment
  <2> QED  BY <1>1, <2>1, <2>2, <2>3, Lengths
<1>3. CASE spc = "chunk"
  <2> DEFINE e == sent + Len(buffer)
  <2>1. buffer = SubSeq(File, sent + 1, e) /\ e <= Len(File) /\ Written = SizeBytes + sent + bi
    BY <1>3, Lengths DEF SenderInv, Written
  <2>2. e \in Nat /\ sent <= e /\ bi + l <= e - sent
    BY <1>1
  <2> HIDE DEF e
  <2>3. SubSeq(buffer, bi + 1, bi + l) = SubSeq(File, (sent + bi) + 1, sent + (bi + l))
    BY <1>1, <2>1, <2>2, Lengths, PartOfPart
  <2>4. SubSeq(File, (sent + bi) + 1, sent + (bi + l))
            = Segment(SizeBytes + (sent + bi), SizeBytes + (sent + (bi + l)))
    <3>1. /\ sent + bi \in Nat /\ sent + (bi + l) \in Nat /\ sent + bi <= sent + (bi + l)
          /\ sent + (bi + l) <= Len(File)
      BY <1>1, <2>1, <2>2, Lengths
    <3> QED  BY <3>1, FileSegment
  <2>5. /\ SizeBytes + (sent + bi) = Written /\ SizeBytes + (sent + (bi + l)) = Written + l
        /\ Written \in Nat /\ Written + l <= Len(Stream)
    BY <1>1, <2>1, <2>2, Lengths
  <2> QED  BY <2>3, <2>4, <2>5
<1> QED  BY <1>2, <1>3 DEF InSendBuffer

LEMMA SendBufferStep == ASSUME IInv, SendBuffer PROVE IInv'
<1>1. TypeInv /\ SenderInv /\ ReceiverInv /\ LinkInv
  BY DEF IInv
<1>2. /\ InSendBuffer
      /\ UNCHANGED <<spc, sret, sent, buffer, reset, sclosed, rclosed>> /\ UNCHANGED receiver
  BY DEF SendBuffer
<1>3. PICK l \in 1 .. Min({Len(buffer) - bi, Capacity - Len(wire)}) :
          wire' = wire \o SubSeq(buffer, bi + 1, bi + l) /\ bi' = bi + l
  BY DEF SendBuffer
<1>4. /\ bi \in Nat /\ Len(buffer) \in Nat /\ Len(wire) \in Nat /\ wire \in Seq(Nat)
      /\ l \in Nat /\ bi + l <= Len(buffer) /\ Len(wire) + l <= Capacity
  <2>0. buffer \in Seq(Nat) /\ wire \in Seq(Nat) /\ bi \in 0 .. Len(buffer)
    BY <1>1 DEF TypeInv
  <2>1. /\ bi \in Nat /\ Len(buffer) \in Nat /\ Len(wire) \in Nat /\ wire \in Seq(Nat)
        /\ Capacity \in Nat /\ Len(buffer) - bi \in Int /\ Capacity - Len(wire) \in Int
    BY <2>0, Lengths
  <2>2. LET m == Min({Len(buffer) - bi, Capacity - Len(wire)})
        IN  m \in Int /\ m <= Len(buffer) - bi /\ m <= Capacity - Len(wire)
    BY <2>1, MinOfTwo
  <2> QED  BY <2>1, <2>2
<1>5. /\ Written \in Nat /\ Written + l <= Len(Stream)
      /\ SubSeq(buffer, bi + 1, bi + l) = Segment(Written, Written + l)
  BY <1>1, <1>2, <1>4, NextSegment
<1>6. wire' \in Seq(Nat) /\ Len(wire') = Len(wire) + l
  <2> DEFINE b == Segment(Written, Written + l)
  <2>1. Written + l \in Nat /\ Written <= Written + l /\ (Written + l) - Written = l
    BY <1>4, <1>5
  <2>2. b \in Seq(Nat) /\ Len(b) = l
    BY <1>5, <2>1, Segments
  <2>3. wire' = wire \o b
    BY <1>3, <1>5
  <2> HIDE DEF b
  <2> QED  BY <1>4, <2>2, <2>3, ConcatProperties
<1>7. TypeInv'
  BY <1>1, <1>2, <1>3, <1>4, <1>6 DEF TypeInv, receiver
<1>8. SenderInv' /\ ReceiverInv'
  BY <1>1, <1>2 DEF SenderInv, ReceiverInv, receiver
<1>9. LinkInv'
  <2> SUFFICES ASSUME rpc \in {"open", "size", "data"}, ~ wfail
               PROVE  /\ rbuf' = Segment(Start', Read')
                      /\ Read' + Len(wire') <= Len(Stream)
                      /\ wire' = Segment(Read', Read' + Len(wire'))
                      /\ Read' + Len(wire') = Written'
    BY <1>2 DEF LinkInv, receiver
  <2>1. Start' = Start /\ Read' = Read /\ rbuf' = rbuf
    BY <1>2 DEF Start, Read, receiver
  <2>2. /\ rbuf = Segment(Start, Read) /\ wire = Segment(Read, Read + Len(wire))
        /\ Read + Len(wire) = Written
    BY <1>1, <1>2 DEF LinkInv, InSendBuffer
  <2>3. Written' = Written + l
    BY <1>1, <1>2, <1>3, <1>4, Lengths DEF Written, TypeInv
  <2>4. Read \in Nat
    BY <1>1, ReadType
  <2>5. Read + Len(wire') = Written + l
    <3>1. Read + Len(wire) = Written /\ Len(wire') = Len(wire) + l /\ Len(wire) \in Nat /\ l \in Nat
      BY <1>4, <1>6, <2>2
    <3> QED  BY <2>4, <3>1
  <2>6. Segment(Read, Written) \o Segment(Written, Written + l) = Segment(Read, Written + l)
    <3>1. Read <= Written /\ Written <= Len(Stream) /\ Written + l \in Written .. Len(Stream)
      BY <1>4, <1>5, <2>2, <2>4, Lengths
    <3> QED  BY <1>5, <2>4, <3>1, Segments
  <2> QED  BY <1>3, <1>5, <2>1, <2>2, <2>3, <2>5, <2>6
<1> QED  BY <1>7, <1>8, <1>9 DEF IInv

LEMMA SendBufferFailsStep == ASSUME IInv, SendBufferFails PROVE IInv'
<1>1. TypeInv /\ SenderInv /\ ReceiverInv /\ LinkInv
  BY DEF IInv
<1>2. TypeInv'
  <2>1. /\ spc \in {"size", "chunk"} /\ bi' = 0 /\ reset' = "reported"
        /\ UNCHANGED <<sent, buffer, wire, sclosed, rclosed>> /\ UNCHANGED receiver
    BY DEF SendBufferFails, InSendBuffer
  <2>2. \/ spc' = "returned" /\ sret' = -2
        \/ spc' = spc /\ sret' = sret
    BY DEF SendBufferFails, SendReturns
  <2>3. /\ spc' \in {"open", "size", "chunk", "returned", "killed"}
        /\ sret' \in {Running, -1, -2, GetFileSize}
        /\ spc' = "returned" <=> sret' # Running
    BY <1>1, <2>1, <2>2 DEF TypeInv, Running
  <2>4. bi' \in 0 .. Len(buffer')
    BY <1>1, <2>1, Lengths DEF TypeInv
  <2> QED  BY <1>1, <2>1, <2>3, <2>4 DEF TypeInv, receiver
<1>3. SenderInv' /\ ReceiverInv'
  <2>1. /\ spc' \in {spc, "returned"} /\ reset # "none"
        /\ UNCHANGED <<sent, buffer, rclosed>> /\ UNCHANGED receiver
    BY DEF SendBufferFails, SendReturns
  <2>2. SenderInv'
    BY <1>1, <2>1 DEF SenderInv
  <2>3. ReceiverInv'
    BY <1>1, <2>1 DEF ReceiverInv, receiver
  <2> QED  BY <2>2, <2>3
<1>4. LinkInv'
  <2>1. rclosed' /\ rpc' \in {"returned", "killed"}
    BY <1>1 DEF SendBufferFails, ReceiverInv, receiver
  <2> QED  BY <2>1 DEF LinkInv
<1> QED  BY <1>2, <1>3, <1>4 DEF IInv

LEMMA SendEndsStep ==
    ASSUME IInv, SendKilled \/ SenderEnds PROVE IInv'
<1>1. TypeInv /\ SenderInv /\ ReceiverInv /\ LinkInv
  BY DEF IInv
<1>2. /\ spc' \in {spc, "killed"} /\ (spc' = "killed" => spc # "returned")
      /\ sclosed' = TRUE
      /\ UNCHANGED <<sret, sent, buffer, bi, reset, wire, rclosed>> /\ UNCHANGED receiver
      /\ spc' \in {"returned", "killed"}
  BY <1>1 DEF SendKilled, SenderEnds, InSendBuffer, TypeInv
<1>3. TypeInv'
  BY <1>1, <1>2 DEF TypeInv, receiver
<1>4. SenderInv' /\ ReceiverInv'
  BY <1>1, <1>2 DEF SenderInv, ReceiverInv, receiver
<1>5. LinkInv'
  <2>1. Start' = Start /\ Read' = Read
    BY <1>2 DEF Start, Read, receiver
  <2> QED  BY <1>1, <1>2, <2>1 DEF LinkInv, receiver
<1> QED  BY <1>3, <1>4, <1>5 DEF IInv

LEMMA NextChunkStep == ASSUME IInv, NextChunk PROVE IInv'
<1>1. TypeInv /\ SenderInv /\ ReceiverInv /\ LinkInv
  BY DEF IInv
<1> DEFINE i == sent + (IF spc = "chunk" THEN bi ELSE 0)
           z == Min({GetFileSize - i, SendChunk})
<1>2. /\ spc \in {"size", "chunk"} /\ bi = Len(buffer) /\ sent' = i
      /\ \/ /\ i < GetFileSize
            /\ spc' = "chunk" /\ buffer' = SubSeq(File, i + 1, i + z) /\ bi' = 0
            /\ UNCHANGED sret
         \/ i >= GetFileSize /\ SendReturns(GetFileSize) /\ UNCHANGED <<buffer, bi>>
      /\ UNCHANGED <<reset, wire, sclosed, rclosed>> /\ UNCHANGED receiver
  BY DEF NextChunk, network
<1>3. i \in 0 .. GetFileSize /\ SizeBytes + i = Written
  <2>1. CASE spc = "size"
    <3>1. sent = 0 /\ buffer = Size /\ bi = SizeBytes
      BY <1>1, <1>2, <2>1, Lengths DEF SenderInv
    <3> QED  BY <2>1, <3>1, Lengths DEF Written
  <2>2. CASE spc = "chunk"
    BY <1>1, <1>2, <2>2, Lengths DEF SenderInv, TypeInv, Written
  <2> QED  BY <1>2, <2>1, <2>2
<1> HIDE DEF i
<1>4. ReceiverInv'
  BY <1>1, <1>2 DEF ReceiverInv, receiver
<1>5. Start' = Start /\ Read' = Read
  BY <1>2 DEF Start, Read, receiver
<1>6. CASE i < GetFileSize /\ spc' = "chunk" /\ buffer' = SubSeq(File, i + 1, i + z) /\ bi' = 0 /\ UNCHANGED sret
  <2>1. z \in 1 .. SendChunk /\ i + z <= GetFileSize
    <3>1. GetFileSize - i \in Int /\ SendChunk \in Int /\ SendChunk >= 1 /\ GetFileSize - i >= 1
      BY <1>3, <1>6, Lengths
    <3>2. z \in {GetFileSize - i, SendChunk} /\ z <= GetFileSize - i /\ z <= SendChunk
      BY <3>1, MinOfTwo
    <3> HIDE DEF z
    <3> QED  BY <1>3, <3>1, <3>2, Lengths
  <2> HIDE DEF z
  <2>2. buffer' \in Seq(Nat) /\ Len(buffer') = z
    <3>1. i \in Nat /\ i + z \in Nat /\ i <= i + z /\ i + z <= Len(File) /\ (i + z) - i = z
      BY <1>3, <2>1, Lengths
    <3> QED  BY <1>6, <3>1, Part, Lengths
  <2>3. TypeInv'
    BY <1>1, <1>2, <1>3, <1>6, <2>1, <2>2 DEF TypeInv, receiver
  <2>4. SenderInv'
    BY <1>2, <1>6, <2>1, <2>2 DEF SenderInv
  <2>5. Written' = Written
    BY <1>2, <1>3, <1>6, Lengths DEF Written
  <2>6. LinkInv'
    BY <1>1, <1>2, <1>5, <1>6, <2>5 DEF LinkInv, receiver
  <2> QED  BY <1>4, <2>3, <2>4, <2>6 DEF IInv
<1>7. CASE i >= GetFileSize /\ SendReturns(GetFileSize) /\ UNCHANGED <<buffer, bi>>
  <2>1. spc' = "returned" /\ sret' = GetFileSize /\ sret' # Running
    BY <1>7, Lengths DEF SendReturns, Running
  <2>2. TypeInv'
    BY <1>1, <1>2, <1>3, <1>7, <2>1 DEF TypeInv, receiver
  <2>3. SenderInv'
    BY <1>1, <1>7, <2>1 DEF SenderInv
  <2>4. LinkInv'
    BY <1>1, <1>2, <1>5, <2>1 DEF LinkInv, receiver
  <2> QED  BY <1>4, <2>2, <2>3, <2>4 DEF IInv
<1> QED  BY <1>2, <1>6, <1>7

-----------------------------------------------------------------------------
(* The steps of RecvFile, which leave what SendFile has alone. *)

LEMMA SenderKept ==
    ASSUME SenderInv, UNCHANGED sender
    PROVE  SenderInv' /\ Written' = Written
BY DEF SenderInv, Written, sender

LEMMA RecvFileOpenStep == ASSUME IInv, RecvFileOpen PROVE IInv'
<1>1. TypeInv /\ SenderInv /\ ReceiverInv /\ LinkInv
  BY DEF IInv
<1>2. /\ rpc = "open" /\ UNCHANGED sender
      /\ UNCHANGED <<wire, sclosed, rclosed, reset, rbuf, got, file, wfail, cfail>>
      /\ \/ rpc' = "returned" /\ rret' = -1
         \/ rpc' = "size" /\ UNCHANGED rret
  BY DEF RecvFileOpen, RecvReturns, network
<1>3. TypeInv'
  BY <1>1, <1>2 DEF TypeInv, sender, Running
<1>4. ReceiverInv'
  <2>1. rbuf = <<>> /\ Len(<<>>) = 0
    BY <1>1, <1>2 DEF ReceiverInv
  <2>2. Len(rbuf) <= SizeBytes
    BY <2>1, Lengths
  <2>3. rret' < 0
    BY <1>1, <1>2 DEF TypeInv, Running
  <2> QED  BY <1>1, <1>2, <2>2, <2>3 DEF ReceiverInv, TypeInv
<1>5. LinkInv'
  <2>1. Start' = Start /\ Read' = Read /\ Written' = Written
    BY <1>1, <1>2, SenderKept DEF Start, Read
  <2> QED  BY <1>1, <1>2, <2>1 DEF LinkInv, sender
<1> QED  BY <1>1, <1>2, <1>3, <1>4, <1>5, SenderKept DEF IInv

LEMMA RecvBufferStep == ASSUME IInv, RecvBuffer PROVE IInv'
<1>1. TypeInv /\ SenderInv /\ ReceiverInv /\ LinkInv
  BY DEF IInv
<1>2. /\ InRecvBuffer /\ UNCHANGED sender
      /\ UNCHANGED <<sclosed, rclosed, reset, rpc, rret, got, file, wfail, cfail>>
  BY DEF RecvBuffer
<1>3. PICK l \in 1 .. Min({BufferChunk, BufferSize - Len(rbuf), Len(wire)}) :
          /\ rbuf' = rbuf \o SubSeq(wire, 1, l)
          /\ wire' = SubSeq(wire, l + 1, Len(wire))
  BY DEF RecvBuffer
<1>4. /\ rbuf \in Seq(Nat) /\ wire \in Seq(Nat) /\ got \in 0 .. GetFileSize
      /\ Len(rbuf) \in Nat /\ Len(wire) \in Nat /\ Len(wire) <= Capacity
  BY <1>1 DEF TypeInv
<1>5. /\ BufferSize \in Nat
      /\ rpc = "size" => BufferSize = SizeBytes
      /\ rpc # "size" => BufferSize <= RecvChunk /\ got + BufferSize <= GetFileSize
  <2>1. CASE rpc = "size"
    BY <2>1, Lengths DEF BufferSize
  <2>2. CASE rpc # "size"
    <3>1. GetFileSize - got \in Int /\ RecvChunk \in Int /\ GetFileSize - got >= 0 /\ RecvChunk >= 0
      BY <1>4, Lengths
    <3>2. BufferSize = Min({GetFileSize - got, RecvChunk})
      BY <2>2 DEF BufferSize
    <3>3. BufferSize \in {GetFileSize - got, RecvChunk} /\ BufferSize <= GetFileSize - got /\ BufferSize <= RecvChunk
      BY <3>1, <3>2, MinOfTwo
    <3> QED  BY <1>4, <2>2, <3>1, <3>3, Lengths
  <2> QED  BY <2>1, <2>2
<1>6. l \in Nat /\ l >= 1 /\ l <= Len(wire) /\ Len(rbuf) + l <= BufferSize
  <2> DEFINE z == Min({BufferChunk, BufferSize - Len(rbuf), Len(wire)})
  <2>1. BufferChunk \in Int /\ BufferSize - Len(rbuf) \in Int /\ Len(wire) \in Int
    BY <1>4, <1>5, Lengths
  <2>2. z \in {BufferChunk, BufferSize - Len(rbuf), Len(wire)} /\ z <= BufferSize - Len(rbuf) /\ z <= Len(wire)
    BY <2>1, MinOfThree
  <2>3. l \in 1 .. z
    OBVIOUS
  <2> HIDE DEF z
  <2> QED  BY <1>4, <1>5, <2>1, <2>2, <2>3
<1>7. /\ SubSeq(wire, 1, l) \in Seq(Nat) /\ Len(SubSeq(wire, 1, l)) = l
      /\ wire' \in Seq(Nat) /\ Len(wire') = Len(wire) - l
  <2>1. 0 + 1 = 1 /\ 0 <= l
    BY <1>6
  <2>2. SubSeq(wire, 0 + 1, l) \in Seq(Nat) /\ Len(SubSeq(wire, 0 + 1, l)) = l - 0
    BY <1>4, <1>6, <2>1, Part
  <2>3. SubSeq(wire, l + 1, Len(wire)) \in Seq(Nat) /\ Len(SubSeq(wire, l + 1, Len(wire))) = Len(wire) - l
    BY <1>4, <1>6, Part
  <2> QED  BY <1>3, <1>6, <2>1, <2>2, <2>3
<1>8. rbuf' \in Seq(Nat) /\ Len(rbuf') = Len(rbuf) + l
  BY <1>3, <1>4, <1>7, ConcatProperties
<1>9. TypeInv'
  BY <1>1, <1>2, <1>4, <1>6, <1>7, <1>8, Lengths DEF TypeInv, sender
<1>10. ReceiverInv'
  <2>1. /\ rpc \in {"size", "data"} /\ rpc' = rpc /\ Len(rbuf') <= BufferSize
    BY <1>2, <1>6, <1>8 DEF InRecvBuffer
  <2>2. rpc = "size" => Len(rbuf') <= SizeBytes
    BY <1>5, <2>1
  <2>3. rpc = "data" => Len(rbuf') <= RecvChunk /\ got + Len(rbuf') <= GetFileSize
    <3>1. ASSUME rpc = "data" PROVE BufferSize <= RecvChunk /\ got + BufferSize <= GetFileSize
      BY <1>5, <3>1
    <3>2. Len(rbuf') \in Nat /\ got \in Nat /\ RecvChunk \in Nat /\ GetFileSize \in Nat /\ BufferSize \in Nat
      BY <1>4, <1>5, <1>6, <1>8, Sizes
    <3> QED  BY <2>1, <3>1, <3>2
  <2> QED  BY <1>1, <1>2, <2>1, <2>2, <2>3 DEF ReceiverInv
<1>11. LinkInv'
  <2> SUFFICES ASSUME rpc \in {"open", "size", "data"}, ~ wfail
               PROVE  /\ rbuf' = Segment(Start', Read')
                      /\ Read' + Len(wire') <= Len(Stream)
                      /\ wire' = Segment(Read', Read' + Len(wire'))
                      /\ spc' \in {"open", "size", "chunk"} => Read' + Len(wire') = Written'
    BY <1>2 DEF LinkInv
  <2>1. /\ rbuf = Segment(Start, Read) /\ wire = Segment(Read, Read + Len(wire))
        /\ Read + Len(wire) <= Len(Stream)
        /\ spc \in {"open", "size", "chunk"} => Read + Len(wire) = Written
    BY <1>1 DEF LinkInv
  <2>2. Start' = Start /\ Written' = Written /\ spc' = spc
    BY <1>1, <1>2, SenderKept DEF Start, sender
  <2>3. Start \in Nat /\ Read \in Nat /\ Start <= Read /\ Read = Start + Len(rbuf)
    BY <1>1, <1>4, ReadType DEF Read
  <2>4. Read' = Read + l
    BY <1>4, <1>6, <1>8, <2>2, <2>3 DEF Read
  <2>5. Read' + Len(wire') = Read + Len(wire)
    BY <1>4, <1>6, <1>7, <2>3, <2>4
  <2> DEFINE e == Read + Len(wire)
  <2>6. e \in Nat /\ Read <= e /\ e <= Len(Stream) /\ l \in 0 .. e - Read /\ e - Read = Len(wire)
        /\ Read + l \in Nat /\ Read + l <= Len(Stream) /\ Len(Stream) \in Nat
    <3>1. Len(Stream) \in Nat /\ Read + Len(wire) <= Len(Stream) /\ Len(wire) \in Nat
      BY <1>4, <2>1, Lengths
    <3> QED  BY <1>6, <2>3, <3>1
  <2>7. wire = Segment(Read, e)
    BY <2>1
  <2> HIDE DEF e
  <2>8. SubSeq(wire, 1, l) = Segment(Read, Read + l) /\ wire' = Segment(Read + l, e)
    <3>1. /\ SubSeq(Segment(Read, e), 1, l) = Segment(Read, Read + l)
          /\ SubSeq(Segment(Read, e), l + 1, e - Read) = Segment(Read + l, e)
      BY <2>3, <2>6, Segments
    <3> QED  BY <1>3, <2>6, <2>7, <3>1
  <2>9. Segment(Start, Read) \o Segment(Read, Read + l) = Segment(Start, Read + l)
    <3>1. Read <= Len(Stream) /\ Read + l \in Read .. Len(Stream)
      BY <1>6, <2>3, <2>6
    <3> QED  BY <2>3, <3>1, Segments
  <2> QED  BY <1>3, <2>1, <2>2, <2>4, <2>5, <2>8, <2>9 DEF e
<1> QED  BY <1>1, <1>2, <1>9, <1>10, <1>11, SenderKept DEF IInv

LEMMA RecvSizeStep == ASSUME IInv, RecvSize PROVE IInv'
<1>1. TypeInv /\ SenderInv /\ ReceiverInv /\ LinkInv
  BY DEF IInv
<1>2. /\ rpc = "size" /\ rbuf' = <<>> /\ UNCHANGED sender
      /\ UNCHANGED <<wire, sclosed, rclosed, reset, got, file, wfail, cfail>>
      /\ \/ rpc' = "returned" /\ rret' = -2
         \/ Len(rbuf) = SizeBytes /\ rpc' = "data" /\ UNCHANGED rret
  BY DEF RecvSize, RecvReturns, network
<1>3. Len(rbuf') = 0 /\ rbuf' \in Seq(Nat)
  BY <1>2, EmptySeq
<1>4. TypeInv'
  BY <1>1, <1>2, <1>3 DEF TypeInv, sender, Running
<1>5. got = 0 /\ file = <<>> /\ ~ wfail
  BY <1>1, <1>2 DEF ReceiverInv
<1>6. ReceiverInv'
  <2>1. Len(file) = 0 /\ Len(<<>>) = 0
    BY <1>5
  <2>2. rret' < 0
    BY <1>1, <1>2 DEF TypeInv, Running
  <2> QED  BY <1>1, <1>2, <1>3, <1>5, <2>1, <2>2, Lengths DEF ReceiverInv, TypeInv
<1>7. LinkInv'
  <2>1. CASE rpc' = "returned"
    BY <2>1 DEF LinkInv
  <2>2. CASE Len(rbuf) = SizeBytes /\ rpc' = "data"
    <3>1. Start' = SizeBytes /\ Read' = SizeBytes /\ Read = SizeBytes /\ Written' = Written /\ spc' = spc
      BY <1>1, <1>2, <1>3, <1>5, <2>2, Lengths, SenderKept DEF Start, Read, sender
    <3>2. Segment(SizeBytes, SizeBytes) = <<>>
      BY Lengths, Segments
    <3> QED  BY <1>1, <1>2, <3>1, <3>2, <1>5 DEF LinkInv
  <2> QED  BY <1>2, <2>1, <2>2
<1> QED  BY <1>1, <1>2, <1>4, <1>6, <1>7, SenderKept DEF IInv

\* What a write adds to the file is the next part of it.
LEMMA NextPart ==
    ASSUME TypeInv, ReceiverInv, LinkInv, rpc = "data", ~ wfail, NEW n \in 0 .. Len(rbuf)
    PROVE  /\ file \o SubSeq(rbuf, 1, n) = SubSeq(File, 1, got + n)
           /\ SubSeq(File, 1, got + n) \in Seq(Nat) /\ Len(SubSeq(File, 1, got + n)) = got + n
           /\ got + n <= GetFileSize
<1>1. /\ rbuf \in Seq(Nat) /\ got \in Nat /\ Len(rbuf) \in Nat /\ got + Len(rbuf) <= Len(File)
      /\ file = SubSeq(File, 1, got) /\ n \in Nat
  <2>1. rbuf \in Seq(Nat) /\ got \in 0 .. Len(File) /\ got + Len(rbuf) <= Len(File)
    BY Sizes DEF TypeInv, ReceiverInv
  <2>2. file = SubSeq(File, 1, got)
    BY DEF ReceiverInv
  <2> QED  BY <2>1, <2>2
<1>2. rbuf = Segment(SizeBytes + got, SizeBytes + (got + Len(rbuf)))
  <2>1. Start = SizeBytes + got /\ Read = SizeBytes + (got + Len(rbuf))
    BY <1>1, Lengths DEF Start, Read
  <2> QED  BY <2>1 DEF LinkInv
<1>3. rbuf = SubSeq(File, got + 1, got + Len(rbuf))
  <2>1. got + Len(rbuf) \in Nat /\ got <= got + Len(rbuf)
    BY <1>1
  <2> QED  BY <1>1, <1>2, <2>1, FileSegment
<1> DEFINE e == got + Len(rbuf)
<1>4. e \in Nat /\ got <= e /\ e <= Len(File) /\ n <= e - got /\ File \in Seq(Nat)
  BY <1>1, Lengths
<1>5. rbuf = SubSeq(File, got + 1, e)
  BY <1>3
<1> HIDE DEF e
<1>6. SubSeq(rbuf, 0 + 1, n) = SubSeq(File, (got + 0) + 1, got + n)
  BY <1>1, <1>4, <1>5, PartOfPart
<1>7. SubSeq(rbuf, 1, n) = SubSeq(File, got + 1, got + n)
  BY <1>1, <1>6
<1>8. got + n \in Nat /\ 0 <= got /\ got <= got + n /\ got + n <= Len(File)
  BY <1>1, <1>4
<1>9. SubSeq(File, 0 + 1, got) \o SubSeq(File, got + 1, got + n) = SubSeq(File, 0 + 1, got + n)
  <2>1. got \in Nat /\ 0 \in Nat /\ File \in Seq(Nat)
    BY <1>1, <1>4
  <2> QED  BY <1>8, <2>1, Joined
<1>10. /\ SubSeq(File, 0 + 1, got + n) \in Seq(Nat)
       /\ Len(SubSeq(File, 0 + 1, got + n)) = (got + n) - 0
  BY <1>4, <1>8, Part
<1>11. 0 + 1 = 1 /\ (got + n) - 0 = got + n
  BY <1>8
<1>12. got + n <= GetFileSize
  BY <1>8, Sizes
<1>13. file \o SubSeq(rbuf, 1, n) = SubSeq(File, 1, got + n)
  BY <1>1, <1>7, <1>9, <1>11
<1> QED  BY <1>10, <1>11, <1>12, <1>13

LEMMA WriteBufferStep == ASSUME IInv, WriteBuffer PROVE IInv'
<1>1. TypeInv /\ SenderInv /\ ReceiverInv /\ LinkInv
  BY DEF IInv
<1>2. /\ rpc = "data" /\ RecvBufferEnds /\ rbuf' = <<>> /\ UNCHANGED sender
      /\ UNCHANGED <<wire, sclosed, rclosed, reset, rpc, rret, cfail>>
  BY DEF WriteBuffer, network
<1>3. Len(rbuf') = 0 /\ rbuf' \in Seq(Nat)
  BY <1>2, EmptySeq
<1>4. rret < 0 /\ got < GetFileSize /\ got \in Nat /\ Len(rbuf) \in Nat
  BY <1>1, <1>2, Lengths DEF TypeInv, Running, RecvBufferEnds, InRecvBuffer
<1>5. ASSUME NEW k \in 0 .. GetFileSize, file' = SubSeq(File, 1, k),
             file' \in Seq(Nat), Len(file') = k,
             wfail' \in BOOLEAN, got' \in 0 .. GetFileSize,
             IF wfail' THEN got' < GetFileSize ELSE k = got'
      PROVE  TypeInv' /\ ReceiverInv'
  <2>1. TypeInv'
    BY <1>1, <1>2, <1>3, <1>5 DEF TypeInv, sender
  <2>2. Len(rbuf') <= SizeBytes /\ Len(rbuf') <= RecvChunk /\ got' + Len(rbuf') <= GetFileSize
    BY <1>3, <1>5, Sizes
  <2>3. k <= GetFileSize /\ file' = SubSeq(File, 1, Len(file')) /\ rret' = rret
    BY <1>2, <1>5, Sizes
  <2>4. ~ (rret' >= 0)
    BY <1>1, <1>4, <2>3 DEF TypeInv, Running
  <2>5. rpc' = "data" /\ rclosed' = rclosed /\ reset' = reset /\ ~ rclosed /\ reset = "none"
    BY <1>1, <1>2 DEF ReceiverInv
  <2>6. Len(file') <= GetFileSize /\ (IF wfail' THEN got' < GetFileSize ELSE Len(file') = got')
    BY <1>5, <2>3
  <2>7. rpc' \notin {"open", "size"} /\ rpc' # "open" /\ rpc' # "size"
    BY <2>5
  <2> QED  BY <2>1, <2>2, <2>3, <2>4, <2>5, <2>6, <2>7 DEF ReceiverInv
<1>6. CASE ~ wfail /\ file' = file \o rbuf /\ got' = got + Len(rbuf) /\ UNCHANGED wfail
  <2> DEFINE n == Len(rbuf)
  <2>1. rbuf = SubSeq(rbuf, 1, n) /\ n \in 0 .. Len(rbuf)
    BY <1>1, <1>4, SubSeqFull DEF TypeInv
  <2>2. /\ file' = SubSeq(File, 1, got') /\ file' \in Seq(Nat) /\ Len(file') = got'
        /\ got' <= GetFileSize
    BY <1>1, <1>2, <1>6, <2>1, NextPart
  <2>3. TypeInv' /\ ReceiverInv'
    <3>1. got' \in 0 .. GetFileSize
      BY <1>4, <1>6, <2>2, Sizes
    <3>2. wfail' \in BOOLEAN /\ ~ wfail'
      BY <1>1, <1>6 DEF TypeInv
    <3> QED  BY <1>5, <2>2, <3>1, <3>2
  <2>4. LinkInv'
    <3>1. /\ Start' = Read /\ Read' = Read /\ Written' = Written /\ spc' = spc /\ Read \in Nat
      BY <1>1, <1>2, <1>3, <1>4, <1>6, Lengths, ReadType, SenderKept DEF Start, Read, sender
    <3>2. Read <= Len(Stream)
      BY <1>1, <1>2, <1>6, <3>1, Lengths DEF LinkInv, TypeInv
    <3>3. Segment(Read, Read) = <<>>
      BY <3>1, <3>2, Segments
    <3> QED  BY <1>1, <1>2, <1>6, <3>1, <3>3 DEF LinkInv
  <2> QED  BY <1>1, <1>2, <2>3, <2>4, SenderKept DEF IInv
<1>7. ASSUME NEW n \in 0 .. (IF wfail THEN 0 ELSE Len(rbuf) - 1),
             wfail' = TRUE, file' = file \o SubSeq(rbuf, 1, n), UNCHANGED got
      PROVE  IInv'
  <2>1. CASE wfail
    <3>1. SubSeq(rbuf, 1, n) = <<>> /\ file \in Seq(Nat)
      BY <1>1, <2>1, SubSeqEmpty DEF TypeInv
    <3>2. file' = file
      BY <1>7, <3>1, ConcatEmptySeq
    <3>3. /\ Len(file) \in 0 .. GetFileSize /\ file = SubSeq(File, 1, Len(file))
      <4>1. file \in Seq(Nat) /\ Len(file) <= GetFileSize /\ file = SubSeq(File, 1, Len(file))
        BY <1>1 DEF TypeInv, ReceiverInv
      <4> QED  BY <4>1, Sizes
    <3>4. TypeInv' /\ ReceiverInv'
      BY <1>1, <1>4, <1>5, <1>7, <3>1, <3>2, <3>3 DEF TypeInv
    <3> QED  BY <1>1, <1>2, <1>7, <3>4, SenderKept DEF IInv, LinkInv
  <2>2. CASE ~ wfail
    <3>1. n \in 0 .. Len(rbuf) /\ n \in Nat
      BY <1>4, <2>2
    <3>2. /\ file' = SubSeq(File, 1, got + n) /\ file' \in Seq(Nat) /\ Len(file') = got + n
          /\ got + n <= GetFileSize
      BY <1>1, <1>2, <1>7, <2>2, <3>1, NextPart
    <3>3. got + n \in 0 .. GetFileSize
      BY <1>4, <3>1, <3>2, Lengths
    <3>4. TypeInv' /\ ReceiverInv'
      BY <1>1, <1>4, <1>5, <1>7, <3>2, <3>3 DEF TypeInv
    <3> QED  BY <1>1, <1>2, <1>7, <3>4, SenderKept DEF IInv, LinkInv
  <2> QED  BY <2>1, <2>2
<1> QED  BY <1>6, <1>7 DEF WriteBuffer

LEMMA RecvFileReturnsStep == ASSUME IInv, RecvFileReturns PROVE IInv'
<1>1. TypeInv /\ SenderInv /\ ReceiverInv /\ LinkInv
  BY DEF IInv
<1>2. /\ rpc = "data" /\ rpc' = "returned" /\ UNCHANGED sender
      /\ UNCHANGED <<wire, sclosed, rclosed, reset, rbuf, got, wfail>>
      /\ (rret' = GetFileSize /\ got >= GetFileSize) \/ rret' = -3
  BY DEF RecvFileReturns, RecvReturns, network
<1>3. PICK lost \in 0 .. Min({StreamBuffer, Len(file)}) :
          file' = SubSeq(file, 1, Len(file) - lost) /\ cfail' = (lost > 0)
  BY DEF RecvFileReturns
<1>4. /\ file \in Seq(Nat) /\ Len(file) \in Nat /\ Len(file) <= Len(File) /\ got \in 0 .. Len(File)
      /\ file = SubSeq(File, 1, Len(file)) /\ File \in Seq(Nat) /\ GetFileSize = Len(File)
  <2>1. file \in Seq(Nat) /\ got \in 0 .. GetFileSize
    BY <1>1 DEF TypeInv
  <2>2. Len(file) <= GetFileSize /\ file = SubSeq(File, 1, Len(file))
    BY <1>1 DEF ReceiverInv
  <2>3. File \in Seq(Nat) /\ GetFileSize = Len(File)
    BY Lengths
  <2> QED  BY <2>1, <2>2, <2>3
<1> DEFINE k == Len(file) - lost
<1>5. lost \in Nat /\ k \in Nat /\ k <= Len(file)
  <2> DEFINE z == Min({StreamBuffer, Len(file)})
  <2>1. StreamBuffer \in Int /\ Len(file) \in Int /\ Len(file) \in Nat
    BY <1>4, Sizes
  <2>2. z \in {StreamBuffer, Len(file)} /\ z <= Len(file)
    BY <2>1, MinOfTwo
  <2>3. lost \in 0 .. z
    OBVIOUS
  <2> HIDE DEF z
  <2>4. lost \in Int /\ 0 <= lost /\ lost <= z /\ z \in Int
    BY <2>1, <2>2, <2>3, Sizes
  <2> QED  BY <2>1, <2>2, <2>4
<1>6. file' = SubSeq(file, 1, k)
  BY <1>3
<1>7. file' = SubSeq(File, 1, k) /\ file' \in Seq(Nat) /\ Len(file') = k
  <2> DEFINE e == Len(file)
  <2>1. e \in Nat /\ 0 <= e /\ e <= Len(File) /\ file = SubSeq(File, 0 + 1, e) /\ 0 <= k /\ k <= e - 0
    BY <1>4, <1>5
  <2>2. file' = SubSeq(file, 0 + 1, k)
    BY <1>6
  <2> HIDE DEF e, k
  <2>3. SubSeq(SubSeq(File, 0 + 1, e), 0 + 1, k) = SubSeq(File, (0 + 0) + 1, 0 + k)
    BY <1>4, <1>5, <2>1, PartOfPart
  <2>4. k <= Len(File)
    BY <1>4, <1>5
  <2>5. SubSeq(File, 0 + 1, k) \in Seq(Nat) /\ Len(SubSeq(File, 0 + 1, k)) = k - 0
    BY <1>4, <1>5, <2>1, <2>4, Part
  <2> QED  BY <1>5, <2>1, <2>2, <2>3, <2>5
<1>8. TypeInv'
  <2>1. rret' \in {-3, GetFileSize} /\ rret' # Running
    BY <1>2, Sizes DEF Running
  <2>2. cfail' \in BOOLEAN /\ file' \in Seq(Nat)
    BY <1>3, <1>7
  <2> QED  BY <1>1, <1>2, <2>1, <2>2 DEF TypeInv, sender
<1>9. rret' >= 0 => file' = File \/ cfail'
  <2>1. ASSUME lost # 0 PROVE cfail'
    <3>1. lost > 0
      BY <1>5, <2>1
    <3> QED  BY <1>3, <3>1
  <2>2. ASSUME rret' >= 0, lost = 0 PROVE file' = File
    <3>1. got >= GetFileSize
      BY <1>2, <2>2
    <3>2. ~ (got < GetFileSize)
      BY <1>4, <3>1
    <3>3. Len(file) = got
      BY <1>1, <1>2, <3>2 DEF ReceiverInv
    <3>4. k = Len(File)
      BY <1>4, <2>2, <3>1, <3>3
    <3> HIDE DEF k
    <3> QED  BY <1>4, <1>7, <3>4, SubSeqFull
  <2> QED  BY <2>1, <2>2
<1>10. ReceiverInv'
  <2>1. k <= GetFileSize
    BY <1>4, <1>5
  <2> HIDE DEF k
  <2> QED  BY <1>1, <1>2, <1>7, <1>9, <2>1 DEF ReceiverInv
<1>11. LinkInv'
  BY <1>2 DEF LinkInv
<1> QED  BY <1>1, <1>2, <1>8, <1>10, <1>11, SenderKept DEF IInv

LEMMA ReceiverEndsStep == ASSUME IInv, ReceiverEnds PROVE IInv'
<1>1. TypeInv /\ SenderInv /\ ReceiverInv /\ LinkInv
  BY DEF IInv
<1>2. /\ rclosed' = TRUE /\ UNCHANGED sender
      /\ rpc' = (IF rpc = "returned" THEN rpc ELSE "killed")
      /\ UNCHANGED <<wire, sclosed, reset, rret, rbuf, got, file, wfail, cfail>>
  BY DEF ReceiverEnds
<1>3. TypeInv'
  BY <1>1, <1>2 DEF TypeInv, sender
<1>4. ReceiverInv' /\ LinkInv'
  BY <1>1, <1>2 DEF ReceiverInv, LinkInv
<1> QED  BY <1>1, <1>2, <1>3, <1>4, SenderKept DEF IInv

\* A reset comes only when RecvFile is over.
LEMMA ResetArrivesStep == ASSUME IInv, ResetArrives PROVE IInv'
<1>1. TypeInv /\ SenderInv /\ ReceiverInv
  BY DEF IInv
<1>2. /\ rclosed /\ wire' = <<>> /\ reset' = "arrived"
      /\ UNCHANGED <<sclosed, rclosed>> /\ UNCHANGED sender /\ UNCHANGED receiver
  BY DEF ResetArrives
<1>3. wire' \in Seq(Nat) /\ Len(wire') <= Capacity
  BY <1>2, EmptySeq, Lengths
<1>4. TypeInv'
  BY <1>1, <1>2, <1>3 DEF TypeInv, sender, receiver
<1>5. ReceiverInv' /\ LinkInv'
  BY <1>1, <1>2 DEF ReceiverInv, LinkInv, receiver
<1> QED  BY <1>1, <1>2, <1>4, <1>5, SenderKept DEF IInv

-----------------------------------------------------------------------------
(* The theorems. *)

\* Every step of either end keeps each buffer on its segment of the stream.
LEMMA Step == IInv /\ [Next]_vars => IInv'
<1> SUFFICES ASSUME IInv, [Next]_vars PROVE IInv'
  OBVIOUS
<1>1. CASE UNCHANGED vars
  <2>1. /\ Start' = Start /\ Read' = Read /\ Written' = Written
        /\ UNCHANGED <<wire, sclosed, rclosed, reset>> /\ UNCHANGED sender /\ UNCHANGED receiver
    BY <1>1 DEF vars, network, Start, Read, Written, sender, receiver
  <2>2. TypeInv' /\ SenderInv'
    BY <2>1 DEF IInv, TypeInv, SenderInv, sender, receiver
  <2>3. ReceiverInv' /\ LinkInv'
    BY <2>1 DEF IInv, ReceiverInv, LinkInv, sender, receiver
  <2> QED  BY <2>2, <2>3 DEF IInv
<1>2. CASE SendFile
  BY <1>2, SendFileOpenStep, SendBufferStep, SendBufferFailsStep, SendEndsStep, NextChunkStep
     DEF SendFile
<1>3. CASE RecvFile
  BY <1>3, RecvFileOpenStep, RecvBufferStep, RecvSizeStep, WriteBufferStep, RecvFileReturnsStep
     DEF RecvFile
<1>4. CASE SenderEnds \/ ReceiverEnds \/ ResetArrives
  BY <1>4, SendEndsStep, ReceiverEndsStep, ResetArrivesStep
<1> QED  BY <1>1, <1>2, <1>3, <1>4 DEF Next, Terminated

LEMMA TransferInv == Spec => []IInv
BY InitInv, Step, PTL DEF Spec

\* Buffers and the connection hold no more than there is room for, positions are
\* within the file, whatever the chunks of the two ends (SendBuffer, RecvBuffer).
THEOREM TransferTypeCorrect == Spec => []TypeOK
<1>1. IInv => TypeOK
  <2> SUFFICES ASSUME IInv PROVE TypeOK
    OBVIOUS
  <2>1. Len(buffer) <= Max({SizeBytes, SendChunk})
    <3>1. Len(buffer) <= SizeBytes \/ Len(buffer) <= SendChunk
      BY DEF IInv, SenderInv
    <3>2. Len(buffer) \in Nat /\ SizeBytes \in Int /\ SendChunk \in Int
      BY Sizes DEF IInv, TypeInv
    <3>3. LET m == Max({SizeBytes, SendChunk})
          IN  m \in {SizeBytes, SendChunk} /\ SizeBytes <= m /\ SendChunk <= m
      BY <3>2, MaxOfTwo
    <3> QED  BY <3>1, <3>2, <3>3
  <2>2. Len(rbuf) <= Max({SizeBytes, RecvChunk})
    <3>1. Len(rbuf) <= SizeBytes \/ Len(rbuf) <= RecvChunk
      BY DEF IInv, ReceiverInv
    <3>2. Len(rbuf) \in Nat /\ SizeBytes \in Int /\ RecvChunk \in Int
      BY Sizes DEF IInv, TypeInv
    <3>3. LET m == Max({SizeBytes, RecvChunk})
          IN  m \in {SizeBytes, RecvChunk} /\ SizeBytes <= m /\ RecvChunk <= m
      BY <3>2, MaxOfTwo
    <3> QED  BY <3>1, <3>2, <3>3
  <2> QED  BY <2>1, <2>2 DEF IInv, TypeInv, TypeOK
<1> QED  BY <1>1, TransferInv, PTL

\* The size and the first k bytes of the file are a segment.
LEMMA SizeAndFile ==
    ASSUME NEW k \in 0 .. Len(File)
    PROVE  Size \o SubSeq(File, 1, k) = Segment(0, SizeBytes + k)
<1>1. k \in Nat /\ 0 <= k /\ k <= Len(File) /\ SizeBytes \in Nat /\ 0 <= SizeBytes
      /\ SizeBytes <= Len(Stream) /\ SizeBytes + k \in SizeBytes .. Len(Stream) /\ 0 + 1 = 1
      /\ SizeBytes + 0 = SizeBytes
  BY Lengths
<1>2. SubSeq(File, 0 + 1, k) = Segment(SizeBytes + 0, SizeBytes + k)
  BY <1>1, FileSegment
<1>3. SubSeq(Size, 0 + 1, SizeBytes) = Segment(0, SizeBytes)
  BY <1>1, SizeSegment
<1>4. Size = SubSeq(Size, 1, SizeBytes)
  BY Lengths, SubSeqFull
<1>5. Segment(0, SizeBytes) \o Segment(SizeBytes, SizeBytes + k) = Segment(0, SizeBytes + k)
  BY <1>1, Segments
<1> QED  BY <1>1, <1>2, <1>3, <1>4, <1>5

\* Partial sends and reads lose and repeat nothing (SendBuffer, RecvBuffer).
THEOREM NothingLostHolds == Spec => []NothingLost
<1>1. IInv => NothingLost
  <2> SUFFICES ASSUME IInv, spc \in {"size", "chunk"}, rpc \in {"size", "data"}, ~ rclosed, ~ wfail
               PROVE  SentSoFar = (IF rpc = "size" THEN <<>> ELSE Size) \o file \o rbuf \o wire
    BY DEF NothingLost
  <2>1. /\ rbuf = Segment(Start, Read) /\ wire = Segment(Read, Written)
        /\ Read + Len(wire) = Written /\ Written <= Len(Stream)
    BY DEF IInv, LinkInv
  <2>2. /\ Start \in Nat /\ Read \in Nat /\ Start <= Read /\ Read <= Written /\ Written \in Nat
    <3>1. Start \in Nat /\ Read \in Nat
      BY ReadType DEF IInv
    <3>2. Len(rbuf) \in Nat /\ Len(wire) \in Nat
      BY DEF IInv, TypeInv
    <3>3. Start <= Read
      BY <3>1, <3>2 DEF Read
    <3> QED  BY <2>1, <3>1, <3>2, <3>3
  <2>3. SentSoFar = Segment(0, Written)
    <3>1. CASE spc = "size"
      <4>1. bi \in Nat /\ 0 <= bi /\ bi <= SizeBytes /\ 0 + 1 = 1
        BY <3>1, Lengths DEF IInv, TypeInv, SenderInv
      <4>2. SubSeq(Size, 0 + 1, bi) = Segment(0, bi)
        BY <4>1, SizeSegment
      <4> QED  BY <3>1, <4>1, <4>2 DEF SentSoFar, Written
    <3>2. CASE spc = "chunk"
      <4>1. sent + bi \in 0 .. Len(File) /\ SizeBytes + (sent + bi) = Written
        <5>1. /\ sent \in 0 .. Len(File) /\ bi \in 0 .. Len(buffer) /\ Len(buffer) \in Nat
              /\ sent + Len(buffer) <= Len(File)
          BY <3>2, Sizes DEF IInv, TypeInv, SenderInv
        <5> QED  BY <3>2, <5>1, Sizes DEF Written
      <4>2. Size \o SubSeq(File, 1, sent + bi) = Segment(0, SizeBytes + (sent + bi))
        BY <4>1, SizeAndFile
      <4> QED  BY <3>2, <4>1, <4>2 DEF SentSoFar
    <3> QED  BY <3>1, <3>2
  <2>4. (IF rpc = "size" THEN <<>> ELSE Size) \o file = Segment(0, Start)
    <3>1. CASE rpc = "size"
      <4>1. file = <<>> /\ Start = 0
        BY <3>1 DEF IInv, ReceiverInv, Start
      <4>2. <<>> \o <<>> = <<>>
        BY EmptySeq, ConcatEmptySeq
      <4>3. Segment(0, 0) = <<>>
        BY SubSeqEmpty DEF Segment
      <4> QED  BY <3>1, <4>1, <4>2, <4>3
    <3>2. CASE rpc = "data"
      <4>1. got \in 0 .. Len(File) /\ Start = SizeBytes + got
        BY <3>2, Sizes DEF IInv, TypeInv, Start
      <4>2. file = SubSeq(File, 1, got)
        BY <3>2 DEF IInv, ReceiverInv
      <4> QED  BY <3>2, <4>1, <4>2, SizeAndFile
    <3> QED  BY <3>1, <3>2
  <2>5. Segment(0, Start) \o Segment(Start, Read) = Segment(0, Read)
    <3>1. Start <= Len(Stream) /\ Read \in Start .. Len(Stream) /\ 0 <= Start
      BY <2>1, <2>2, Lengths
    <3> QED  BY <2>2, <3>1, Segments
  <2>6. Segment(0, Read) \o Segment(Read, Written) = Segment(0, Written)
    <3>1. Read <= Len(Stream) /\ Written \in Read .. Len(Stream) /\ 0 <= Read
      BY <2>1, <2>2, Lengths
    <3> QED  BY <2>2, <3>1, Segments
  <2> QED  BY <2>1, <2>3, <2>4, <2>5, <2>6
<1> QED  BY <1>1, TransferInv, PTL

\* What is written is a beginning of the file, whatever fails (RecvFile).
THEOREM WrittenIsPrefixHolds == Spec => []WrittenIsPrefix
<1>1. IInv => WrittenIsPrefix
  <2> SUFFICES ASSUME IInv PROVE IsPrefix(file, File)
    BY DEF WrittenIsPrefix
  <2>1. file \in Seq(Nat) /\ Len(file) <= Len(File) /\ file = SubSeq(File, 1, Len(file))
    BY Sizes DEF IInv, TypeInv, ReceiverInv
  <2>2. SubSeq(file, 1, Len(file)) = file
    BY <2>1, SubSeqFull
  <2> QED  BY <2>1, <2>2 DEF IsPrefix
<1> QED  BY <1>1, TransferInv, PTL

\* RecvFile returns a size for the whole file only, but for a failure of close.
THEOREM SuccessIsWholeHolds == Spec => []SuccessIsWhole
<1>1. IInv => SuccessIsWhole
  BY DEF IInv, ReceiverInv, SuccessIsWhole
<1> QED  BY <1>1, TransferInv, PTL

\* SendFile never returns the size once a reset is back with bytes to be sent: no
\* send succeeds any more, so it is still sending, has failed, or has been killed.
THEOREM NoSuccessAfterResetHolds == Spec => NoSuccessAfterReset
<1> DEFINE A == reset # "none" /\ InSendBuffer
           B == sret # GetFileSize
           J == reset # "none" /\ (InSendBuffer \/ spc = "killed" \/ sret = -2)
<1>1. IInv /\ A => J
  OBVIOUS
<1>2. IInv /\ J => B
  BY Sizes DEF IInv, TypeInv, InSendBuffer, Running
<1>3. IInv /\ J /\ [Next]_vars => J'
  <2> SUFFICES ASSUME IInv, J, [Next]_vars PROVE J'
    OBVIOUS
  <2>1. TypeInv /\ reset # "none"
    BY DEF IInv
  <2>2. reset' # "none" /\ (UNCHANGED sender \/ SendFile \/ SenderEnds)
    <3>1. ASSUME SendFile \/ SenderEnds PROVE reset' # "none"
      BY <2>1, <3>1 DEF SendFile, SenderEnds, SendFileOpen, SendBuffer, SendBufferFails, SendKilled,
                        NextChunk, network
    <3>2. ASSUME RecvFile \/ ReceiverEnds PROVE UNCHANGED sender /\ reset' = reset
      BY <3>2 DEF RecvFile, RecvFileOpen, RecvBuffer, RecvSize, WriteBuffer, RecvFileReturns,
                  ReceiverEnds, network
    <3>3. ASSUME ResetArrives PROVE UNCHANGED sender /\ reset' = "arrived"
      BY <3>3 DEF ResetArrives
    <3>4. ASSUME UNCHANGED vars PROVE UNCHANGED sender /\ reset' = reset
      BY <3>4 DEF vars, network
    <3> QED  BY <2>1, <3>1, <3>2, <3>3, <3>4 DEF Next, Terminated
  <2>3. CASE UNCHANGED sender
    BY <2>2, <2>3 DEF sender, InSendBuffer
  <2>4. CASE SendFile
    <3>1. /\ ~ SendBuffer
          /\ SendFileOpen => spc = "open"
          /\ NextChunk => spc \in {"size", "chunk"} /\ bi = Len(buffer)
          /\ SendBufferFails \/ SendKilled => InSendBuffer
      BY <2>1 DEF SendBuffer, SendFileOpen, NextChunk, SendBufferFails, SendKilled
    <3>2. bi \in Nat /\ Len(buffer) \in Nat /\ (InSendBuffer => bi < Len(buffer))
      BY <2>1 DEF TypeInv, InSendBuffer
    <3>3. InSendBuffer /\ (SendBufferFails \/ SendKilled)
      <4>1. sret = -2 => spc = "returned"
        BY <2>1 DEF TypeInv, Running
      <4>2. InSendBuffer => spc \in {"size", "chunk"} /\ bi # Len(buffer)
        BY <3>2 DEF InSendBuffer
      <4> QED  BY <2>4, <3>1, <4>1, <4>2 DEF SendFile
    <3>4. CASE SendBufferFails
      BY <2>2, <3>2, <3>3, <3>4 DEF SendBufferFails, SendReturns, InSendBuffer
    <3>5. CASE SendKilled
      BY <2>2, <3>5 DEF SendKilled
    <3> QED  BY <3>3, <3>4, <3>5
  <2>5. CASE SenderEnds
    BY <2>1, <2>2, <2>5 DEF SenderEnds, InSendBuffer, TypeInv
  <2> QED  BY <2>2, <2>3, <2>4, <2>5
<1> QED  BY <1>1, <1>2, <1>3, TransferInv, PTL DEF Spec, NoSuccessAfterReset

=============================================================================
