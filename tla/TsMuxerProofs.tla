--------------------------- MODULE TsMuxerProofs ---------------------------
(***************************************************************************)
(* The properties of TsMuxer for every packet size, every size of a frame  *)
(* and every interval of the tables, and the time stamps of PsiTables.     *)
(***************************************************************************)
EXTENDS TsMuxer, SequenceTheorems, TLAPS

Byte == {"es", "len", "flags", "pcr", "pes", "peslen", "stuff"} \X Int

-----------------------------------------------------------------------------
(* Sequences *)

\* What bytes are there.
LEMMA Bytes ==
  ASSUME NEW n \in Int
  PROVE  /\ <<"es", n>> \in Byte /\ <<"len", n>> \in Byte /\ <<"flags", n>> \in Byte
         /\ <<"pcr", n>> \in Byte /\ <<"pes", n>> \in Byte
         /\ <<"peslen", n>> \in Byte /\ <<"stuff", n>> \in Byte
BY DEF Byte

\* A sequence is a function.
LEMMA FunctionSeq ==
  ASSUME NEW S, NEW n \in Nat, NEW g \in [1 .. n -> S]
  PROVE  g \in Seq(S) /\ Len(g) = n
OBVIOUS

\* What stands behind a prefix is what was put there.
LEMMA CutPrefix ==
  ASSUME NEW S, NEW a \in Seq(S), NEW c \in Seq(S)
  PROVE  SubSeq(a \o c, Len(a) + 1, Len(a \o c)) = c
<1> DEFINE ac == a \o c
           d == SubSeq(ac, Len(a) + 1, Len(ac))
<1>1. ac \in Seq(S) /\ Len(ac) = Len(a) + Len(c)
  OBVIOUS
<1>2. \A i \in 1 .. Len(c) : ac[Len(a) + i] = c[i]
  OBVIOUS
<1>3. Len(a) \in Nat /\ Len(c) \in Nat
  OBVIOUS
<1> HIDE DEF ac
<1>4. d \in Seq(S) /\ Len(d) = Len(c)
  BY <1>1, <1>3
<1>5. \A i \in 1 .. Len(c) : d[i] = c[i]
  BY <1>1, <1>2, <1>3
<1>6. d = c
  BY <1>4, <1>5, SeqEqual
<1> QED BY <1>6 DEF ac

\* The bytes of a frame, from one place to another.
LEMMA DataProperties ==
  ASSUME NEW k \in Nat, NEW l \in Nat
  PROVE  /\ Data(k, l) \in Seq(Byte)
         /\ Len(Data(k, l)) = l
         /\ \A i \in 1 .. l : Data(k, l)[i] = <<"es", k + i>>
<1>1. Data(k, l) \in Seq(Byte) /\ Len(Data(k, l)) = l
  <2>1. ASSUME NEW i \in 1 .. l PROVE <<"es", k + i>> \in Byte
    <3>1. k + i \in Int
      OBVIOUS
    <3> QED BY <3>1, Bytes
  <2>2. Data(k, l) \in [1 .. l -> Byte]
    BY <2>1 DEF Data
  <2> QED BY <2>2, FunctionSeq
<1>2. \A i \in 1 .. l : Data(k, l)[i] = <<"es", k + i>>
  BY DEF Data
<1> QED BY <1>1, <1>2

\* A frame is the bytes that are sent and those that follow.
LEMMA DataJoin ==
  ASSUME NEW m \in Nat, NEW n \in Nat
  PROVE  Data(0, m) \o Data(m, n) = Data(0, m + n)
<1> DEFINE a == Data(0, m)
           b == Data(m, n)
           y == Data(0, m + n)
<1>1. a \in Seq(Byte) /\ Len(a) = m /\ \A i \in 1 .. m : a[i] = <<"es", 0 + i>>
  BY DataProperties
<1>2. b \in Seq(Byte) /\ Len(b) = n /\ \A i \in 1 .. n : b[i] = <<"es", m + i>>
  BY DataProperties
<1>3. y \in Seq(Byte) /\ Len(y) = m + n /\ \A i \in 1 .. m + n : y[i] = <<"es", 0 + i>>
  <2>1. m + n \in Nat /\ 0 \in Nat
    OBVIOUS
  <2> HIDE DEF y
  <2>2. /\ Data(0, m + n) \in Seq(Byte) /\ Len(Data(0, m + n)) = m + n
        /\ \A i \in 1 .. m + n : Data(0, m + n)[i] = <<"es", 0 + i>>
    BY <2>1, DataProperties, Zenon
  <2> QED BY <2>2, Zenon DEF y
<1> HIDE DEF a, b, y
<1>4. /\ a \o b \in Seq(Byte) /\ Len(a \o b) = m + n
      /\ \A i \in 1 .. m + n : (a \o b)[i] = IF i <= m THEN a[i] ELSE b[i - m]
  <2>1. /\ a \o b \in Seq(Byte) /\ Len(a \o b) = Len(a) + Len(b)
        /\ \A i \in 1 .. Len(a) + Len(b) : (a \o b)[i] = IF i <= Len(a) THEN a[i] ELSE b[i - Len(a)]
    BY <1>1, <1>2, ConcatProperties, Zenon
  <2> QED BY <1>1, <1>2, <2>1
<1>5. ASSUME NEW i \in 1 .. m + n PROVE (a \o b)[i] = y[i]
  <2>1. CASE i <= m
    <3>1. i \in 1 .. m
      BY <2>1
    <3>2. a[i] = <<"es", 0 + i>> /\ y[i] = <<"es", 0 + i>> /\ (a \o b)[i] = a[i]
      BY <1>1, <1>3, <1>4, <2>1, <3>1, Zenon
    <3> QED BY <3>2
  <2>2. CASE i > m
    <3>1. i - m \in 1 .. n /\ m + (i - m) = i /\ 0 + i = i /\ ~(i <= m)
      BY <2>2
    <3>2. b[i - m] = <<"es", m + (i - m)>>
      BY <1>2, <3>1
    <3>3. (a \o b)[i] = b[i - m]
      BY <1>4, <3>1
    <3> QED BY <1>3, <3>1, <3>2, <3>3
  <2>3. i <= m \/ i > m
    OBVIOUS
  <2> QED BY <2>1, <2>2, <2>3, Zenon
<1>6. a \o b = y
  BY <1>3, <1>4, <1>5, SeqEqual
<1> QED BY <1>6 DEF a, b, y

-----------------------------------------------------------------------------
(* One packet *)

\* The fields of a frame.
LEMMA FrameFields ==
  ASSUME NEW f \in Frames
  PROVE  f.pid \in {"video", "audio"} /\ f.size \in Nat /\ f.stamps \in 1 .. 2 /\ f.pos \in Nat
<1>1. f.pid \in {"video", "audio"} /\ f.size \in Sizes \cup {0} /\ f.stamps \in 1 .. 2 /\ f.pos \in Nat
  BY DEF Frames
<1>2. Sizes \subseteq Nat /\ 0 \in Nat
  BY MuxerAssumption
<1>3. f.size \in Nat
  BY <1>1, <1>2
<1> QED BY <1>1, <1>3, Zenon

\* The frames there can be, before they are sent completely.
Unsent == {f \in Frames : f.pos < f.size}

\* The sizes that createPes() reckons with.
LEMMA Sizing ==
  ASSUME NEW f \in Unsent
  PROVE  /\ Body(f) \in 1 .. Room
         /\ Taken(f) \in 1 .. f.size - f.pos
         /\ StuffSize(f) \in 0 .. Body(f) - 1
         /\ Taken(f) + StuffSize(f) = Body(f)
         /\ HeaderDataLength(f) \in {5, 10}
<1>1. f.size \in Nat /\ f.pos \in Nat /\ f.stamps \in 1 .. 2 /\ f.pos < f.size
  <2>1. f \in Frames /\ f.pos < f.size
    BY DEF Unsent
  <2> QED BY <2>1, FrameFields
<1>2. HeaderDataLength(f) \in {5, 10}
  BY <1>1 DEF HeaderDataLength
<1>3. Body(f) \in 1 .. Room
  BY <1>1, <1>2, MuxerAssumption DEF Body, Room
<1>4. Body(f) \in Nat /\ f.size - f.pos \in Nat /\ f.size - f.pos > 0
  BY <1>1, <1>3, MuxerAssumption DEF Room
<1> QED BY <1>1, <1>2, <1>3, <1>4 DEF Taken, StuffSize, Min

\* The PES header is bytes.
LEMMA PesHeaderProperties ==
  ASSUME NEW f \in Frames
  PROVE  /\ PesHeader(f) \in Seq(Byte)
         /\ Len(PesHeader(f)) = 9 + HeaderDataLength(f)
         /\ PesHeader(f)[5] = <<"peslen", PesPacketLength(f)>>
<1>1. f.size \in Nat /\ f.stamps \in 1 .. 2
  BY FrameFields
<1>2. HeaderDataLength(f) \in {5, 10}
  BY <1>1 DEF HeaderDataLength
<1>3. PesPacketLength(f) \in Nat
  BY <1>1, <1>2 DEF PesPacketLength
<1>4. \A i \in 1 .. 9 + HeaderDataLength(f) :
        (IF i \in {5, 6} THEN <<"peslen", PesPacketLength(f)>> ELSE <<"pes", i>>) \in Byte
  <2>1. <<"peslen", PesPacketLength(f)>> \in Byte
    <3>1. PesPacketLength(f) \in Int
      BY <1>3
    <3> QED BY <3>1, Bytes, Zenon
  <2>2. ASSUME NEW i \in 1 .. 9 + HeaderDataLength(f) PROVE <<"pes", i>> \in Byte
    <3>1. i \in Int
      BY <1>2
    <3> QED BY <3>1, Bytes, Zenon
  <2> QED BY <2>1, <2>2, Zenon
<1>5. 9 + HeaderDataLength(f) \in Nat /\ 5 \in 1 .. 9 + HeaderDataLength(f)
  BY <1>2
<1>6. PesHeader(f) \in [1 .. 9 + HeaderDataLength(f) -> Byte]
  BY <1>4 DEF PesHeader
<1>7. PesHeader(f)[5] = <<"peslen", PesPacketLength(f)>>
  BY <1>5 DEF PesHeader
<1> QED BY <1>5, <1>6, <1>7, FunctionSeq

\* What a packet carries of the frame and of its PES header.
LEMMA ContentProperties ==
  ASSUME NEW f \in Unsent
  PROVE  /\ Content(f) \in Seq(Byte)
         /\ Len(Content(f)) = IF f.pos = 0 THEN 9 + HeaderDataLength(f) + Taken(f) ELSE Taken(f)
<1>1. f \in Frames /\ f.pos \in Nat /\ Taken(f) \in Nat /\ HeaderDataLength(f) \in {5, 10}
  BY Sizing DEF Unsent, Frames
<1> DEFINE d == Data(f.pos, Taken(f))
           h == PesHeader(f)
<1>2. d \in Seq(Byte) /\ Len(d) = Taken(f)
  BY <1>1, DataProperties
<1>3. h \in Seq(Byte) /\ Len(h) = 9 + HeaderDataLength(f)
  BY <1>1, PesHeaderProperties
<1>4. Content(f) = IF f.pos = 0 THEN h \o d ELSE <<>> \o d
  BY DEF Content
<1> HIDE DEF d, h
<1>5. /\ h \o d \in Seq(Byte) /\ Len(h \o d) = 9 + HeaderDataLength(f) + Taken(f)
      /\ <<>> \o d = d
  BY <1>1, <1>2, <1>3, ConcatProperties, ConcatEmptySeq
<1> QED BY <1>2, <1>4, <1>5

\* The adaptation field is as long as its first byte says, if there is one.
LEMMA FieldProperties ==
  ASSUME NEW f \in Unsent
  PROVE  /\ Field(f) \in Seq(Byte)
         /\ Len(Field(f)) = (IF Adapted(f) THEN 8 ELSE 0) + StuffSize(f)
         /\ Adapted(f) \/ StuffSize(f) > 0 => Field(f)[1] = <<"len", Len(Field(f)) - 1>>
<1>1. StuffSize(f) \in Nat
  BY Sizing, MuxerAssumption DEF Room
<1> DEFINE n == StuffSize(f)
           a == Adaptation(f, n)
           s == Stuffing(f, n)
<1>2. /\ s \in Seq(Byte) /\ Len(s) = n
      /\ n > 0 /\ ~Adapted(f) => s[1] = <<"len", n - 1>>
  <2>1. \A i \in 1 .. n : (IF Adapted(f) \/ i > 2 THEN <<"stuff", 255>>
                           ELSE IF i = 1 THEN <<"len", n - 1>> ELSE <<"flags", 0>>) \in Byte
    <3>1. <<"stuff", 255>> \in Byte /\ <<"flags", 0>> \in Byte
      <4>1. 255 \in Int /\ 0 \in Int
        OBVIOUS
      <4> QED BY <4>1, Bytes, Zenon
    <3>2. <<"len", n - 1>> \in Byte
      <4>1. n - 1 \in Int
        BY <1>1
      <4> QED BY <4>1, Bytes
    <3> QED BY <3>1, <3>2
  <2>2. s \in [1 .. n -> Byte]
    BY <2>1 DEF Stuffing
  <2>3. n > 0 /\ ~Adapted(f) => s[1] = <<"len", n - 1>>
    BY <1>1 DEF Stuffing
  <2>4. s \in Seq(Byte) /\ Len(s) = n
    <3>1. n \in Nat
      BY <1>1
    <3> HIDE DEF n, s
    <3> QED BY <2>2, <3>1, FunctionSeq
  <2> HIDE DEF n, s
  <2> QED BY <2>3, <2>4, Zenon
<1>3. CASE Adapted(f)
  <2>1. a = [i \in 1 .. 8 |-> CASE i = 1 -> <<"len", 7 + n>>
                                [] i = 2 -> <<"flags", 16>>
                                [] OTHER -> <<"pcr", i - 2>>]
    BY <1>3 DEF Adaptation
  <2>2. a \in Seq(Byte) /\ Len(a) = 8 /\ a[1] = <<"len", 7 + n>>
    <3>1. \A i \in 1 .. 8 : (CASE i = 1 -> <<"len", 7 + n>>
                                [] i = 2 -> <<"flags", 16>>
                                [] OTHER -> <<"pcr", i - 2>>) \in Byte
      <4>1. <<"len", 7 + n>> \in Byte /\ <<"flags", 16>> \in Byte
        <5>1. 7 + n \in Int /\ 16 \in Int
          BY <1>1
        <5> QED BY <5>1, Bytes, Zenon
      <4>2. ASSUME NEW i \in 1 .. 8 PROVE <<"pcr", i - 2>> \in Byte
        <5>1. i - 2 \in Int
          OBVIOUS
        <5> QED BY <5>1, Bytes
      <4> HIDE DEF n
      <4> QED BY <4>1, <4>2
    <3> HIDE DEF a, n
    <3>2. a \in [1 .. 8 -> Byte] /\ a[1] = <<"len", 7 + n>>
      BY <2>1, <3>1
    <3> QED BY <3>2, FunctionSeq
  <2>3. Field(f) = a \o s
    BY DEF Field
  <2> HIDE DEF a, s
  <2>4. a \o s \in Seq(Byte) /\ Len(a \o s) = 8 + n /\ (a \o s)[1] = a[1]
    <3>1. /\ a \o s \in Seq(Byte) /\ Len(a \o s) = Len(a) + Len(s)
          /\ \A i \in 1 .. Len(a) + Len(s) : (a \o s)[i] = IF i <= Len(a) THEN a[i] ELSE s[i - Len(a)]
      BY <1>2, <2>2, ConcatProperties, Zenon
    <3> HIDE DEF n
    <3>2. 1 \in 1 .. Len(a) + Len(s) /\ 1 <= Len(a) /\ Len(a \o s) = 8 + n
      BY <1>1, <1>2, <2>2, <3>1
    <3> QED BY <3>1, <3>2
  <2>5. 7 + n = (8 + n) - 1
    BY <1>1
  <2> QED BY <1>3, <2>2, <2>3, <2>4, <2>5
<1>4. CASE ~Adapted(f)
  <2>1. Field(f) = <<>> \o s
    BY <1>4 DEF Field, Adaptation
  <2>2. Field(f) = s
    <3> HIDE DEF s
    <3> QED BY <1>2, <2>1, ConcatEmptySeq
  <2>3. 0 + n = n
    BY <1>1
  <2> HIDE DEF s
  <2> QED BY <1>2, <1>4, <2>2, <2>3
<1> QED BY <1>3, <1>4

\* A packet is whole, and its payload is its content: what stuffing was put in
\* front is cut off again.
LEMMA PacketProperties ==
  ASSUME NEW f \in Unsent
  PROVE  LET p == NextPacket(f) IN
         /\ Len(p.bytes) = Room
         /\ p.afc = "both" => p.bytes[1][1] = "len" /\ p.bytes[1][2] \in 0 .. Room - 2
         /\ Payload(p) = Content(f)
<1> DEFINE a == Field(f)
           c == Content(f)
           p == NextPacket(f)
           full == Adapted(f) \/ StuffSize(f) > 0
<1>1. p.bytes = a \o c /\ p.afc = IF full THEN "both" ELSE "payload"
  BY DEF NextPacket
<1>2. /\ a \in Seq(Byte) /\ c \in Seq(Byte)
      /\ full => a[1] = <<"len", Len(a) - 1>>
      /\ Len(a) = (IF Adapted(f) THEN 8 ELSE 0) + StuffSize(f)
      /\ Len(c) = IF f.pos = 0 THEN 9 + HeaderDataLength(f) + Taken(f) ELSE Taken(f)
  BY FieldProperties, ContentProperties
<1>3. /\ Body(f) \in 1 .. Room /\ Room \in Nat
      /\ Taken(f) \in Nat \ {0} /\ StuffSize(f) \in Nat
      /\ Taken(f) + StuffSize(f) = Body(f)
      /\ HeaderDataLength(f) \in {5, 10}
      /\ f.pos \in Nat
  BY Sizing, MuxerAssumption DEF Room, Unsent, Frames
<1>4. Len(a) + Len(c) = Room
  <2>1. CASE f.pos > 0
    <3>1. Body(f) = Room /\ ~Adapted(f) /\ f.pos # 0
      BY <1>3, <2>1 DEF Body, Adapted
    <3>2. Len(a) = StuffSize(f) /\ Len(c) = Taken(f)
      BY <1>2, <1>3, <3>1
    <3> QED BY <1>3, <3>1, <3>2
  <2>2. CASE f.pos = 0
    <3>1. Body(f) = Room - ((IF Adapted(f) THEN 8 ELSE 0) + 9 + HeaderDataLength(f))
      BY <2>2 DEF Body
    <3>2. Len(c) = 9 + HeaderDataLength(f) + Taken(f)
      BY <1>2, <2>2
    <3> DEFINE extra == IF Adapted(f) THEN 8 ELSE 0
    <3>3. extra \in Int /\ Taken(f) \in Int /\ StuffSize(f) \in Int
          /\ HeaderDataLength(f) \in Int /\ Room \in Int
      BY <1>3
    <3>4. Taken(f) + StuffSize(f) = Room - (extra + 9 + HeaderDataLength(f))
      BY <1>3, <3>1
    <3>5. Len(a) = extra + StuffSize(f)
      BY <1>2
    <3> DEFINE la == Len(a)
               lc == Len(c)
    <3>6. la = extra + StuffSize(f) /\ lc = 9 + HeaderDataLength(f) + Taken(f)
      BY <3>2, <3>5
    <3> HIDE DEF extra, la, lc
    <3>7. la + lc = Room
      BY <3>3, <3>4, <3>6
    <3> QED BY <3>7 DEF la, lc
  <2>3. f.pos > 0 \/ f.pos = 0
    BY <1>3
  <2> QED BY <2>1, <2>2, <2>3, Zenon
<1>5. /\ full => Len(a) \in 1 .. Room - 1
      /\ ~full => Len(a) = 0
      /\ Len(c) > 0
  <2>1. Len(c) \in Nat \ {0}
    <3>1. CASE f.pos = 0
      BY <1>2, <1>3, <3>1
    <3>2. CASE f.pos # 0
      BY <1>2, <1>3, <3>2
    <3> QED BY <3>1, <3>2
  <2>2. CASE Adapted(f)
    <3>1. Len(a) = 8 + StuffSize(f)
      BY <1>2, <2>2
    <3> QED BY <1>3, <1>4, <2>1, <2>2, <3>1
  <2>3. CASE ~Adapted(f)
    <3>1. Len(a) = 0 + StuffSize(f)
      BY <1>2, <2>3
    <3> QED BY <1>3, <1>4, <2>1, <2>3, <3>1
  <2> QED BY <2>2, <2>3
<1>6. Payload(p) = IF full THEN SubSeq(a \o c, 2 + (a \o c)[1][2], Len(a \o c)) ELSE a \o c
  BY <1>1 DEF Payload
<1> HIDE DEF a, c, p, full
<1>7. Len(a \o c) = Room
  BY <1>2, <1>4, ConcatProperties
<1>8. full => (a \o c)[1] = <<"len", Len(a) - 1>>
  BY <1>2, <1>4, <1>5, ConcatProperties
<1>9. full => SubSeq(a \o c, 2 + (Len(a) - 1), Len(a \o c)) = c
  <2>1. 2 + (Len(a) - 1) = Len(a) + 1
    BY <1>2
  <2> QED BY <1>2, <2>1, CutPrefix
<1>10. ~full => a \o c = c
  <2>1. ~full => a = <<>>
    BY <1>2, <1>5, EmptySeq
  <2> QED BY <1>2, <2>1, ConcatEmptySeq
<1>11. Payload(p) = c
  <2>1. full => (a \o c)[1][2] = Len(a) - 1
    <3>1. <<"len", Len(a) - 1>>[2] = Len(a) - 1
      OBVIOUS
    <3> QED BY <1>8, <3>1, Zenon
  <2> QED BY <1>6, <1>9, <1>10, <2>1
<1>12. p.afc = "both" => p.bytes[1][1] = "len" /\ p.bytes[1][2] \in 0 .. Room - 2
  BY <1>1, <1>5, <1>8, <1>3
<1> QED BY <1>1, <1>7, <1>11, <1>12 DEF p, c

-----------------------------------------------------------------------------
(* The inductive invariant *)

\* The reader expects what the counter gives next, or has seen nothing yet.
CountersAgree ==
  /\ ~gap
  /\ \A pid \in Pid : expect[pid] \in {-1, getCc(Counter(pid))}

\* makepmt is dropped only by a frame that brought the tables; what sendpmt
\* has gone down by is at least the age of the tables.
TablesKnown ==
  /\ ~makepmt => tables
  /\ frame.pid = "video" /\ frame.size > 0 => tables
  /\ age <= PmtInterval - sendpmt

IInv == TypeOK /\ CountersAgree /\ TablesKnown /\ PacketsAreWhole /\ FrameArrives

\* What the steps need to know of the ranges of the variables.
LEMMA Types == TypeOK => /\ sendpmt \in 1 .. PmtInterval /\ age \in Nat /\ PmtInterval \in Nat \ {0}
                         /\ frame \in Frames /\ frame.pos <= frame.size /\ frame.pos \in Nat /\ frame.size \in Nat
<1> SUFFICES ASSUME TypeOK PROVE /\ sendpmt \in 1 .. PmtInterval /\ age \in Nat
                                 /\ PmtInterval \in Nat \ {0} /\ frame \in Frames
                                 /\ frame.pos <= frame.size /\ frame.pos \in Nat /\ frame.size \in Nat
  OBVIOUS
<1>1. sendpmt \in 1 .. PmtInterval /\ age \in Nat /\ PmtInterval \in Nat \ {0} /\ frame \in Frames
  BY MuxerAssumption DEF TypeOK
<1>2. frame.pos <= frame.size
  BY DEF TypeOK
<1> QED BY <1>1, <1>2, FrameFields

\* Before the first frame.
LEMMA InitInvariant == Init => IInv
<1> SUFFICES ASSUME Init PROVE IInv
  OBVIOUS
<1>1. NoFrame \in Frames
  BY DEF NoFrame, Frames
<1>2. frame = NoFrame /\ frame.pos = 0 /\ frame.size = 0
  BY DEF Init, NoFrame
<1>3. TypeOK
  <2>1. mPidCcMap \in [{"tables", "video", "audio"} -> -1 .. CcSize - 1]
    BY MuxerAssumption DEF Init
  <2>2. expect \in [Pid -> -1 .. CcSize - 1]
    BY MuxerAssumption DEF Init
  <2>3. sendpmt \in 1 .. PmtInterval
    BY MuxerAssumption DEF Init
  <2>4. /\ m_to_annexb \in BOOLEAN /\ audioseen \in BOOLEAN /\ makepmt \in BOOLEAN
        /\ gap \in BOOLEAN /\ tables \in BOOLEAN
    BY DEF Init
  <2>5. age \in Nat /\ frame \in Frames /\ frame.pos <= frame.size
    BY <1>1, <1>2 DEF Init
  <2> QED BY <2>1, <2>2, <2>3, <2>4, <2>5 DEF TypeOK
<1>4. CountersAgree
  BY DEF Init, CountersAgree
<1>5. TablesKnown
  BY <1>2, MuxerAssumption DEF Init, TablesKnown
<1>6. PacketsAreWhole /\ FrameArrives
  BY <1>2 DEF PacketsAreWhole, FrameArrives
<1> QED BY <1>3, <1>4, <1>5, <1>6 DEF IInv

\* A counter may go on when all its PIDs do.
LEMMA CountKeeps ==
  ASSUME TypeOK, CountersAgree, NEW c \in {"tables", "video", "audio"},
         NEW pids, pids = {pid \in Pid : Counter(pid) = c}, Count(c, pids)
  PROVE  /\ mPidCcMap' \in [{"tables", "video", "audio"} -> -1 .. CcSize - 1]
         /\ expect' \in [Pid -> -1 .. CcSize - 1]
         /\ gap' \in BOOLEAN
         /\ CountersAgree'
<1> DEFINE cc == getCc(c)
<1>1. \A n \in Int : n % CcSize \in 0 .. CcSize - 1
  BY MuxerAssumption
<1>2. mPidCcMap[c] \in Int
  BY MuxerAssumption DEF TypeOK
<1>3. cc \in 0 .. CcSize - 1
  BY <1>1, <1>2 DEF getCc
<1>4. cc + 1 \in Int /\ (cc + 1) % CcSize \in 0 .. CcSize - 1
  BY <1>1, <1>3, MuxerAssumption
<1>5. /\ mPidCcMap' = [mPidCcMap EXCEPT ![c] = cc]
      /\ expect' = [pid \in Pid |-> IF pid \in pids THEN (cc + 1) % CcSize ELSE expect[pid]]
      /\ gap' = (gap \/ \E pid \in pids : expect[pid] \notin {-1, cc})
  BY DEF Count
<1> HIDE DEF cc
<1>6. mPidCcMap' \in [{"tables", "video", "audio"} -> -1 .. CcSize - 1]
  BY <1>3, <1>5, MuxerAssumption DEF TypeOK
<1>7. expect' \in [Pid -> -1 .. CcSize - 1]
  BY <1>4, <1>5, MuxerAssumption DEF TypeOK
<1>8. gap' \in BOOLEAN /\ ~gap'
  BY <1>5 DEF CountersAgree, TypeOK, cc
<1>9. ASSUME NEW pid \in Pid PROVE expect'[pid] \in {-1, getCc(Counter(pid))'}
  <2>1. CASE pid \in pids
    <3>1. expect'[pid] = (cc + 1) % CcSize
      BY <1>5, <2>1
    <3>2. mPidCcMap'[Counter(pid)] = cc
      BY <1>5, <2>1 DEF TypeOK
    <3> QED BY <3>1, <3>2 DEF getCc, Counter
  <2>2. CASE pid \notin pids
    <3>1. expect'[pid] = expect[pid] /\ Counter(pid) # c
      BY <1>5, <2>2
    <3>2. Counter(pid) \in {"tables", "video", "audio"}
      BY DEF Counter, Pid
    <3>3. mPidCcMap'[Counter(pid)] = mPidCcMap[Counter(pid)]
      BY <1>5, <3>1, <3>2 DEF TypeOK
    <3> QED BY <3>1, <3>3 DEF getCc, Counter, CountersAgree
  <2> QED BY <2>1, <2>2
<1> QED BY <1>6, <1>7, <1>8, <1>9 DEF CountersAgree

\* A frame that has just been given to encode().
LEMMA EncodeKeeps ==
  ASSUME NEW pid \in {"video", "audio"}, NEW size \in Sizes, NEW stamps \in 1 .. 2,
         Encode(pid, size, stamps)
  PROVE  /\ frame' \in Frames /\ frame'.pos = 0 /\ frame'.pid = pid
         /\ frame'.pos <= frame'.size
         /\ PacketsAreWhole' /\ FrameArrives'
<1>1. frame' = [pid |-> pid, size |-> size, stamps |-> stamps, pos |-> 0]
  BY DEF Encode
<1>2. size \in Nat
  BY MuxerAssumption
<1>3. frame' \in Frames /\ frame'.pos = 0 /\ frame'.pid = pid /\ frame'.size = size
  BY <1>1 DEF Frames
<1> QED BY <1>2, <1>3 DEF PacketsAreWhole, FrameArrives

\* An audio packet goes to encode() and no counter moves.
LEMMA ReadAudioKeeps ==
  ASSUME IInv, NEW size \in Sizes, NEW stamps \in 1 .. 2, ReadAudio(size, stamps)
  PROVE  IInv'
<1>1. /\ audioseen' = TRUE /\ Encode("audio", size, stamps)
      /\ UNCHANGED <<m_to_annexb, makepmt, sendpmt, mPidCcMap, expect, gap, tables, age>>
  BY DEF ReadAudio
<1>2. /\ frame' \in Frames /\ frame'.pid = "audio" /\ frame'.pos <= frame'.size
      /\ PacketsAreWhole' /\ FrameArrives'
  BY <1>1, EncodeKeeps, Zenon
<1>3. TypeOK'
  BY <1>1, <1>2 DEF IInv, TypeOK
<1>4. CountersAgree'
  BY <1>1 DEF IInv, CountersAgree, getCc
<1>5. TablesKnown'
  BY <1>1, <1>2 DEF IInv, TablesKnown
<1> QED BY <1>2, <1>3, <1>4, <1>5 DEF IInv

\* A video packet may bring the tables, with their counter.
LEMMA ReadVideoKeeps ==
  ASSUME IInv, NEW size \in Sizes, NEW stamps \in 1 .. 2, ReadVideo(size, stamps)
  PROVE  IInv'
<1>1. /\ sendpmt' = IF sendpmt = 1 THEN PmtInterval ELSE sendpmt - 1
      /\ makepmt' = FALSE
      /\ Encode("video", size, stamps)
      /\ UNCHANGED <<m_to_annexb, audioseen>>
  BY DEF ReadVideo
<1>2. /\ frame' \in Frames /\ frame'.pid = "video" /\ frame'.pos <= frame'.size
      /\ PacketsAreWhole' /\ FrameArrives'
  BY <1>1, EncodeKeeps, Zenon
<1>3. sendpmt \in 1 .. PmtInterval /\ age \in Nat /\ PmtInterval \in Nat \ {0}
  BY Types DEF IInv
<1>4. sendpmt' \in 1 .. PmtInterval
  BY <1>1, <1>3
<1>5. CASE WithTables
  <2>1. Count("tables", {"pat", "pmt"}) /\ tables' = TRUE /\ age' = 0
    BY <1>5 DEF ReadVideo
  <2>2. {"pat", "pmt"} = {pid \in Pid : Counter(pid) = "tables"}
    BY DEF Pid, Counter
  <2>3. /\ mPidCcMap' \in [{"tables", "video", "audio"} -> -1 .. CcSize - 1]
        /\ expect' \in [Pid -> -1 .. CcSize - 1]
        /\ gap' \in BOOLEAN
        /\ CountersAgree'
    BY <2>1, <2>2, CountKeeps, Zenon DEF IInv
  <2>4. TypeOK'
    BY <1>1, <1>2, <1>4, <2>1, <2>3 DEF IInv, TypeOK
  <2>5. TablesKnown'
    <3>1. age' <= PmtInterval - sendpmt'
      <4>1. age' = 0
        BY <2>1
      <4>2. \A n \in 1 .. PmtInterval : 0 <= PmtInterval - n
        BY <1>3
      <4> QED BY <1>4, <4>1, <4>2, Zenon
    <3> QED BY <2>1, <3>1, Zenon DEF TablesKnown
  <2> QED BY <1>2, <2>3, <2>4, <2>5 DEF IInv
<1>6. CASE ~WithTables
  <2>1. age' = age + 1 /\ UNCHANGED <<mPidCcMap, expect, gap, tables>>
    BY <1>6 DEF ReadVideo
  <2>2. TypeOK'
    <3>1. age' \in Nat
      BY <1>3, <2>1
    <3> QED BY <1>1, <1>2, <1>4, <2>1, <3>1 DEF IInv, TypeOK
  <2>3. CountersAgree'
    BY <2>1 DEF IInv, CountersAgree, getCc
  <2>4. TablesKnown'
    <3>1. ~makepmt /\ sendpmt # 1
      BY <1>6 DEF WithTables
    <3>2. tables' /\ sendpmt' = sendpmt - 1
      BY <1>1, <2>1, <3>1 DEF IInv, TablesKnown
    <3>3. age' <= PmtInterval - sendpmt'
      BY <1>3, <2>1, <3>2 DEF IInv, TablesKnown
    <3> QED BY <3>2, <3>3 DEF TablesKnown
  <2> QED BY <1>2, <2>2, <2>3, <2>4 DEF IInv
<1> QED BY <1>5, <1>6

\* A change of stream touches neither counters nor frame.
LEMMA StreamChangeKeeps ==
  ASSUME IInv, StreamChange
  PROVE  IInv'
<1>1. /\ m_to_annexb' \in BOOLEAN
      /\ UNCHANGED <<audioseen, makepmt, sendpmt, mPidCcMap, frame, packet, expect, gap, tables, age, got>>
  BY DEF StreamChange
<1>2. TypeOK'
  BY <1>1 DEF IInv, TypeOK
<1>3. CountersAgree' /\ TablesKnown'
  BY <1>1 DEF IInv, CountersAgree, TablesKnown, getCc
<1>4. PacketsAreWhole'
  BY <1>1 DEF IInv, PacketsAreWhole
<1>5. FrameArrives'
  BY <1>1 DEF IInv, FrameArrives
<1> QED BY <1>2, <1>3, <1>4, <1>5 DEF IInv

\* createPes() appends to what has arrived exactly what comes next.
LEMMA CreatePesKeeps ==
  ASSUME IInv, CreatePes
  PROVE  IInv'
<1> DEFINE f == frame
           t == Taken(frame)
<1>1. /\ packet' = NextPacket(frame)
      /\ frame' = [frame EXCEPT !.pos = frame.pos + Taken(frame)]
      /\ Count(Counter(frame.pid), {frame.pid})
      /\ got' = (IF packet'.pusi THEN <<>> ELSE got) \o Payload(packet')
      /\ UNCHANGED <<player, tables, age>>
  BY DEF CreatePes
<1>2. /\ frame \in Frames /\ frame.pos < frame.size /\ frame.pos \in Nat /\ frame.size \in Nat
      /\ frame.pid \in {"video", "audio"} /\ frame.stamps \in 1 .. 2
  BY Types, FrameFields DEF IInv, CreatePes, Idle
<1>3. frame \in Unsent
  BY <1>2 DEF Unsent
<1>4. Taken(frame) \in 1 .. frame.size - frame.pos /\ HeaderDataLength(frame) \in {5, 10}
  BY <1>3, Sizing
<1>5. /\ frame'.pos = frame.pos + Taken(frame) /\ frame'.pid = frame.pid
      /\ frame'.size = frame.size /\ frame'.stamps = frame.stamps
      /\ frame' \in Frames
  <2>1. frame.pos + Taken(frame) \in Nat
    BY <1>2, <1>4
  <2> QED BY <1>1, <1>2, <2>1 DEF Frames
<1>6. frame'.pos > 0 /\ frame'.pos <= frame'.size
  BY <1>2, <1>4, <1>5
<1>7. /\ mPidCcMap' \in [{"tables", "video", "audio"} -> -1 .. CcSize - 1]
      /\ expect' \in [Pid -> -1 .. CcSize - 1]
      /\ gap' \in BOOLEAN
      /\ CountersAgree'
  <2>1. Counter(frame.pid) \in {"tables", "video", "audio"}
    BY <1>2 DEF Counter
  <2>2. {frame.pid} = {pid \in Pid : Counter(pid) = Counter(frame.pid)}
    BY <1>2 DEF Pid, Counter
  <2> QED BY <1>1, <2>1, <2>2, CountKeeps, Zenon DEF IInv
<1>8. TypeOK'
  BY <1>1, <1>5, <1>6, <1>7 DEF IInv, TypeOK, player
<1>9. TablesKnown'
  <2>1. frame'.pid = "video" /\ frame'.size > 0 => tables'
    BY <1>1, <1>5 DEF IInv, TablesKnown
  <2> QED BY <1>1, <2>1 DEF IInv, TablesKnown, player
<1>10. /\ Len(packet'.bytes) = Room
       /\ packet'.afc = "both" => packet'.bytes[1][1] = "len" /\ packet'.bytes[1][2] \in 0 .. Room - 2
       /\ Payload(packet') = Content(frame)
  BY <1>1, <1>3, PacketProperties, Zenon
<1>11. PacketsAreWhole'
  BY <1>10 DEF PacketsAreWhole, Room
<1>12. FrameArrives'
  <2>1. PesHeader(frame)' = PesHeader(frame)
    BY <1>5 DEF PesHeader, HeaderDataLength, PesPacketLength
  <2>2. packet'.pusi = (frame.pos = 0)
    BY <1>1 DEF NextPacket
  <2> DEFINE h == PesHeader(frame)
             d == Data(frame.pos, Taken(frame))
             b == Data(0, frame.pos)
  <2>3. h \in Seq(Byte) /\ d \in Seq(Byte) /\ b \in Seq(Byte)
    <3>1. Taken(frame) \in Nat /\ 0 \in Nat
      BY <1>2, <1>4
    <3>2. d \in Seq(Byte) /\ b \in Seq(Byte)
      BY <1>2, <3>1, DataProperties, Zenon
    <3> QED BY <1>2, <3>2, PesHeaderProperties, Zenon
  <2>4. b \o d = Data(0, frame'.pos)
    <3>1. Taken(frame) \in Nat
      BY <1>2, <1>4
    <3> QED BY <1>2, <1>5, <3>1, DataJoin, Zenon
  <2>5. CASE frame.pos = 0
    <3>1. got' = <<>> \o (h \o d)
      BY <1>1, <1>10, <2>2, <2>5 DEF Content
    <3>2. d = Data(0, frame'.pos)
      <4>1. 0 + Taken(frame) = Taken(frame)
        BY <1>2, <1>4
      <4> QED BY <1>5, <2>5, <4>1
    <3>3. h \o d \in Seq(Byte)
      <4> HIDE DEF h, d
      <4> QED BY <2>3, ConcatProperties
    <3>4. got' = h \o d
      <4> HIDE DEF h, d
      <4> QED BY <3>1, <3>3, ConcatEmptySeq
    <3> QED BY <2>1, <3>2, <3>4 DEF FrameArrives
  <2>6. CASE frame.pos > 0
    <3>1. got = h \o b
      BY <2>6 DEF IInv, FrameArrives
    <3>2. frame.pos # 0
      BY <2>6
    <3>3. got' = got \o (<<>> \o d)
      BY <1>1, <1>10, <2>2, <3>2 DEF Content
    <3>4. got' = h \o (b \o d)
      <4> HIDE DEF h, b, d
      <4>1. <<>> \o d = d
        BY <2>3, ConcatEmptySeq
      <4> QED BY <2>3, <3>1, <3>3, <4>1, ConcatAssociative
    <3> QED BY <2>1, <2>4, <3>4 DEF FrameArrives
  <2>7. frame.pos = 0 \/ frame.pos > 0
    BY <1>2
  <2> QED BY <2>5, <2>6, <2>7, Zenon
<1> QED BY <1>7, <1>8, <1>9, <1>11, <1>12 DEF IInv

\* Every step keeps the invariant.
LEMMA NextInvariant == IInv /\ [Next]_vars => IInv'
<1> SUFFICES ASSUME IInv, [Next]_vars PROVE IInv'
  OBVIOUS
<1>1. ASSUME NEW size \in Sizes, NEW stamps \in 1 .. 2, ReadAudio(size, stamps) PROVE IInv'
  BY <1>1, ReadAudioKeeps
<1>2. ASSUME NEW size \in Sizes, NEW stamps \in 1 .. 2, ReadVideo(size, stamps) PROVE IInv'
  BY <1>2, ReadVideoKeeps
<1>3. CASE StreamChange
  BY <1>3, StreamChangeKeeps
<1>4. CASE CreatePes
  BY <1>4, CreatePesKeeps
<1>5. CASE UNCHANGED vars
  <2>1. TypeOK'
    BY <1>5 DEF IInv, TypeOK, vars, player
  <2>2. CountersAgree' /\ TablesKnown'
    BY <1>5 DEF IInv, CountersAgree, TablesKnown, getCc, vars, player
  <2>3. PacketsAreWhole' /\ FrameArrives'
    BY <1>5 DEF IInv, PacketsAreWhole, FrameArrives, vars, player
  <2> QED BY <2>1, <2>2, <2>3 DEF IInv
<1> QED BY <1>1, <1>2, <1>3, <1>4, <1>5 DEF Next

-----------------------------------------------------------------------------
(* The theorems *)

\* The multiplexer keeps its inductive invariant, whatever frames it is given.
THEOREM MuxerInvariant == Spec => []IInv
<1>1. Init => IInv
  BY InitInvariant
<1>2. IInv /\ [Next]_vars => IInv'
  BY NextInvariant
<1> QED BY <1>1, <1>2, PTL DEF Spec

\* For every size of packets and frames, every TS packet that createPes()
\* writes has exactly the size of a packet.
THEOREM WholePackets == Spec => []PacketsAreWhole
<1>1. IInv => PacketsAreWhole
  BY DEF IInv
<1> QED BY <1>1, MuxerInvariant, PTL

\* For every size of packets and frames, a reader who skips the adaptation
\* fields gets the PES header and every byte of the frame once and in order.
THEOREM Arrival == Spec => []FrameArrives
<1>1. IInv => FrameArrives
  BY DEF IInv
<1> QED BY <1>1, MuxerInvariant, PTL

\* mPesPacketLength of a complete frame is its length or 0.
THEOREM TrueLength == Spec => []LengthIsTrue
<1>1. IInv => LengthIsTrue
  <2> SUFFICES ASSUME IInv, frame.pos > 0, Idle PROVE got[5][2] \in {0, Len(got) - 6}
    BY DEF LengthIsTrue
  <2> DEFINE h == PesHeader(frame)
             d == Data(0, frame.pos)
  <2>1. frame \in Frames /\ frame.pos \in Nat /\ frame.size = frame.pos /\ frame.stamps \in 1 .. 2
    BY Types, FrameFields DEF IInv, Idle
  <2>2. HeaderDataLength(frame) \in {5, 10}
    BY <2>1 DEF HeaderDataLength
  <2>3. got = h \o d
    BY DEF IInv, FrameArrives
  <2>4. /\ h \in Seq(Byte) /\ Len(h) = 9 + HeaderDataLength(frame)
        /\ h[5] = <<"peslen", PesPacketLength(frame)>>
    BY <2>1, PesHeaderProperties, Zenon
  <2>5. d \in Seq(Byte) /\ Len(d) = frame.pos
    <3>1. 0 \in Nat
      OBVIOUS
    <3> QED BY <2>1, <3>1, DataProperties, Zenon
  <2> HIDE DEF h, d
  <2>6. /\ Len(h \o d) = Len(h) + Len(d)
        /\ \A i \in 1 .. Len(h) + Len(d) : (h \o d)[i] = IF i <= Len(h) THEN h[i] ELSE d[i - Len(h)]
    BY <2>4, <2>5, ConcatProperties, Zenon
  <2>7. got[5] = h[5] /\ Len(got) = 9 + HeaderDataLength(frame) + frame.pos
    <3>1. 5 \in 1 .. Len(h) + Len(d) /\ 5 <= Len(h)
      BY <2>1, <2>2, <2>4, <2>5
    <3> QED BY <2>3, <2>4, <2>5, <2>6, <3>1
  <2>8. got[5][2] = PesPacketLength(frame)
    BY <2>4, <2>7
  <2>9. PesPacketLength(frame) \in {0, HeaderDataLength(frame) + frame.pos + 3}
    BY <2>1 DEF PesPacketLength
  <2>10. Len(got) - 6 = HeaderDataLength(frame) + frame.pos + 3
    BY <2>1, <2>2, <2>7
  <2> QED BY <2>8, <2>9, <2>10
<1> QED BY <1>1, MuxerInvariant, PTL

\* No continuity counter shows a gap, for every modulus.
THEOREM Continuity == Spec => []Continuous
<1>1. IInv => Continuous
  BY DEF IInv, CountersAgree, Continuous
<1> QED BY <1>1, MuxerInvariant, PTL

\* The tables precede the video and are repeated in time, for every interval.
THEOREM TablesRepeat == Spec => []TablesInTime
<1>1. IInv => TablesInTime
  <2> SUFFICES ASSUME IInv PROVE TablesInTime
    OBVIOUS
  <2>1. sendpmt \in 1 .. PmtInterval /\ age \in Nat /\ PmtInterval \in Nat \ {0}
    BY Types DEF IInv
  <2>2. age < PmtInterval
    BY <2>1 DEF IInv, TablesKnown
  <2> QED BY <2>2 DEF IInv, TablesKnown, TablesInTime
<1> QED BY <1>1, MuxerInvariant, PTL

-----------------------------------------------------------------------------
(* Time stamps *)

Psi == INSTANCE PsiTables

\* Places in a stamp, and the arithmetic about them.
LEMMA Places ==
  /\ 5 \in 1 .. 7 /\ 7 \in 1 .. 7 /\ 5 \in 1 .. 8 /\ 7 \in 1 .. 8
  /\ \A n \in {5, 7, 9, 23} : n \in 1 .. 23 /\ n \in 1 .. 24 /\ n \in 1 .. 39
  /\ 25 \in 1 .. 39 /\ 39 \in 1 .. 39
  /\ 33 \in Nat /\ 4 \in Nat /\ 6 \in Nat /\ 1 \in Nat /\ 8 \in Nat
  /\ 4 + 1 = 5 /\ 8 + 1 = 9 /\ 24 + 1 = 25 /\ 3 + 1 = 4 /\ 18 + 1 = 19
OBVIOUS

\* A part of a sequence.
LEMMA Part ==
  ASSUME NEW S, NEW t \in Seq(S), NEW m \in 1 .. Len(t), NEW n \in m .. Len(t)
  PROVE  SubSeq(t, m, n) \in Seq(S) /\ Len(SubSeq(t, m, n)) = n - m + 1
OBVIOUS

\* A time cut at two places and put together is the time.
LEMMA PutTogether ==
  ASSUME NEW S, NEW t \in Seq(S), Len(t) = 33
  PROVE  SubSeq(t, 1, 3) \o SubSeq(t, 4, 18) \o SubSeq(t, 19, 33) = t
<1>1. SubSeq(t, 1, 3) \o SubSeq(t, 3 + 1, 18) = SubSeq(t, 1, 18)
  <2>1. 1 \in 1 .. Len(t) + 1 /\ 3 \in 1 - 1 .. Len(t) /\ 18 \in 3 .. Len(t)
    OBVIOUS
  <2> QED BY <2>1, ConcatAdjacentSubSeq, Zenon
<1>2. SubSeq(t, 1, 18) \o SubSeq(t, 18 + 1, 33) = SubSeq(t, 1, 33)
  <2>1. 1 \in 1 .. Len(t) + 1 /\ 18 \in 1 - 1 .. Len(t) /\ 33 \in 18 .. Len(t)
    OBVIOUS
  <2> QED BY <2>1, ConcatAdjacentSubSeq, Zenon
<1>3. SubSeq(t, 1, 33) = t
  BY SubSeqFull, Zenon
<1> QED BY <1>1, <1>2, <1>3, Places, Zenon

\* Sequences as long as the parts of a stamp: the bits before the time, a marker
\* bit, and the three parts of the time.
LengthsOK(S, f, one, a, b, c) ==
  /\ f \in Seq(S) /\ Len(f) = 4
  /\ one \in Seq(S) /\ Len(one) = 1
  /\ a \in Seq(S) /\ Len(a) = 3
  /\ b \in Seq(S) /\ Len(b) = 15
  /\ c \in Seq(S) /\ Len(c) = 15

\* The bits of a stamp: read at their places they are what was put there.
LEMMA FiveBytes ==
  ASSUME NEW S, NEW f, NEW one, NEW a, NEW b, NEW c, LengthsOK(S, f, one, a, b, c)
  PROVE  Psi!ReadPts(f \o a \o one \o b \o one \o c \o one) = a \o b \o c
<1>1. PICK p1 : p1 = f \o a
  OBVIOUS
<1>2. PICK p2 : p2 = p1 \o one
  OBVIOUS
<1>3. PICK p3 : p3 = p2 \o b
  OBVIOUS
<1>4. PICK p4 : p4 = p3 \o one
  OBVIOUS
<1>5. PICK p5 : p5 = p4 \o c
  OBVIOUS
<1>6. PICK p6 : p6 = p5 \o one
  OBVIOUS
<1>f. f \in Seq(S)
  BY Zenon DEF LengthsOK
<1>f_. Len(f) = 4
  BY Zenon DEF LengthsOK
<1>one. one \in Seq(S)
  BY Zenon DEF LengthsOK
<1>one_. Len(one) = 1
  BY Zenon DEF LengthsOK
<1>a. a \in Seq(S)
  BY Zenon DEF LengthsOK
<1>a_. Len(a) = 3
  BY Zenon DEF LengthsOK
<1>b. b \in Seq(S)
  BY Zenon DEF LengthsOK
<1>b_. Len(b) = 15
  BY Zenon DEF LengthsOK
<1>c. c \in Seq(S)
  BY Zenon DEF LengthsOK
<1>c_. Len(c) = 15
  BY Zenon DEF LengthsOK
<1>11. p1 \in Seq(S)
  BY <1>1, <1>f, <1>a
<1>21. Len(p1) = 7
  <2>1. Len(p1) = Len(f) + Len(a)
    BY <1>1, <1>f, <1>a
  <2> QED BY <2>1, <1>f_, <1>a_
<1>31. \A m, n \in 1 .. 4 : SubSeq(p1, m, n) = SubSeq(f, m, n)
  <2>1. \A m, n \in 1 .. Len(f) : SubSeq(p1, m, n) = SubSeq(f, m, n)
    BY <1>1, <1>f, <1>a, SubSeqOfConcat1
  <2> QED BY <2>1, <1>f_, Zenon
<1>41. SubSeq(p1, 4 + 1, 7) = a
  <2>1. SubSeq(p1, Len(f) + 1, Len(p1)) = a
    BY <1>1, <1>f, <1>a, CutPrefix
  <2> QED BY <2>1, <1>f_, <1>21, Zenon
<1>12. p2 \in Seq(S)
  BY <1>2, <1>11, <1>one
<1>22. Len(p2) = 8
  <2>1. Len(p2) = Len(p1) + Len(one)
    BY <1>2, <1>11, <1>one
  <2> QED BY <2>1, <1>21, <1>one_
<1>32. \A m, n \in 1 .. 7 : SubSeq(p2, m, n) = SubSeq(p1, m, n)
  <2>1. \A m, n \in 1 .. Len(p1) : SubSeq(p2, m, n) = SubSeq(p1, m, n)
    BY <1>2, <1>11, <1>one, SubSeqOfConcat1
  <2> QED BY <2>1, <1>21, Zenon
<1>42. SubSeq(p2, 7 + 1, 8) = one
  <2>1. SubSeq(p2, Len(p1) + 1, Len(p2)) = one
    BY <1>2, <1>11, <1>one, CutPrefix
  <2> QED BY <2>1, <1>21, <1>22, Zenon
<1>13. p3 \in Seq(S)
  BY <1>3, <1>12, <1>b
<1>23. Len(p3) = 23
  <2>1. Len(p3) = Len(p2) + Len(b)
    BY <1>3, <1>12, <1>b
  <2> QED BY <2>1, <1>22, <1>b_
<1>33. \A m, n \in 1 .. 8 : SubSeq(p3, m, n) = SubSeq(p2, m, n)
  <2>1. \A m, n \in 1 .. Len(p2) : SubSeq(p3, m, n) = SubSeq(p2, m, n)
    BY <1>3, <1>12, <1>b, SubSeqOfConcat1
  <2> QED BY <2>1, <1>22, Zenon
<1>43. SubSeq(p3, 8 + 1, 23) = b
  <2>1. SubSeq(p3, Len(p2) + 1, Len(p3)) = b
    BY <1>3, <1>12, <1>b, CutPrefix
  <2> QED BY <2>1, <1>22, <1>23, Zenon
<1>14. p4 \in Seq(S)
  BY <1>4, <1>13, <1>one
<1>24. Len(p4) = 24
  <2>1. Len(p4) = Len(p3) + Len(one)
    BY <1>4, <1>13, <1>one
  <2> QED BY <2>1, <1>23, <1>one_
<1>34. \A m, n \in 1 .. 23 : SubSeq(p4, m, n) = SubSeq(p3, m, n)
  <2>1. \A m, n \in 1 .. Len(p3) : SubSeq(p4, m, n) = SubSeq(p3, m, n)
    BY <1>4, <1>13, <1>one, SubSeqOfConcat1
  <2> QED BY <2>1, <1>23, Zenon
<1>44. SubSeq(p4, 23 + 1, 24) = one
  <2>1. SubSeq(p4, Len(p3) + 1, Len(p4)) = one
    BY <1>4, <1>13, <1>one, CutPrefix
  <2> QED BY <2>1, <1>23, <1>24, Zenon
<1>15. p5 \in Seq(S)
  BY <1>5, <1>14, <1>c
<1>25. Len(p5) = 39
  <2>1. Len(p5) = Len(p4) + Len(c)
    BY <1>5, <1>14, <1>c
  <2> QED BY <2>1, <1>24, <1>c_
<1>35. \A m, n \in 1 .. 24 : SubSeq(p5, m, n) = SubSeq(p4, m, n)
  <2>1. \A m, n \in 1 .. Len(p4) : SubSeq(p5, m, n) = SubSeq(p4, m, n)
    BY <1>5, <1>14, <1>c, SubSeqOfConcat1
  <2> QED BY <2>1, <1>24, Zenon
<1>45. SubSeq(p5, 24 + 1, 39) = c
  <2>1. SubSeq(p5, Len(p4) + 1, Len(p5)) = c
    BY <1>5, <1>14, <1>c, CutPrefix
  <2> QED BY <2>1, <1>24, <1>25, Zenon
<1>36. \A m, n \in 1 .. 39 : SubSeq(p6, m, n) = SubSeq(p5, m, n)
  <2>1. \A m, n \in 1 .. Len(p5) : SubSeq(p6, m, n) = SubSeq(p5, m, n)
    BY <1>6, <1>15, <1>one, SubSeqOfConcat1
  <2> QED BY <2>1, <1>25, Zenon
<1>51. SubSeq(p6, 5, 7) = a
  <2>1. SubSeq(p1, 5, 7) = a /\ SubSeq(p2, 5, 7) = SubSeq(p1, 5, 7)
    BY <1>41, <1>32, Places, Zenon
  <2>2. SubSeq(p3, 5, 7) = SubSeq(p2, 5, 7) /\ SubSeq(p4, 5, 7) = SubSeq(p3, 5, 7)
    BY <1>33, <1>34, Places, Zenon
  <2>3. SubSeq(p5, 5, 7) = SubSeq(p4, 5, 7) /\ SubSeq(p6, 5, 7) = SubSeq(p5, 5, 7)
    BY <1>35, <1>36, Places, Zenon
  <2> QED BY <2>1, <2>2, <2>3, Zenon
<1>52. SubSeq(p6, 9, 23) = b
  <2>1. SubSeq(p3, 9, 23) = b /\ SubSeq(p4, 9, 23) = SubSeq(p3, 9, 23)
    BY <1>43, <1>34, Places, Zenon
  <2>2. SubSeq(p5, 9, 23) = SubSeq(p4, 9, 23) /\ SubSeq(p6, 9, 23) = SubSeq(p5, 9, 23)
    BY <1>35, <1>36, Places, Zenon
  <2> QED BY <2>1, <2>2, Zenon
<1>53. SubSeq(p6, 25, 39) = c
  BY <1>45, <1>36, Places, Zenon
<1>54. p6 = f \o a \o one \o b \o one \o c \o one
  BY <1>1, <1>2, <1>3, <1>4, <1>5, <1>6, Zenon
<1> QED BY <1>51, <1>52, <1>53, <1>54, Zenon DEF Psi!ReadPts

\* readPts() of the five bytes writePts() wrote, and readPcr() of the six of
\* writePcr(), is the time, whatever the time and the four bits before it.
THEOREM StampsAreRead ==
  \A t \in [1 .. 33 -> {0, 1}], fb \in Nat :
    /\ Psi!ReadPts(Psi!WritePts(fb, t)) = t
    /\ Psi!ReadPcr(Psi!WritePcr(t)) = t
<1>0. SUFFICES ASSUME NEW t, NEW fb, t \in [1 .. 33 -> {0, 1}]
               PROVE  /\ Psi!ReadPts(Psi!WritePts(fb, t)) = t
                      /\ Psi!ReadPcr(Psi!WritePcr(t)) = t
  BY Zenon
<1>1. PICK f, x, y, z, one :
        f = Psi!Bits(fb, 4) /\ x = Psi!Bits(63, 6) /\ y = Psi!Bits(0, 1) /\ z = Psi!Bits(0, 8) /\ one = <<1>>
  OBVIOUS
<1>2. PICK S : S = {0, 1} \cup {f[i] : i \in 1 .. 4} \cup {x[i] : i \in 1 .. 6}
                   \cup {y[i] : i \in 1 .. 1} \cup {z[i] : i \in 1 .. 8}
  OBVIOUS
<1>3. f \in Seq(S) /\ Len(f) = 4
  <2>1. f \in [1 .. 4 -> S]
    BY <1>1, <1>2, Zenon DEF Psi!Bits
  <2>2. f \in Seq(S)
    BY <2>1, FunctionSeq, Places, Zenon
  <2>3. Len(f) = 4
    <3>1. Len(f) \in Nat /\ 1 .. Len(f) = DOMAIN f
      BY <2>2, LenProperties, Zenon
    <3>2. DOMAIN f = 1 .. 4
      BY <2>1, Zenon
    <3> QED BY <3>1, <3>2
  <2> QED BY <2>2, <2>3
<1>4. x \in Seq(S)
  <2>1. x \in [1 .. 6 -> S]
    BY <1>1, <1>2, Zenon DEF Psi!Bits
  <2> QED BY <2>1, FunctionSeq, Places, Zenon
<1>5. y \in Seq(S)
  <2>1. y \in [1 .. 1 -> S]
    BY <1>1, <1>2, Zenon DEF Psi!Bits
  <2> QED BY <2>1, FunctionSeq, Places, Zenon
<1>6. z \in Seq(S)
  <2>1. z \in [1 .. 8 -> S]
    BY <1>1, <1>2, Zenon DEF Psi!Bits
  <2> QED BY <2>1, FunctionSeq, Places, Zenon
<1>7. one \in Seq(S) /\ Len(one) = 1
  <2>1. 1 \in S
    BY <1>2, Zenon
  <2>2. one = <<1>>
    BY <1>1, Zenon
  <2> QED BY <2>1, <2>2
<1>8. t \in Seq(S) /\ Len(t) = 33
  <2>1. {0, 1} \subseteq S
    BY <1>2, Zenon
  <2>2. t \in [1 .. 33 -> S]
    BY <1>0, <2>1
  <2>3. t \in Seq(S)
    BY <2>2, FunctionSeq, Places, Zenon
  <2>4. Len(t) = 33
    <3>1. Len(t) \in Nat /\ 1 .. Len(t) = DOMAIN t
      BY <2>3, LenProperties, Zenon
    <3>2. DOMAIN t = 1 .. 33
      BY <2>2, Zenon
    <3> QED BY <3>1, <3>2
  <2> QED BY <2>3, <2>4
<1>9. Psi!ReadPts(Psi!WritePts(fb, t)) = t
  <2>1. PICK a, b, c : a = SubSeq(t, 1, 3) /\ b = SubSeq(t, 4, 18) /\ c = SubSeq(t, 19, 33)
    OBVIOUS
  <2>2. /\ 1 \in 1 .. Len(t) /\ 3 \in 1 .. Len(t)
        /\ 4 \in 1 .. Len(t) /\ 18 \in 4 .. Len(t)
        /\ 19 \in 1 .. Len(t) /\ 33 \in 19 .. Len(t)
    BY <1>8
  <2>3. /\ a \in Seq(S) /\ Len(a) = 3 - 1 + 1
        /\ b \in Seq(S) /\ Len(b) = 18 - 4 + 1
        /\ c \in Seq(S) /\ Len(c) = 33 - 19 + 1
    BY <1>8, <2>1, <2>2, Part, Zenon
  <2>4. Len(a) = 3 /\ Len(b) = 15 /\ Len(c) = 15
    BY <2>3
  <2>5. Psi!WritePts(fb, t) = f \o a \o one \o b \o one \o c \o one
    BY <1>1, <2>1, Zenon DEF Psi!WritePts
  <2>6. LengthsOK(S, f, one, a, b, c)
    BY <1>3, <1>7, <2>3, <2>4, Zenon DEF LengthsOK
  <2>7. Psi!ReadPts(f \o a \o one \o b \o one \o c \o one) = a \o b \o c
    BY <2>6, FiveBytes
  <2>8. a \o b \o c = t
    BY <1>8, <2>1, PutTogether, Zenon
  <2> QED BY <2>5, <2>7, <2>8, Zenon
<1>10. Psi!ReadPcr(Psi!WritePcr(t)) = t
  <2>1. PICK p : p = t \o x
    OBVIOUS
  <2>2. PICK q : q = p \o y
    OBVIOUS
  <2>3. t \in Seq(S)
    BY <1>8, Zenon
  <2>4. p \in Seq(S) /\ Len(p) \in Nat /\ Len(p) >= Len(t)
    BY <1>4, <2>1, <2>3
  <2>5. q \in Seq(S) /\ Len(q) \in Nat /\ Len(q) >= Len(p)
    BY <1>5, <2>2, <2>4
  <2>6. \A m, n \in 1 .. Len(t) : SubSeq(q \o z, m, n) = SubSeq(t, m, n)
    <3>1. \A m, n \in 1 .. Len(t) : SubSeq(p, m, n) = SubSeq(t, m, n)
      BY <1>4, <2>1, <2>3, SubSeqOfConcat1
    <3>2. \A m, n \in 1 .. Len(p) : SubSeq(q, m, n) = SubSeq(p, m, n)
      BY <1>5, <2>2, <2>4, SubSeqOfConcat1
    <3>3. \A m, n \in 1 .. Len(q) : SubSeq(q \o z, m, n) = SubSeq(q, m, n)
      BY <1>6, <2>5, SubSeqOfConcat1
    <3>4. 1 .. Len(t) \subseteq 1 .. Len(p) /\ 1 .. Len(p) \subseteq 1 .. Len(q)
      BY <2>3, <2>4, <2>5
    <3> QED BY <3>1, <3>2, <3>3, <3>4, Zenon
  <2>7. SubSeq(q \o z, 1, 33) = SubSeq(t, 1, 33)
    <3>1. 1 \in 1 .. 33 /\ 33 \in 1 .. 33
      OBVIOUS
    <3> QED BY <1>8, <2>6, <3>1, Zenon
  <2>8. SubSeq(t, 1, 33) = t
    BY <1>8, SubSeqFull, Zenon
  <2>9. Psi!WritePcr(t) = q \o z
    BY <1>1, <2>1, <2>2, Zenon DEF Psi!WritePcr
  <2> QED BY <2>7, <2>8, <2>9, Zenon DEF Psi!ReadPcr
<1> QED BY <1>9, <1>10
=============================================================================
