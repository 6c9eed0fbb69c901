------------------------------ MODULE TsMuxer ------------------------------
(***************************************************************************)
(* The transport stream dash2ts makes of the packets it demultiplexes: the *)
(* loop of StreamPlayer::StreamPlay() (src/src/streamplayer.cpp) and the   *)
(* multiplexer it feeds, MpegTsMuxer (src/src/mpegts/mpegts_muxer.cpp),    *)
(* with the reader of the stream, who knows the format and nothing else.   *)
(*                                                                         *)
(* One frame is multiplexed at a time.  encode() writes PAT and PMT when   *)
(* it is told to and then runs the loop of createPes(), one TS packet per  *)
(* round and one action here.                                              *)
(*                                                                         *)
(* A byte is a pair of what it is and a number: <<"es", n>> is byte n of   *)
(* the frame, <<"len", n>> the length of an adaptation field.  Of the TS   *)
(* header the fields are kept, of the tables that they are there.  No      *)
(* frame of dash2ts has mRandomAccess set, and createPcr(), createNull()   *)
(* and h222Type are not used.                                              *)
(***************************************************************************)
EXTENDS Integers, Sequences

CONSTANTS
  PacketSize,   \* 188
  CcSize,       \* continuity counters count modulo 16
  PmtInterval,  \* sendpmt: 100
  MaxPes,       \* 0xffff, the largest mPesPacketLength
  Sizes         \* of frames

\* The first packet of a frame has 4 bytes of TS header, at most 8 of
\* adaptation field and at most 19 of PES header.
ASSUME MuxerAssumption ==
  /\ PacketSize \in Nat /\ PacketSize > 4 + 8 + 19
  /\ CcSize \in Nat \ {0}
  /\ PmtInterval \in Nat \ {0}
  /\ MaxPes \in Nat
  /\ Sizes \subseteq Nat \ {0}

VARIABLES
  m_to_annexb, \* the video of this stream has to be converted
  audioseen,   \* an audio packet has been read
  makepmt,     \* the next video frame gets PAT and PMT
  sendpmt,     \* and so does the one after this many
  mPidCcMap,   \* the continuity counters, by stream
  frame,       \* the frame being multiplexed, with how much of it is
  packet,      \* the last TS packet of a frame
  expect,      \* reader: the continuity counter each PID comes with next
  gap,         \* reader: one came with another
  tables,      \* reader: PAT and PMT are known
  age,         \* reader: video frames since PAT and PMT
  got          \* reader: the payload of the packets of the last frame

player == <<m_to_annexb, audioseen, makepmt, sendpmt>>
vars == <<player, mPidCcMap, frame, packet, expect, gap, tables, age, got>>

Room == PacketSize - 4
Pid == {"pat", "pmt", "video", "audio"}

\* Mutant: the streams share a counter.
CounterShared(pid) == IF pid \in {"pat", "pmt"} THEN "tables" ELSE "video"

\* One counter for PAT and PMT together, one for each stream type.
Counter(pid) == IF pid \in {"pat", "pmt"} THEN "tables" ELSE pid

NoFrame == [pid |-> "video", size |-> 0, stamps |-> 1, pos |-> 0]
NoPacket == [pid |-> "video", pusi |-> FALSE, afc |-> "payload", cc |-> 0, bytes |-> <<>>]

\* -1: the counter has not been used, no counter has been seen.
Init ==
  /\ m_to_annexb \in BOOLEAN
  /\ audioseen = FALSE
  /\ makepmt = TRUE
  /\ sendpmt = PmtInterval
  /\ mPidCcMap = [c \in {"tables", "video", "audio"} |-> -1]
  /\ frame = NoFrame
  /\ packet = NoPacket
  /\ expect = [pid \in Pid |-> -1]
  /\ gap = FALSE
  /\ tables = FALSE
  /\ age = 0
  /\ got = <<>>

-----------------------------------------------------------------------------
(* getCc(), and what the reader makes of it *)

getCc(counter) == (mPidCcMap[counter] + 1) % CcSize

\* Packets of these PIDs go out with the next value of the counter.
Count(counter, pids) ==
  LET cc == getCc(counter) IN
  /\ mPidCcMap' = [mPidCcMap EXCEPT ![counter] = cc]
  /\ expect' = [pid \in Pid |-> IF pid \in pids THEN (cc + 1) % CcSize ELSE expect[pid]]
  /\ gap' = (gap \/ \E pid \in pids : expect[pid] \notin {-1, cc})

-----------------------------------------------------------------------------
(* StreamPlay() and the head of encode() *)

Idle == frame.pos = frame.size

\* encode() gets a frame and writes its packets to a buffer of its own.
Encode(pid, size, stamps) ==
  /\ frame' = [pid |-> pid, size |-> size, stamps |-> stamps, pos |-> 0]
  /\ packet' = NoPacket
  /\ got' = <<>>

\* stamps: 1 when mPts = mDts, else 2
ReadAudio(size, stamps) ==
  /\ Idle
  /\ audioseen' = TRUE
  /\ Encode("audio", size, stamps)
  /\ UNCHANGED <<m_to_annexb, makepmt, sendpmt, mPidCcMap, expect, gap, tables, age>>

\* Mutant: the counter of StreamPlay() is never looked at.
WithTablesOnce == makepmt

WithTables == makepmt \/ sendpmt = 1

\* Video that has to be converted is dropped until audio has been seen.
ReadVideo(size, stamps) ==
  /\ Idle
  /\ audioseen \/ ~m_to_annexb
  /\ sendpmt' = IF sendpmt = 1 THEN PmtInterval ELSE sendpmt - 1
  /\ makepmt' = FALSE
  /\ Encode("video", size, stamps)
  /\ IF WithTables
       THEN Count("tables", {"pat", "pmt"}) /\ tables' = TRUE /\ age' = 0
       ELSE age' = age + 1 /\ UNCHANGED <<mPidCcMap, expect, gap, tables>>
  /\ UNCHANGED <<m_to_annexb, audioseen>>

\* DMX_SPECIALID_STREAMCHANGE: the converter is opened for the new stream.
StreamChange ==
  /\ Idle
  /\ m_to_annexb' \in BOOLEAN
  /\ UNCHANGED <<audioseen, makepmt, sendpmt, mPidCcMap, frame, packet, expect, gap, tables, age, got>>

-----------------------------------------------------------------------------
(* createPes() *)

Min(a, b) == IF a <= b THEN a ELSE b

\* The first packet of a video frame has an adaptation field with the clock.
Adapted(f) == f.pos = 0 /\ f.pid = "video"

\* Mutant: the length stays as it was before stuffing.
AdaptationNotGrown(f, stuff) ==
  IF Adapted(f)
    THEN [i \in 1 .. 8 |-> CASE i = 1 -> <<"len", 7>>
                             [] i = 2 -> <<"flags", 16>>
                             [] OTHER -> <<"pcr", i - 2>>]
    ELSE <<>>

Adaptation(f, stuff) ==
  IF Adapted(f)
    THEN [i \in 1 .. 8 |-> CASE i = 1 -> <<"len", 7 + stuff>>
                             [] i = 2 -> <<"flags", 16>>
                             [] OTHER -> <<"pcr", i - 2>>]
    ELSE <<>>

\* Mutant: a new adaptation field always has flags.
StuffingWithFlags(f, stuff) ==
  [i \in 1 .. IF stuff = 1 THEN 2 ELSE stuff |->
     IF Adapted(f) \/ i > 2 THEN <<"stuff", 255>>
     ELSE IF i = 1 THEN <<"len", stuff - 1>> ELSE <<"flags", 0>>]

\* What is added to the adaptation field, or an adaptation field of its own,
\* which has no flags when it is one byte long.
Stuffing(f, stuff) ==
  [i \in 1 .. stuff |-> IF Adapted(f) \/ i > 2 THEN <<"stuff", 255>>
                        ELSE IF i = 1 THEN <<"len", stuff - 1>> ELSE <<"flags", 0>>]

HeaderDataLength(f) == 5 * f.stamps

\* Mutant: the flags in front of the header data are not counted.
PesPacketLengthShort(f) ==
  LET pesSize == HeaderDataLength(f) + f.size IN IF pesSize > MaxPes THEN 0 ELSE pesSize

PesPacketLength(f) ==
  LET pesSize == HeaderDataLength(f) + f.size + 3 IN IF pesSize > MaxPes THEN 0 ELSE pesSize

\* Bytes 5 and 6 are the length of the PES packet.
PesHeader(f) ==
  [i \in 1 .. 9 + HeaderDataLength(f) |->
     IF i \in {5, 6} THEN <<"peslen", PesPacketLength(f)>> ELSE <<"pes", i>>]

Data(from, n) == [i \in 1 .. n |-> <<"es", from + i>>]

\* How much of a packet is free for the frame, how much of the frame goes into
\* it, and how much stuffing is left.
Body(f) == Room - (IF f.pos > 0 THEN 0
                   ELSE (IF Adapted(f) THEN 8 ELSE 0) + 9 + HeaderDataLength(f))
Taken(f) == Min(Body(f), f.size - f.pos)
StuffSize(f) == Body(f) - Taken(f)

Field(f) == Adaptation(f, StuffSize(f)) \o Stuffing(f, StuffSize(f))
Content(f) == (IF f.pos = 0 THEN PesHeader(f) ELSE <<>>) \o Data(f.pos, Taken(f))

NextPacket(f) ==
  [pid |-> f.pid, pusi |-> f.pos = 0,
   afc |-> IF Adapted(f) \/ StuffSize(f) > 0 THEN "both" ELSE "payload",
   cc |-> getCc(Counter(f.pid)),
   bytes |-> Field(f) \o Content(f)]

\* What a reader takes out of a packet: the payload behind the adaptation field.
Payload(p) ==
  IF p.afc = "payload" THEN p.bytes
  ELSE SubSeq(p.bytes, 2 + p.bytes[1][2], Len(p.bytes))

CreatePes ==
  /\ ~Idle
  /\ packet' = NextPacket(frame)
  /\ frame' = [frame EXCEPT !.pos = frame.pos + Taken(frame)]
  /\ Count(Counter(frame.pid), {frame.pid})
  /\ got' = (IF packet'.pusi THEN <<>> ELSE got) \o Payload(packet')
  /\ UNCHANGED <<player, tables, age>>

-----------------------------------------------------------------------------
Next ==
  \/ \E size \in Sizes, stamps \in 1 .. 2 : ReadAudio(size, stamps) \/ ReadVideo(size, stamps)
  \/ StreamChange
  \/ CreatePes

Spec == Init /\ [][Next]_vars

-----------------------------------------------------------------------------
Frames == [pid : {"video", "audio"}, size : Sizes \cup {0}, stamps : 1 .. 2, pos : Nat]

\* The ranges of the variables; no more of a frame is sent than there is.
TypeOK ==
  /\ m_to_annexb \in BOOLEAN /\ audioseen \in BOOLEAN /\ makepmt \in BOOLEAN
  /\ sendpmt \in 1 .. PmtInterval
  /\ mPidCcMap \in [{"tables", "video", "audio"} -> -1 .. CcSize - 1]
  /\ frame \in Frames /\ frame.pos <= frame.size
  /\ expect \in [Pid -> -1 .. CcSize - 1]
  /\ gap \in BOOLEAN /\ tables \in BOOLEAN
  /\ age \in Nat

\* Every packet has exactly PacketSize bytes, whatever the size of the frame
\* and of the headers in front of it, and its adaptation field ends inside it
\* (createPes(), the three ways of stuffing).
PacketsAreWhole ==
  frame.pos > 0 =>
    /\ Len(packet.bytes) = Room
    /\ packet.afc = "both" => packet.bytes[1][1] = "len" /\ packet.bytes[1][2] \in 0 .. Room - 2

\* A reader who cuts the adaptation fields off gets the PES header and then
\* every byte of the frame once and in order (createPes(), moving of the PES
\* header and of the data by the stuffing).
FrameArrives ==
  frame.pos > 0 => got = PesHeader(frame) \o Data(0, frame.pos)

\* The PES header of a complete frame says how long the frame is, or nothing
\* (createPes(), mPesPacketLength).
LengthIsTrue ==
  frame.pos > 0 /\ Idle => got[5][2] \in {0, Len(got) - 6}

\* No PID shows a gap in its continuity counter, over all frames and tables
\* (getCc(), which PAT and PMT call once for both).
Continuous == ~gap

\* When a video frame begins the reader knows the tables, although the frame
\* that was to bring them may have been dropped, and they are repeated after
\* at most PmtInterval frames (StreamPlay(), makepmt and sendpmt).
TablesInTime ==
  /\ frame.pid = "video" /\ frame.size > 0 => tables
  /\ age < PmtInterval
=============================================================================
