----------------------------- MODULE MCTsMuxer -----------------------------
(* TsMuxer for TLC, with the bits of the tables and stamps it writes.      *)
EXTENDS TsMuxer, PsiTables

\* With packets of 40 bytes the first packet of a frame holds 9, 14, 17 or 22
\* bytes of it and every other one 36.
FrameSizes == 7 .. 25 \cup {45, 46, 50, 51, 53, 54, 58, 59}

\* StreamPlayer: PMT_PID, VIDEO_PID, and streamPidMap in the order of its keys.
PmtPid == 100
VideoPid == 256
StreamPidMap == <<<<15, 257>>, <<27, VideoPid>>>>

\* The section that starts behind the header and the pointer_field of a table
\* and is as long as it says, with its checksum.
Section(layout, table) ==
  LET start == SizeOf(TsHeader) + 8 + 8 * Byte(table, 5)
      length == HeaderAt(layout, table, start).mSectionLength
  IN SubSeq(table, start + 1, start + 24 + 8 * length)

Intact(layout, pid, cc, table) ==
  LET header == HeaderAt(TsHeader, table, 0) IN
  /\ Len(table) = 188 * 8
  /\ header.mSyncByte = 71 /\ header.mPid = pid /\ header.mContinuityCounter = cc
  /\ Remainder(Section(layout, table)) = {}

\* The programs of a PAT: all of its section between header and checksum.
Programs(section) ==
  LET first == SizeOf(PATHeader) + 1 IN
  [i \in 1 .. (Len(section) - 32 - SizeOf(PATHeader)) \div 32 |->
     <<Number(SubSeq(section, first + 32 * (i - 1), first + 32 * (i - 1) + 15)),
       Number(SubSeq(section, first + 32 * (i - 1) + 19, first + 32 * i - 1))>>]

CountersRead ==
  {cc \in 0 .. CcSize - 1 :
     LET pat == Pat(PmtPid, cc)
         pmt == Pmt(PmtPid, VideoPid, StreamPidMap, cc)
         pmtSection == Section(PMTHeader, pmt)
     IN /\ Intact(PATHeader, 0, cc, pat) /\ Intact(PMTHeader, PmtPid, cc, pmt)
        /\ Programs(Section(PATHeader, pat)) = <<<<1, PmtPid>>>>
        /\ HeaderAt(PMTHeader, pmtSection, 0).mProgramNumber = 1
        /\ HeaderAt(PMTHeader, pmtSection, 0).mPcrPid = VideoPid
        /\ InfosAt(pmtSection, 0) = StreamPidMap}

\* A reader of the tables finds a section where the pointer_field says, with a
\* correct checksum where its length ends, in the PAT the PID of the PMT and in
\* the PMT both streams and the clock, with every counter they are written with
\* (createPat(), createPmt(), crc32(), decode() in ts_packet.cpp).
TablesAreRead == mPidCcMap["tables"] \in CountersRead \cup {-1}

\* Times in which bits a to b are set.
Times == {[i \in 1 .. 33 |-> IF i \in a .. b THEN 1 ELSE 0] : a \in 1 .. 33, b \in 0 .. 33}
Midnight == [i \in 1 .. 33 |-> 0]

TimesRead ==
  {t \in Times : /\ \A fb \in 1 .. 3 : ReadPts(WritePts(fb, t)) = t
                 /\ ReadPcr(WritePcr(t)) = t}

StartsOnce(bits) ==
  \A i \in 2 .. Len(bits) \div 8 - 2 : <<Byte(bits, i), Byte(bits, i + 1), Byte(bits, i + 2)>> # <<0, 0, 1>>

LengthsThatStartOnce ==
  {n \in {0, 1, 255, 256, 257, 65535} :
     \A t \in Times : /\ StartsOnce(PesBits(224, n, t, t))
                      /\ StartsOnce(PesBits(224, n, t, Midnight))
                      /\ StartsOnce(PesBits(224, n, Midnight, t))}

\* Whatever the time: it comes out of the five bytes of a stamp and the six of
\* a clock as it went in, and in a PES header with such stamps and any length
\* only the beginning looks like a start code (writePts(), readPts(), writePcr(),
\* readPcr(), createPes(), PESHeader::encode()).
HeaderIsRead ==
  frame.size > 0 => /\ TimesRead = Times
                    /\ LengthsThatStartOnce = {0, 1, 255, 256, 257, 65535}
=============================================================================
