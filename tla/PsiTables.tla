----------------------------- MODULE PsiTables -----------------------------
(***************************************************************************)
(* What the multiplexer of dash2ts writes bit by bit: the headers of       *)
(* src/src/mpegts/ts_packet.cpp, PAT and PMT (mpegts_muxer.cpp) with their *)
(* checksum (crc.cpp), and the time stamps (common.cpp).                   *)
(*                                                                         *)
(* A buffer is the sequence of its bits, highest bit of a byte first, as   *)
(* SimpleBuffer writes and reads numbers.  A header is a record; encode()  *)
(* and decode() go through its fields in the order of its layout and give  *)
(* each as many bits as its mask and shift leave it.                       *)
(***************************************************************************)
EXTENDS Naturals, Sequences, FiniteSets

LOCAL INSTANCE SequencesExt

\* The lowest w bits of n.
Bits(n, w) == [i \in 1 .. w |-> (n \div 2^(w - i)) % 2]
Number(bits) == FoldLeft(LAMBDA n, b : 2 * n + b, 0, bits)
Byte(buffer, i) == Number(SubSeq(buffer, 8 * i - 7, 8 * i))

TsHeader == <<<<"mSyncByte", 8>>, <<"mTransportErrorIndicator", 1>>,
  <<"mPayloadUnitStartIndicator", 1>>, <<"mTransportPriority", 1>>, <<"mPid", 13>>,
  <<"mTransportScramblingControl", 2>>, <<"mAdaptationFieldControl", 2>>,
  <<"mContinuityCounter", 4>>>>
PATHeader == <<<<"mTableId", 8>>, <<"mSectionSyntaxIndicator", 1>>, <<"mB0", 1>>,
  <<"mReserved0", 2>>, <<"mSectionLength", 12>>, <<"mTransportStreamId", 16>>,
  <<"mReserved1", 2>>, <<"mVersionNumber", 5>>, <<"mCurrentNextIndicator", 1>>,
  <<"mSectionNumber", 8>>, <<"mLastSectionNumber", 8>>>>
PMTHeader == <<<<"mTableId", 8>>, <<"mSectionSyntaxIndicator", 1>>, <<"mB0", 1>>,
  <<"mReserved0", 2>>, <<"mSectionLength", 12>>, <<"mProgramNumber", 16>>,
  <<"mReserved1", 2>>, <<"mVersionNumber", 5>>, <<"mCurrentNextIndicator", 1>>,
  <<"mSectionNumber", 8>>, <<"mLastSectionNumber", 8>>, <<"mReserved2", 3>>,
  <<"mPcrPid", 13>>, <<"mReserved3", 4>>, <<"mProgramInfoLength", 12>>>>
PMTElementInfo == <<<<"mStreamType", 8>>, <<"mReserved0", 3>>, <<"mElementaryPid", 13>>,
  <<"mReserved1", 4>>, <<"mEsInfoLength", 12>>>>
PESHeader == <<<<"mPacketStartCode", 24>>, <<"mStreamId", 8>>, <<"mPesPacketLength", 16>>,
  <<"mMarkerBits", 2>>, <<"mPesScramblingControl", 2>>, <<"mPesPriority", 1>>,
  <<"mDataAlignmentIndicator", 1>>, <<"mCopyright", 1>>, <<"mOriginalOrCopy", 1>>,
  <<"mPtsDtsFlags", 2>>, <<"mEscrFlag", 1>>, <<"mEsRateFlag", 1>>,
  <<"mDsmTrickModeFlag", 1>>, <<"mAddCopyInfoFlag", 1>>, <<"mPesCrcFlag", 1>>,
  <<"mPesExtFlag", 1>>, <<"mHeaderDataLength", 8>>>>

\* A header with these fields and 0 in all others.
Header(layout, fields) ==
  [name \in {layout[i][1] : i \in DOMAIN layout} |->
     IF name \in DOMAIN fields THEN fields[name] ELSE 0]
SizeOf(layout) == FoldLeft(LAMBDA n, f : n + f[2], 0, layout)

HeaderBits(layout, h) ==
  FlattenSeq([i \in DOMAIN layout |-> Bits(h[layout[i][1]], layout[i][2])])

\* decode(); of a TsHeader it leaves mTransportPriority, of a PATHeader
\* mReserved0 as they were, which are not looked at here.
HeaderAt(layout, buffer, pos) ==
  [name \in {layout[i][1] : i \in DOMAIN layout} |->
     LET i == CHOOSE j \in DOMAIN layout : layout[j][1] = name
         start == pos + SizeOf(SubSeq(layout, 1, i - 1))
     IN Number(SubSeq(buffer, start + 1, start + layout[i][2]))]

-----------------------------------------------------------------------------
(* crc32(); a polynomial is the set of its exponents.                     *)
Polynomial == {0, 1, 2, 4, 5, 7, 8, 10, 11, 12, 16, 22, 23, 26}
Xor(a, b) == (a \ b) \cup (b \ a)

\* The remainders of the powers 32 to 39, and of a byte times the power 32.
Power[i \in 0 .. 7] ==
  IF i = 0 THEN Polynomial
  ELSE LET shifted == {j + 1 : j \in Power[i - 1] \ {31}}
       IN IF 31 \in Power[i - 1] THEN Xor(shifted, Polynomial) ELSE shifted
crcTable(byte) == {j \in 0 .. 31 : Cardinality({i \in byte : j \in Power[i]}) % 2 = 1}

Remainder(bits) ==
  LET lCrc[n \in 0 .. Len(bits) \div 8] ==
        IF n = 0 THEN 0 .. 31
        ELSE LET old == lCrc[n - 1]
                 byte == {i \in 0 .. 7 : bits[8 * n - i] = 1}
             IN Xor({i + 8 : i \in old \ 24 .. 31},
                    crcTable(Xor({i - 24 : i \in old \cap 24 .. 31}, byte)))
  IN lCrc[Len(bits) \div 8]
crc32(bits) ==
  LET remainder == Remainder(bits) IN [i \in 1 .. 32 |-> IF 32 - i \in remainder THEN 1 ELSE 0]

-----------------------------------------------------------------------------
(* createPat() and createPmt().                                            *)
TableHeader(pid, cc) ==
  HeaderBits(TsHeader, Header(TsHeader,
    [mSyncByte |-> 71, mPayloadUnitStartIndicator |-> 1, mPid |-> pid,
     mAdaptationFieldControl |-> 1, mContinuityCounter |-> cc]))
Stuffed(bits) == bits \o [i \in 1 .. 188 * 8 - Len(bits) |-> 1]

\* The adaptation field of length 0 is the pointer_field of the section, which
\* the checksum leaves out.
Table(pid, cc, section) ==
  Stuffed(TableHeader(pid, cc) \o Bits(0, 8) \o section \o crc32(section))

Pat(lPmtPid, cc) ==
  Table(0, cc,
    HeaderBits(PATHeader, Header(PATHeader,
      [mSectionSyntaxIndicator |-> 1, mReserved0 |-> 3, mSectionLength |-> 4 + 4 + 5,
       mReserved1 |-> 3, mCurrentNextIndicator |-> 1]))
    \o Bits(1, 16) \o Bits(7, 3) \o Bits(lPmtPid, 13))

\* size() of a PMTHeader, in bytes.
PmtSize(infos) == 12 + 5 * Len(infos)

\* Without the four bytes of the checksum.
SectionLengthBare(infos) == PmtSize(infos) - 3

SectionLength(infos) == (PmtSize(infos) - 3 + 4) % 1024

\* infos: the stream types with their PIDs.
Pmt(lPmtPid, mPcrPid, infos, cc) ==
  Table(lPmtPid, cc,
    HeaderBits(PMTHeader, Header(PMTHeader,
      [mTableId |-> 2, mSectionSyntaxIndicator |-> 1, mReserved0 |-> 3,
       mSectionLength |-> SectionLength(infos), mProgramNumber |-> 1,
       mReserved1 |-> 3, mCurrentNextIndicator |-> 1,
       mReserved2 |-> 7, mReserved3 |-> 15, mPcrPid |-> mPcrPid]))
    \o FlattenSeq([i \in DOMAIN infos |->
         HeaderBits(PMTElementInfo,
           [mStreamType |-> infos[i][1], mElementaryPid |-> infos[i][2],
            mReserved0 |-> 7, mReserved1 |-> 15, mEsInfoLength |-> 0])]))

\* The infos PMTHeader::decode() finds at pos: as many as the section length
\* has room for.
InfosAt(buffer, pos) ==
  LET h == HeaderAt(PMTHeader, buffer, pos) IN
  [i \in 1 .. (h.mSectionLength - 4 - 9 - h.mProgramInfoLength + 4) \div 5 |->
     LET info == HeaderAt(PMTElementInfo, buffer,
                          pos + SizeOf(PMTHeader) + 8 * h.mProgramInfoLength
                          + (i - 1) * SizeOf(PMTElementInfo))
     IN <<info.mStreamType, info.mElementaryPid>>]

-----------------------------------------------------------------------------
(* writePts(), readPts(), writePcr() and readPcr(); a time has 33 bits.    *)

\* A 32-bit number: the highest bit is lost.
WritePtsCut(fb, t) ==
  Bits(fb, 4) \o <<0>> \o SubSeq(t, 2, 3) \o <<1>>
  \o SubSeq(t, 4, 18) \o <<1>> \o SubSeq(t, 19, 33) \o <<1>>

WritePts(fb, t) ==
  Bits(fb, 4) \o SubSeq(t, 1, 3) \o <<1>>
  \o SubSeq(t, 4, 18) \o <<1>> \o SubSeq(t, 19, 33) \o <<1>>
ReadPts(bits) == SubSeq(bits, 5, 7) \o SubSeq(bits, 9, 23) \o SubSeq(bits, 25, 39)

WritePcr(t) == t \o Bits(63, 6) \o Bits(0, 1) \o Bits(0, 8)
ReadPcr(bits) == SubSeq(bits, 1, 33)

\* The PES header of createPes(): one stamp when mPts = mDts, else two.
PesBits(mStreamId, mPesPacketLength, mPts, mDts) ==
  HeaderBits(PESHeader, Header(PESHeader,
    [mPacketStartCode |-> 1, mStreamId |-> mStreamId, mPesPacketLength |-> mPesPacketLength,
     mMarkerBits |-> 2, mOriginalOrCopy |-> 1,
     mPtsDtsFlags |-> IF mPts # mDts THEN 3 ELSE 2,
     mHeaderDataLength |-> IF mPts # mDts THEN 10 ELSE 5]))
  \o IF mPts # mDts THEN WritePts(3, mPts) \o WritePts(1, mDts) ELSE WritePts(2, mPts)
=============================================================================
