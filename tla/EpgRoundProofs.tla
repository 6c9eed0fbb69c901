--------------------------- MODULE EpgRoundProofs ---------------------------
(***************************************************************************)
(* What VDR is sent and how its connection is used, for any guide, any     *)
(* cache and any failures of VDR, the servers, the disk and zattood.       *)
(***************************************************************************)
EXTENDS EpgRound, TLAPS

\* The descriptions in epgdata are their programmes' own.
DataOwn ==
  \A i \in 1 .. Len(epgdata) :
    epgdata[i].text.of \in {epgdata[i].programme, "none"}

\* details holds a description only while more are asked for: it is written
\* over before it is used.
NothingKept == ~Asked => details = NoText

IInv == TypeOK /\ OwnDetails /\ SocketBetweenCalls /\ DataOwn /\ NothingKept

Entry == [programme : Programme, text : Texts]

-----------------------------------------------------------------------------
(* The files of the cache.                                                 *)

LEMMA NoTextIsText == NoText \in Texts /\ NoText.of = "none"
  BY DEF Texts, NoText

\* What TextOf() makes is a description of that programme or none.
LEMMA TextOfType ==
  ASSUME NEW p \in Programme, NEW n \in 0 .. MaxText
  PROVE  /\ TextOf(p, n) \in Texts
         /\ TextOf(p, n).of \in {p, "none"}
         /\ n = 0 => TextOf(p, n) = NoText
  BY DEF Texts, TextOf, NoText

\* There is no file after one is deleted.
LEMMA NoFileIsFile == NoFile \in Files
  BY EpgAssumption DEF NoFile, Files

\* A file is one whatever text is written over it.
LEMMA WrittenType ==
  ASSUME NEW f \in Files, NEW n \in 1 .. MaxText
  PROVE  Written(f, n) \in Files
<1>1. f \in [exists : BOOLEAN, length : 0 .. MaxText, text : 0 .. MaxText, expired : BOOLEAN]
  BY DEF Files
<1>2. f.length > 0 => f.exists
  BY DEF Files, NoFile
<1>3. CASE n >= f.length
  <2>1. Written(f, n) = [exists |-> TRUE, length |-> n, text |-> n, expired |-> FALSE]
    BY <1>3 DEF Written
  <2>2. QED
    BY <2>1, EpgAssumption DEF Files
<1>4. CASE ~(n >= f.length)
  <2>1. f.exists
    BY <1>1, <1>2, <1>4, EpgAssumption
  <2>2. Written(f, n) = [f EXCEPT !.text = 0, !.expired = FALSE]
    BY <1>4 DEF Written
  <2>3. Written(f, n) = [exists |-> TRUE, length |-> f.length, text |-> 0,
                         expired |-> FALSE]
    BY <1>1, <2>1, <2>2
  <2>4. QED
    BY <1>1, <2>3, EpgAssumption DEF Files
<1>5. QED
  BY <1>3, <1>4

\* And when the writing is cut short.
LEMMA CutType ==
  ASSUME NEW f \in Files, NEW n \in 1 .. MaxText, NEW g \in Cut(f, n)
  PROVE  g \in Files
<1>1. f \in [exists : BOOLEAN, length : 0 .. MaxText, text : 0 .. MaxText, expired : BOOLEAN]
  BY DEF Files
<1>2. CASE g = [f EXCEPT !.exists = TRUE]
  BY <1>1, <1>2 DEF Files
<1>3. CASE g # [f EXCEPT !.exists = TRUE]
  <2>1. PICK k \in 1 .. n - 1 :
          g = [exists |-> TRUE, length |-> IF k > f.length THEN k ELSE f.length,
               text |-> 0, expired |-> FALSE]
    BY <1>3 DEF Cut
  <2>2. (IF k > f.length THEN k ELSE f.length) \in 0 .. MaxText
    BY <1>1, EpgAssumption
  <2>3. QED
    BY <2>1, <2>2, EpgAssumption DEF Files
<1>4. QED
  BY <1>2, <1>3

\* GetDetails() finds at most the longest description.
LEMMA GotType ==
  ASSUME TypeOK, NEW p \in Programme, NEW n \in Got(p)
  PROVE  n \in 0 .. MaxText
<1>1. file[p].text \in 0 .. MaxText
  BY DEF TypeOK, Files
<1>2. QED
  BY <1>1 DEF Got

-----------------------------------------------------------------------------
(* The steps.                                                              *)

\* The caches of zattood and the texts VDR has from before are as they may be.
LEMMA InitIInv == Init => IInv
<1> SUFFICES ASSUME Init PROVE IInv
  OBVIOUS
<1>1. TypeOK
  <2>1. vdr \in [Programme -> Texts] /\ details \in Texts
    BY NoTextIsText DEF Init
  <2>2. epgdata \in Seq([programme : Programme, text : Texts])
    BY DEF Init
  <2>3. toClean \subseteq Programme /\ toSend \subseteq Channel
    BY DEF Init
  <2>4. round \in 0 .. 3
    BY DEF Init
  <2>5. /\ sockfd \in {"none", "open", "closed"}
        /\ pc \in {"clean", "greet", "load", "channels", "programmes", "sleep", "down"}
        /\ chan \in Channel \cup {NoChannel} /\ more \in BOOLEAN /\ greeted \in BOOLEAN
    BY Zenon DEF Init
  <2>6. QED
    BY <2>1, <2>2, <2>3, <2>4, <2>5 DEF Init, TypeOK
<1>2. QED
  BY <1>1, NoTextIsText DEF IInv, Init, OwnDetails, SocketBetweenCalls, DataOwn, NothingKept

\* The end of the process leaves files and VDR as they are.
LEMMA DieStep ==
  ASSUME IInv, Die, vdr' = vdr, vdrUp' = vdrUp, calm' = calm,
         file' \in [Programme -> Files]
  PROVE  IInv'
<1>1. TypeOK'
  <2>1. epgdata' \in Seq([programme : Programme, text : Texts])
    BY DEF Die, NoLocals
  <2>2. details' \in Texts /\ toSend' \subseteq Channel
    BY NoTextIsText DEF Die, NoLocals
  <2>3. /\ pc' = "down" /\ sockfd' = "none" /\ toClean' \subseteq Programme
        /\ greeted' \in BOOLEAN /\ more' \in BOOLEAN
        /\ chan' \in Channel \cup {NoChannel}
    BY Zenon DEF Die, NoLocals
  <2>4. round' \in 0 .. 3
    BY DEF Die
  <2>5. QED
    BY <2>1, <2>2, <2>3, <2>4 DEF IInv, TypeOK
<1>2. QED
  BY <1>1 DEF IInv, Die, NoLocals, OwnDetails, SocketBetweenCalls, DataOwn, NothingKept

\* Another call begins without the data of the last one and without a
\* connection.
LEMMA NextCallStep ==
  ASSUME IInv, NextCall, UNCHANGED <<world, toClean, greeted>>, sockfd' = "none"
  PROVE  IInv'
<1>1. TypeOK'
  <2>1. epgdata' \in Seq([programme : Programme, text : Texts])
    BY DEF NextCall, NoLocals, world
  <2>2. details' \in Texts /\ toSend' \subseteq Channel
    BY NoTextIsText DEF NextCall, NoLocals, world
  <2>3. QED
    BY <2>1, <2>2 DEF IInv, TypeOK, NextCall, NoLocals, world
<1>2. QED
  BY <1>1
  DEF IInv, NextCall, NoLocals, world, OwnDetails, SocketBetweenCalls, DataOwn, NothingKept

\* The clean-up changes files only, if it does not end the process.
LEMMA CleanStep ==
  ASSUME IInv, (\E p \in Programme : Keep(p) \/ DeleteExpired(p)) \/ Cleaned \/ Sleep
  PROVE  IInv'
<1>1. TypeOK'
  BY NoFileIsFile DEF IInv, TypeOK, Keep, DeleteExpired, Cleaned, Sleep, world, loop
<1>2. QED
  BY <1>1
  DEF IInv, Keep, DeleteExpired, Cleaned, Sleep, world, loop, OwnDetails,
      SocketBetweenCalls, DataOwn, NothingKept, Asked

\* From the greeting to the channel whose programmes are sent.
LEMMA ChannelStep ==
  ASSUME IInv,
         Greet \/ LoadGuide \/ \E c \in Channel : SkipChannel(c) \/ NextChannel(c)
  PROVE  IInv'
<1>1. TypeOK'
  <2>1. CASE Greet
    BY <2>1 DEF IInv, TypeOK, Greet, world, loop
  <2>2. CASE LoadGuide
    BY <2>2 DEF IInv, TypeOK, LoadGuide, world
  <2>3. CASE \E c \in Channel : SkipChannel(c)
    BY <2>3 DEF IInv, TypeOK, SkipChannel, world
  <2>4. ASSUME NEW c \in Channel, NextChannel(c) PROVE TypeOK'
    <3>1. epgdata' \in Seq([programme : Programme, text : Texts])
      BY <2>4 DEF NextChannel
    <3>2. more' \in BOOLEAN /\ chan' \in Channel \cup {NoChannel}
      BY <2>4, Zenon DEF NextChannel
    <3>3. QED
      BY <2>4, <3>1, <3>2 DEF IInv, TypeOK, NextChannel, world
  <2>5. QED
    BY <2>1, <2>2, <2>3, <2>4
<1>2. CASE Greet \/ LoadGuide \/ \E c \in Channel : SkipChannel(c)
  BY <1>1, <1>2
  DEF IInv, Greet, LoadGuide, SkipChannel, world, loop, OwnDetails,
      SocketBetweenCalls, DataOwn, NothingKept, Asked
<1>3. CASE \E c \in Channel : NextChannel(c)
  BY <1>1, <1>3
  DEF IInv, NextChannel, world, loop, OwnDetails, SocketBetweenCalls, DataOwn,
      NothingKept, Asked
<1>4. QED
  BY <1>2, <1>3

\* A programme is added to epgdata.
LEMMA AppendStep ==
  ASSUME IInv, NEW p \in Programme, NEW t \in Texts, Append1(p, t),
         t.of \in {p, "none"}, pc = "programmes",
         file' \in [Programme -> Files], more' \in BOOLEAN,
         ~more' \/ round # 0 => t = NoText
  PROVE  IInv'
<1> DEFINE e == [programme |-> p, text |-> t]
<1>1. epgdata \in Seq(Entry) /\ e \in Entry /\ epgdata' = Append(epgdata, e)
  BY DEF IInv, TypeOK, Append1, Entry
<1>2. epgdata' \in Seq(Entry)
  BY <1>1
<1>3. TypeOK'
  BY <1>2 DEF IInv, TypeOK, Append1, Entry
<1>4. DataOwn'
  <2> SUFFICES ASSUME NEW i \in 1 .. Len(epgdata')
               PROVE  epgdata'[i].text.of \in {epgdata'[i].programme, "none"}
    BY DEF DataOwn
  <2>1. CASE i = Len(epgdata) + 1
    BY <1>1, <2>1
  <2>2. CASE i # Len(epgdata) + 1
    <3>1. i \in 1 .. Len(epgdata) /\ epgdata'[i] = epgdata[i]
      BY <1>1, <2>2
    <3>2. QED
      BY <3>1 DEF IInv, DataOwn
  <2>3. QED
    BY <2>1, <2>2
<1>5. QED
  BY <1>3, <1>4 DEF IInv, Append1, OwnDetails, SocketBetweenCalls, NothingKept, Asked

\* A description is asked for; it is that of p, or none.
LEMMA DescribeStep ==
  ASSUME IInv, NEW p \in Programme, Describe(p)
  PROVE  IInv'
<1>1. PICK n \in Got(p) :
        /\ Append1(p, TextOf(p, n))
        /\ more' = (n > 0)
        /\ \/ file' = IF n > 0 THEN [file EXCEPT ![p] = Written(@, n)] ELSE file
           \/ ~calm /\ n > 0 /\ \E f \in Cut(file[p], n) : file' = [file EXCEPT ![p] = f]
  BY DEF Describe
<1>2. n \in 0 .. MaxText
  BY GotType DEF IInv
<1>3. round = 0 /\ pc = "programmes"
  BY DEF Describe, Asked
<1>4. file \in [Programme -> Files]
  BY DEF IInv, TypeOK
<1>5. file' \in [Programme -> Files]
  <2>1. CASE n > 0
    <3>1. n \in 1 .. MaxText
      BY <1>2, <2>1, EpgAssumption
    <3>2. Written(file[p], n) \in Files /\ \A f \in Cut(file[p], n) : f \in Files
      BY <3>1, <1>4, WrittenType, CutType
    <3>3. QED
      BY <1>1, <1>4, <2>1, <3>2
  <2>2. CASE ~(n > 0)
    BY <1>1, <1>4, <2>2
  <2>3. QED
    BY <2>1, <2>2
<1>6. ~more' \/ round # 0 => TextOf(p, n) = NoText
  <2> SUFFICES ASSUME ~more' PROVE TextOf(p, n) = NoText
    BY <1>3
  <2>1. ~(n > 0)
    BY <1>1, Zenon
  <2>2. n = 0
    BY <1>2, <2>1, EpgAssumption
  <2>3. QED
    BY <2>2, <1>2, TextOfType
<1>7. more' \in BOOLEAN
  BY <1>1
<1>8. QED
  BY <1>1, <1>2, <1>3, <1>5, <1>6, <1>7, TextOfType, AppendStep

\* Without asking there is none.
LEMMA ListStep ==
  ASSUME IInv, NEW p \in Programme, List(p)
  PROVE  IInv'
<1>1. details = NoText /\ Append1(p, NoText) /\ pc = "programmes"
  BY DEF IInv, NothingKept, List
<1>2. file' \in [Programme -> Files] /\ more' \in BOOLEAN
  BY DEF IInv, TypeOK, List
<1>3. QED
  BY <1>1, <1>2, NoTextIsText, AppendStep

\* VDR gets what is in epgdata.
LEMMA PutStep ==
  ASSUME IInv, Put
  PROVE  IInv'
<1>1. /\ pc' = "channels"
      /\ UNCHANGED <<file, vdrUp, calm, toClean, greeted, round, loop>>
      /\ sockfd' \in {"none", "open", "closed"}
  BY DEF Put, IInv, TypeOK
<1>2. vdr' \in [Programme -> Texts] /\ \A p \in Programme : vdr'[p].of \in {p, "none"}
  <2>1. CASE vdr' = vdr
    BY <2>1 DEF IInv, TypeOK, OwnDetails
  <2>2. CASE vdr' # vdr
    <3> DEFINE Data == {epgdata[i] : i \in 1 .. Len(epgdata)}
               Sent(p) == CHOOSE e \in Data : e.programme = p
               Has(p) == \E i \in 1 .. Len(epgdata) : epgdata[i].programme = p
    <3>1. vdr' = [p \in Programme |-> IF Has(p) THEN Sent(p).text ELSE vdr[p]]
      BY <2>2 DEF Put
    <3>2. \A e \in Data : e.text \in Texts /\ e.text.of \in {e.programme, "none"}
      <4> SUFFICES ASSUME NEW i \in 1 .. Len(epgdata)
                   PROVE  /\ epgdata[i].text \in Texts
                          /\ epgdata[i].text.of \in {epgdata[i].programme, "none"}
        OBVIOUS
      <4>1. epgdata \in Seq(Entry)
        BY DEF IInv, TypeOK, Entry
      <4>2. epgdata[i] \in Entry
        BY <4>1
      <4>3. QED
        BY <4>2 DEF IInv, DataOwn, Entry
    <3>3. \A p \in Programme : Has(p) => Sent(p) \in Data /\ Sent(p).programme = p
      OBVIOUS
    <3>4. \A p \in Programme : vdr[p] \in Texts /\ vdr[p].of \in {p, "none"}
      BY DEF IInv, TypeOK, OwnDetails
    <3> HIDE DEF Data, Sent, Has
    <3>5. QED
      BY <3>1, <3>2, <3>3, <3>4
  <2>3. QED
    BY <2>1, <2>2
<1>3. TypeOK'
  BY <1>1, <1>2 DEF IInv, TypeOK, loop
<1>4. QED
  BY <1>1, <1>2, <1>3
  DEF IInv, loop, OwnDetails, SocketBetweenCalls, DataOwn, NothingKept, Asked

\* Files expire and connections end.
LEMMA WorldStep ==
  ASSUME IInv,
         VdrStops \/ VdrStarts \/ HangUp \/ Restart \/ \E p \in Programme : Expire(p)
  PROVE  IInv'
<1>1. ASSUME NEW p \in Programme, Expire(p) PROVE IInv'
  <2>1. [file[p] EXCEPT !.expired = TRUE] \in Files
    <3>1. /\ file[p] \in [exists : BOOLEAN, length : 0 .. MaxText,
                         text : 0 .. MaxText, expired : BOOLEAN]
          /\ file[p].text \in {0, file[p].length}
          /\ ~file[p].exists => file[p] = NoFile
      BY DEF IInv, TypeOK, Files
    <3>2. file[p].text > 0
      BY <1>1 DEF Expire, Readable
    <3>3. file[p].exists /\ file[p].text # 0
      BY <3>1, <3>2, EpgAssumption DEF NoFile
    <3> DEFINE f == file[p]
               g == [f EXCEPT !.expired = TRUE]
    <3>4. /\ g \in [exists : BOOLEAN, length : 0 .. MaxText, text : 0 .. MaxText,
                    expired : BOOLEAN]
          /\ g.text = f.text /\ g.length = f.length /\ g.exists = f.exists
      BY <3>1
    <3>5. QED
      BY <3>1, <3>3, <3>4 DEF Files
  <2>2. TypeOK'
    BY <1>1, <2>1 DEF IInv, TypeOK, Expire, loop
  <2>3. QED
    BY <1>1, <2>2
    DEF IInv, Expire, loop, OwnDetails, SocketBetweenCalls, DataOwn, NothingKept, Asked
<1>2. CASE VdrStops \/ VdrStarts \/ HangUp \/ Restart
  <2>1. TypeOK'
    BY <1>2 DEF IInv, TypeOK, VdrStops, VdrStarts, HangUp, Restart, world, loop
  <2>2. QED
    BY <1>2, <2>1
    DEF IInv, VdrStops, VdrStarts, HangUp, Restart, world, loop, OwnDetails,
        SocketBetweenCalls, DataOwn, NothingKept, Asked
<1>3. QED
  BY <1>1, <1>2

\* Every step keeps the invariant.
LEMMA NextIInv == IInv /\ [Next]_vars => IInv'
<1> SUFFICES ASSUME IInv, [Next]_vars PROVE IInv'
  OBVIOUS
<1>1. CASE (\E p \in Programme : Keep(p) \/ DeleteExpired(p)) \/ Cleaned \/ Sleep
  BY <1>1, CleanStep
<1>2. ASSUME NEW p \in Programme, DeleteGarbled(p) PROVE IInv'
  BY <1>2, DieStep, NoFileIsFile DEF DeleteGarbled, IInv, TypeOK
<1>3. ASSUME NEW p \in Programme, Describe(p) \/ List(p) PROVE IInv'
  BY <1>3, DescribeStep, ListStep
<1>4. CASE Greet \/ LoadGuide \/ \E c \in Channel : SkipChannel(c) \/ NextChannel(c)
  BY <1>4, ChannelStep
<1>5. CASE LoadNothing
  BY <1>5, NextCallStep DEF LoadNothing, IInv, SocketBetweenCalls
<1>6. CASE Quit
  BY <1>6, NextCallStep DEF Quit
<1>7. CASE Put
  BY <1>7, PutStep
<1>8. CASE BrokenPipe \/ Crash
  BY <1>8, DieStep DEF BrokenPipe, Crash, world, IInv, TypeOK
<1>9. CASE VdrStops \/ VdrStarts \/ HangUp \/ Restart \/ \E p \in Programme : Expire(p)
  BY <1>9, WorldStep
<1>10. CASE UNCHANGED vars
  <2>1. TypeOK'
    BY <1>10 DEF IInv, TypeOK, vars, world, loop
  <2>2. QED
    BY <1>10, <2>1
    DEF IInv, vars, world, loop, OwnDetails, SocketBetweenCalls, DataOwn, NothingKept, Asked
<1>11. QED
  BY <1>10, <1>1, <1>2, <1>3, <1>4, <1>5, <1>6, <1>7, <1>8, <1>9
  DEF Next, ThreadStep, World

(* The inductive invariant holds of every state of the program.            *)
THEOREM EpgInvariant == Spec => []IInv
  BY InitIInv, NextIInv, PTL DEF Spec

(* The variables keep to their ranges, files that were cut included.       *)
THEOREM TypeCorrect == Spec => []TypeOK
<1>1. IInv => TypeOK
  BY DEF IInv
<1>2. QED
  BY <1>1, EpgInvariant, PTL

(* VDR is sent a programme with its own description or with none, for any  *)
(* guide, any cache and any crash between two steps.                       *)
THEOREM DetailsAreOwn == Spec => []OwnDetails
<1>1. IInv => OwnDetails
  BY DEF IInv
<1>2. QED
  BY <1>1, EpgInvariant, PTL

(* No connection to VDR is left open while the thread does not send.       *)
THEOREM ClosedBetweenCalls == Spec => []SocketBetweenCalls
<1>1. IInv => SocketBetweenCalls
  BY DEF IInv
<1>2. QED
  BY <1>1, EpgInvariant, PTL
=============================================================================
