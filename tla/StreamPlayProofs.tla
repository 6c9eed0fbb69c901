-------------------------- MODULE StreamPlayProofs --------------------------
(***************************************************************************)
(* The properties of StreamPlay for every number of representations and of *)
(* changes between them: that of the ADTS headers for every list of        *)
(* streams, the others for every list that begins with its only video      *)
(* stream.                                                                 *)
(***************************************************************************)
EXTENDS StreamPlay, SequenceTheorems, TLAPS

Unit == [nal : Nal, of : ParameterSets, added : BOOLEAN]
Row == [ID : DOMAIN streams, type : {"video", "audio"}, codec : {"avcC", "annexb", "aac", "eac3"}]

\* The parameter sets of the representation the video is delivered in.
Current == <<1, rep[1]>>

StreamsOK ==
  /\ streams \in Seq(Stream)
  /\ \A i \in DOMAIN streams : streams[i].type = "video" <=> i = 1
  /\ rep \in [DOMAIN streams -> Reps]
  /\ changes \in 0 .. MaxChanges
  /\ phase \in {"ids", "table", "start", "play", "convert", "end"}

\* The table begins with the streams in their order, and whatever is added to
\* it later says of a stream what its first entry says.
TableOK ==
  /\ ID_type \in Seq(Row)
  /\ \A i \in DOMAIN ID_type : ID_type[i] = Entry(ID_type[i].ID)
  /\ \A i \in DOMAIN ID_type : i <= Len(streams) => ID_type[i].ID = i
  /\ phase = "table" => Len(ID_type) <= Len(streams)
  /\ phase \in {"start", "play", "convert"} => Len(ID_type) >= Len(streams)

SelectedOK ==
  /\ VideoID \in {0} \cup {s \in DOMAIN streams : streams[s].type = "video"}
  /\ AudioID \in {0} \cup {s \in DOMAIN streams : streams[s].codec = "aac"}
  /\ opened \subseteq DOMAIN streams
  /\ opened \subseteq {VideoID, AudioID}
  /\ phase \in {"ids", "table", "start"} => opened = {}
  /\ phase \in {"start", "play", "convert"} /\ streams # <<>> => VideoID = 1
  /\ adts \in ParameterSets

\* The converter is open for what the add-on delivers.
ConverterOK ==
  /\ conv \in Converter
  /\ phase \in {"ids", "table", "start"} => ~conv.m_to_annexb
  /\ conv.m_to_annexb =>
       /\ conv.m_convert_bitstream
       /\ conv.sps_pps_data = Current
       /\ conv.length_size = LengthSize[rep[1]]
  /\ phase \in {"play", "convert"} /\ streams # <<>> =>
       (conv.m_to_annexb <=> streams[1].codec = "avcC")

\* What is left of a packet and what has become of it.
WorkOK ==
  /\ todo \in Seq(Nal)
  /\ out \in Seq(Unit)
  /\ audioseen \in BOOLEAN /\ firstvideo \in BOOLEAN /\ lost \in BOOLEAN
  /\ phase = "convert" =>
       /\ streams # <<>>
       /\ packet.from = 1
       /\ packet.nals \in Packets
       /\ ~conv.m_to_annexb => todo = <<>> /\ WithParameters(packet.nals)
       /\ \A i \in DOMAIN out : out[i].of = Current

\* Slices end the parameter sets of a packet, and an IDR slice leaves nothing
\* to be put in front of another one.
OrderOK ==
  phase = "convert" =>
    /\ \A i, j \in DOMAIN todo :
         /\ i < j /\ todo[i] \in {"idr", "slice"} => todo[j] # "params"
         /\ todo[i] = "idr" => todo[j] # "slice"
    /\ \A i, j \in DOMAIN out :
         i < j /\ out[i].nal \in {"idr", "slice"} => out[j].nal # "params"
    /\ \A i \in DOMAIN out : \A j \in DOMAIN todo :
         /\ out[i].nal \in {"idr", "slice"} => todo[j] # "params"
         /\ out[i].nal = "idr" => todo[j] # "slice"
         /\ out[i].nal = "slice" => todo[j] # "idr"
    /\ conv.m_to_annexb => \A i \in DOMAIN out :
         out[i].nal = "idr" => ~conv.first_idr \/ conv.idr_sps_pps_seen

\* The decoder has the parameter sets, or they are before unit n of the output.
Has(n) == params = Current \/ \E j \in 1 .. n - 1 : out[j].nal = "params"

\* When the converter does not mean to add parameter sets the decoder has them
\* or gets them with this packet.
HeldOK ==
  conv.m_to_annexb /\ ~lost =>
    /\ phase = "play" /\ (~conv.first_idr \/ conv.idr_sps_pps_seen) => params = Current
    /\ phase = "convert" =>
         /\ ~conv.first_idr \/ conv.idr_sps_pps_seen => Has(Len(out) + 1)
         /\ \A i \in DOMAIN out : out[i].nal = "idr" => Has(i)

FrameOK ==
  /\ params \in ParameterSets
  /\ joins \in BOOLEAN
  /\ Decodable
  /\ ParametersFirst

IInv ==
  /\ StreamsOK /\ TableOK /\ SelectedOK /\ ConverterOK
  /\ WorkOK /\ OrderOK /\ HeldOK /\ FrameOK
-----------------------------------------------------------------------------
(* The beginning, and steps before the loop *)

LEMMA InitInv ==
  ASSUME VideoFirst, Init
  PROVE  IInv
<1> USE PlayAssumption DEF Init
<1>1. StreamsOK
  BY DEF StreamsOK, VideoFirst
<1>2. TableOK
  BY DEF TableOK
<1>3. SelectedOK
  BY DEF SelectedOK, ParameterSets
<1>4. ConverterOK
  BY DEF ConverterOK, Converter, Initialized, ParameterSets
<1>5. WorkOK
  <2>1. <<>> \in Seq(Nal) /\ <<>> \in Seq(Unit)
    BY EmptySeq
  <2> QED BY <2>1 DEF WorkOK
<1>6. OrderOK /\ HeldOK
  BY DEF OrderOK, HeldOK, Initialized
<1>7. FrameOK
  <2>1. frame.units = <<>> /\ frame.type = "none" /\ DOMAIN frame.units = {}
    BY DEF NoFrame
  <2>2. None \in ParameterSets
    BY DEF ParameterSets
  <2> QED BY <2>1, <2>2 DEF FrameOK, Decodable, ParametersFirst
<1> QED BY <1>1, <1>2, <1>3, <1>4, <1>5, <1>6, <1>7 DEF IInv

\* Steps before the loop leave the frames and the packet alone.
LEMMA FramesAlone ==
  ASSUME IInv, UNCHANGED <<streams, decoder>>
  PROVE  FrameOK'
BY DEF IInv, FrameOK, Decodable, ParametersFirst, InForce, ParameterSets, decoder

LEMMA WorkAlone ==
  ASSUME IInv, UNCHANGED <<streams, rep, flags, work, lost>>, phase' # "convert"
  PROVE  WorkOK' /\ OrderOK'
BY DEF IInv, WorkOK, OrderOK, Unit, ParameterSets, flags, work

LEMMA GetStreamIDsInv ==
  ASSUME IInv, GetStreamIDs
  PROVE  IInv'
<1> USE DEF GetStreamIDs, IInv, addon
<1>1. StreamsOK'
  BY DEF StreamsOK
<1>2. TableOK'
  BY DEF TableOK
<1>3. SelectedOK'
  BY DEF SelectedOK, ParameterSets
<1>4. ConverterOK'
  BY DEF ConverterOK, Converter, Initialized, ParameterSets
<1>5. WorkOK' /\ OrderOK'
  BY WorkAlone
<1>6. HeldOK'
  BY DEF HeldOK, ConverterOK, Initialized
<1>7. FrameOK'
  BY FramesAlone
<1> QED BY <1>1, <1>2, <1>3, <1>4, <1>5, <1>6, <1>7

\* The entry of a stream.
LEMMA EntryRow ==
  ASSUME streams \in Seq(Stream), NEW s \in DOMAIN streams
  PROVE  Entry(s) \in Row /\ Entry(s).ID = s /\ Entry(s).type = streams[s].type
<1>1. streams[s] \in Stream
  OBVIOUS
<1> QED BY <1>1 DEF Entry, Row, Stream

\* The video stream is there when there is any.
LEMMA FirstStream ==
  ASSUME StreamsOK, streams # <<>>
  PROVE  1 \in DOMAIN streams /\ streams[1] \in Stream /\ streams[1].type = "video"
<1>1. Len(streams) \in Nat \ {0} /\ DOMAIN streams = 1 .. Len(streams)
  BY EmptySeq, LenProperties DEF StreamsOK
<1> QED BY <1>1 DEF StreamsOK

\* The table grows by the streams in their order.
LEMMA BuildTableRows ==
  ASSUME streams \in Seq(Stream), TableOK, BuildTable
  PROVE  TableOK'
<1> USE DEF BuildTable, addon
<1> DEFINE n == Len(ID_type) + 1
<1>1. n \in DOMAIN streams /\ Len(ID_type) \in Nat /\ Len(streams) \in Nat
  BY DEF TableOK
<1>2. Entry(n) \in Row /\ Entry(n).ID = n
  BY <1>1, EntryRow
<1>3. /\ ID_type' \in Seq(Row) /\ Len(ID_type') = n /\ ID_type'[n] = Entry(n)
      /\ \A i \in DOMAIN ID_type' : i # n => i \in DOMAIN ID_type /\ ID_type'[i] = ID_type[i]
  BY <1>2 DEF TableOK
<1>4. \A i \in DOMAIN ID_type' : ID_type'[i] = Entry(ID_type'[i].ID)
  BY <1>2, <1>3 DEF TableOK
<1>5. \A i \in DOMAIN ID_type' : i <= Len(streams) => ID_type'[i].ID = i
  BY <1>2, <1>3 DEF TableOK
<1> QED BY <1>1, <1>3, <1>4, <1>5 DEF TableOK, Entry, Row

LEMMA BuildTableInv ==
  ASSUME IInv, BuildTable
  PROVE  IInv'
<1> USE DEF BuildTable, IInv, addon
<1>1. StreamsOK'
  BY DEF StreamsOK
<1>2. TableOK'
  BY BuildTableRows DEF StreamsOK
<1>3. SelectedOK' /\ ConverterOK' /\ HeldOK'
  BY DEF SelectedOK, ConverterOK, Converter, ParameterSets, HeldOK
<1>4. WorkOK' /\ OrderOK'
  BY WorkAlone
<1>5. FrameOK'
  BY FramesAlone
<1> QED BY <1>1, <1>2, <1>3, <1>4, <1>5

LEMMA SelectStreamsInv ==
  ASSUME IInv, SelectStreams
  PROVE  IInv'
<1> USE DEF SelectStreams, IInv, addon
<1>1. StreamsOK'
  BY DEF StreamsOK
<1>2. TableOK'
  BY DEF TableOK, Entry, Row
<1>3. SelectedOK'
  <2>1. \A i \in 1 .. Len(ID_type) : ID_type[i] = Entry(i)
    BY DEF TableOK
  <2>2. 1 .. Len(ID_type) = DOMAIN streams
    BY DEF StreamsOK
  <2>3. \A i \in DOMAIN streams : /\ ID_type[i].type = streams[i].type
                                  /\ ID_type[i].codec = streams[i].codec
    <3>1. \A i : Entry(i).type = streams[i].type /\ Entry(i).codec = streams[i].codec
      BY DEF Entry
    <3> QED BY <2>1, <2>2, <3>1
  <2>4. VideoID' \in {0} \cup {s \in DOMAIN streams : streams[s].type = "video"}
    BY <2>2, <2>3 DEF StreamsOK
  <2>5. AudioID' \in {0} \cup {s \in DOMAIN streams : streams[s].codec = "aac"}
    <3>1. \A s \in DOMAIN streams : streams[s].type = "audio" /\ streams[s].codec # "eac3" => streams[s].codec = "aac"
      BY DEF StreamsOK, Stream
    <3> QED BY <2>2, <2>3, <3>1 DEF Usable, StreamsOK
  <2>6. streams # <<>> => VideoID' = 1
    <3> SUFFICES ASSUME streams # <<>> PROVE VideoID' = 1
      OBVIOUS
    <3>1. 1 \in DOMAIN streams /\ streams[1].type = "video"
      BY FirstStream
    <3>2. Len(ID_type) \in Nat /\ Len(ID_type) >= 1
      BY <2>2, <3>1 DEF TableOK
    <3>3. VideoID' # 0
      <4> SUFFICES ASSUME VideoID' = 0 PROVE FALSE
        OBVIOUS
      <4>1. 1 \in VideoID' + 1 .. Len(ID_type)
        BY <3>2
      <4>2. ID_type[1].type # "video"
        BY <4>1
      <4> QED BY <2>3, <3>1, <4>2
    <3> QED BY <2>4, <3>3 DEF StreamsOK
  <2> QED BY <2>4, <2>5, <2>6 DEF SelectedOK, ParameterSets
<1>4. ConverterOK' /\ HeldOK'
  BY DEF ConverterOK, Converter, ParameterSets, HeldOK
<1>5. WorkOK' /\ OrderOK'
  BY WorkAlone
<1>6. FrameOK'
  BY FramesAlone
<1> QED BY <1>1, <1>2, <1>3, <1>4, <1>5, <1>6

\* The table grows at its end.
LEMMA Lengthened ==
  ASSUME streams \in Seq(Stream), NEW T, T \in Seq(Row),
         \A i \in DOMAIN T : T[i] = Entry(T[i].ID),
         \A i \in DOMAIN T : i <= Len(streams) => T[i].ID = i,
         Len(T) >= Len(streams),
         NEW s \in {0} \cup DOMAIN streams, NEW U, U = T \o Entries(s)
  PROVE  /\ U \in Seq(Row)
         /\ \A i \in DOMAIN U : U[i] = Entry(U[i].ID)
         /\ \A i \in DOMAIN U : i <= Len(streams) => U[i].ID = i
         /\ Len(U) >= Len(streams)
<1>1. CASE s = 0
  BY <1>1 DEF Entries
<1>2. CASE s \in DOMAIN streams
  <2>1. s # 0 /\ Len(streams) \in Nat
    BY <1>2
  <2>2. Entry(s) \in Row /\ Entry(s).ID = s
    BY <1>2, EntryRow
  <2>3. U = T \o <<Entry(s)>>
    BY <2>1 DEF Entries
  <2>4. /\ U \in Seq(Row) /\ Len(U) = Len(T) + 1 /\ U[Len(T) + 1] = Entry(s)
        /\ \A i \in 1 .. Len(T) : U[i] = T[i]
    BY <2>2, <2>3
  <2>5. DOMAIN U = 1 .. Len(T) + 1 /\ DOMAIN T = 1 .. Len(T) /\ Len(T) \in Nat
    BY <2>4
  <2>6. \A i \in DOMAIN U : U[i] = Entry(U[i].ID)
    BY <2>2, <2>4, <2>5
  <2>7. \A i \in DOMAIN U : i <= Len(streams) => U[i].ID = i
    BY <2>1, <2>4, <2>5
  <2> QED BY <2>1, <2>4, <2>5, <2>6, <2>7
<1> QED BY <1>1, <1>2

\* What opening does to the converter.
LEMMA OpenedVideo ==
  ASSUME StreamsOK, streams # <<>>, NEW c \in Converter, NEW r \in Reps
  PROVE  LET d == Transferred(c, 1, r) IN
         /\ d \in Converter
         /\ d.m_to_annexb <=> streams[1].codec = "avcC"
         /\ d.m_to_annexb => /\ d.m_convert_bitstream /\ d.sps_pps_data = <<1, r>>
                             /\ d.length_size = LengthSize[r]
                             /\ d.first_idr /\ ~d.idr_sps_pps_seen
<1> DEFINE d == Transferred(c, 1, r)
<1>1. 1 \in DOMAIN streams /\ streams[1].type = "video"
  BY FirstStream
<1>2. d = Opened(c, 1, r)
  BY <1>1 DEF Transferred
<1>3. <<1, r>> \in ParameterSets /\ None \in ParameterSets
  BY <1>1 DEF ParameterSets
<1>4. LengthSize[r] \in 0 .. 4
  BY PlayAssumption
<1>5. CASE streams[1].codec = "avcC"
  <2>1. d = [m_to_annexb |-> TRUE, m_convert_bitstream |-> TRUE, sps_pps_data |-> <<1, r>>,
             length_size |-> LengthSize[r], first_idr |-> TRUE, idr_sps_pps_seen |-> FALSE]
    BY <1>2, <1>5 DEF Opened
  <2> HIDE DEF d
  <2>2. d \in Converter
    BY <1>3, <1>4, <2>1 DEF Converter
  <2> USE DEF d
  <2> QED BY <1>5, <2>1, <2>2
<1>6. CASE streams[1].codec # "avcC"
  <2>1. d = [c EXCEPT !.m_to_annexb = FALSE, !.m_convert_bitstream = FALSE, !.sps_pps_data = None]
    BY <1>2, <1>6 DEF Opened
  <2> HIDE DEF d
  <2>2. d \in Converter
    BY <1>3, <2>1 DEF Converter
  <2>3. d.m_to_annexb = FALSE
    BY <2>1 DEF Converter
  <2> USE DEF d
  <2> QED BY <1>6, <2>2, <2>3
<1> QED BY <1>5, <1>6

LEMMA StartStreamsRows ==
  ASSUME streams \in Seq(Stream), TableOK, StartStreams,
         VideoID \in {0} \cup DOMAIN streams, AudioID \in {0} \cup DOMAIN streams
  PROVE  TableOK'
<1> USE DEF StartStreams
<1> DEFINE T == ID_type \o Entries(VideoID)
<1>1. /\ T \in Seq(Row)
      /\ \A i \in DOMAIN T : T[i] = Entry(T[i].ID)
      /\ \A i \in DOMAIN T : i <= Len(streams) => T[i].ID = i
      /\ Len(T) >= Len(streams)
  BY Lengthened DEF TableOK
<1>2. ID_type' = T \o Entries(AudioID)
  OBVIOUS
<1> HIDE DEF T
<1>3. /\ ID_type' \in Seq(Row)
      /\ \A i \in DOMAIN ID_type' : ID_type'[i] = Entry(ID_type'[i].ID)
      /\ \A i \in DOMAIN ID_type' : i <= Len(streams) => ID_type'[i].ID = i
      /\ Len(ID_type') >= Len(streams)
  BY <1>1, <1>2, Lengthened
<1> QED BY <1>3 DEF TableOK, Entry, Row

LEMMA StartStreamsInv ==
  ASSUME IInv, StartStreams
  PROVE  IInv'
<1> USE DEF StartStreams, IInv
<1>1. StreamsOK'
  BY DEF StreamsOK
<1>2. VideoID \in {0} \cup DOMAIN streams /\ AudioID \in {0} \cup DOMAIN streams
  BY DEF SelectedOK
<1>3. TableOK'
  BY <1>2, StartStreamsRows DEF StreamsOK
<1>4. SelectedOK'
  <2>1. opened' \subseteq {VideoID, AudioID} /\ opened' \subseteq DOMAIN streams
    BY <1>2
  <2>2. adts' \in ParameterSets
    BY <1>2 DEF Described, SelectedOK, StreamsOK, ParameterSets
  <2> QED BY <2>1, <2>2 DEF SelectedOK, ParameterSets
<1>5. ConverterOK' /\ HeldOK'
  <2>1. CASE streams = <<>>
    <3>1. conv' = conv /\ ~conv.m_to_annexb
      BY <2>1 DEF SelectedOK, ConverterOK, Transferred
    <3> QED BY <2>1, <3>1 DEF ConverterOK, HeldOK, Converter, ParameterSets
  <2>2. CASE streams # <<>>
    <3>1. VideoID = 1 /\ rep[1] \in Reps /\ conv \in Converter
      BY <2>2, FirstStream DEF SelectedOK, StreamsOK, ConverterOK
    <3>2. conv' = Transferred(conv, 1, rep[1])
      BY <3>1
    <3>3. /\ conv' \in Converter
          /\ conv'.m_to_annexb <=> streams[1].codec = "avcC"
          /\ conv'.m_to_annexb => /\ conv'.m_convert_bitstream /\ conv'.sps_pps_data = <<1, rep[1]>>
                                  /\ conv'.length_size = LengthSize[rep[1]]
                                  /\ conv'.first_idr /\ ~conv'.idr_sps_pps_seen
      BY <2>2, <3>1, <3>2, OpenedVideo
    <3>4. Converter' = Converter
      BY DEF Converter, ParameterSets
    <3> QED BY <3>3, <3>4 DEF ConverterOK, HeldOK, Current
  <2> QED BY <2>1, <2>2
<1>6. WorkOK' /\ OrderOK'
  BY WorkAlone
<1>7. FrameOK'
  BY FramesAlone
<1> QED BY <1>1, <1>3, <1>4, <1>5, <1>6, <1>7

-----------------------------------------------------------------------------
(* Changes of representation, audio, and the packets of the video *)

LEMMA StreamChangeRows ==
  ASSUME streams \in Seq(Stream), TableOK, 1 \in DOMAIN streams,
         NEW s \in opened, NEW r \in Reps, StreamChange(s, r)
  PROVE  TableOK'
<1> USE DEF StreamChange, ID
<1>1. ID_type' = ID_type \o Entries(1)
  BY DEF Entries, TableOK
<1>2. /\ ID_type' \in Seq(Row)
      /\ \A i \in DOMAIN ID_type' : ID_type'[i] = Entry(ID_type'[i].ID)
      /\ \A i \in DOMAIN ID_type' : i <= Len(streams) => ID_type'[i].ID = i
      /\ Len(ID_type') >= Len(streams)
  BY <1>1, Lengthened DEF TableOK
<1> QED BY <1>2 DEF TableOK, Entry, Row

LEMMA StreamChangeInv ==
  ASSUME IInv, NEW s \in opened, NEW r \in Reps, StreamChange(s, r)
  PROVE  IInv'
<1> USE DEF StreamChange, IInv, ID
<1>1. s \in DOMAIN streams /\ streams # <<>>
  BY DEF SelectedOK
<1>2. 1 \in DOMAIN streams /\ streams[1].type = "video" /\ VideoID = 1
  BY <1>1, FirstStream DEF SelectedOK
<1>3. StreamsOK'
  <2>1. changes' \in 0 .. MaxChanges
    BY PlayAssumption DEF StreamsOK
  <2>2. rep' \in [DOMAIN streams -> Reps]
    BY DEF StreamsOK
  <2> QED BY <2>1, <2>2 DEF StreamsOK
<1>4. TableOK'
  BY <1>2, StreamChangeRows DEF StreamsOK
<1>5. SelectedOK'
  BY <1>2 DEF SelectedOK, Described, ParameterSets
<1>6. ConverterOK' /\ HeldOK'
  <2> DEFINE c == Closed(conv)
             q == rep'[1]
  <2>1. c \in Converter
    BY DEF Closed, ConverterOK, Converter, ParameterSets
  <2>2. q \in Reps
    BY <1>2, <1>3 DEF StreamsOK
  <2>3. conv' = Transferred(c, 1, q)
    OBVIOUS
  <2> HIDE DEF c, q
  <2>4. /\ conv' \in Converter
        /\ conv'.m_to_annexb <=> streams[1].codec = "avcC"
        /\ conv'.m_to_annexb => /\ conv'.m_convert_bitstream /\ conv'.sps_pps_data = <<1, q>>
                                /\ conv'.length_size = LengthSize[q]
                                /\ conv'.first_idr /\ ~conv'.idr_sps_pps_seen
    BY <1>1, <2>1, <2>2, <2>3, OpenedVideo
  <2>5. Converter' = Converter /\ Current' = <<1, q>>
    BY DEF Converter, ParameterSets, Current, q
  <2> QED BY <2>4, <2>5 DEF ConverterOK, HeldOK, q
<1>7. WorkOK' /\ OrderOK'
  BY DEF WorkOK, OrderOK, Unit, ParameterSets, flags, work
<1>8. FrameOK'
  BY FramesAlone
<1> QED BY <1>3, <1>4, <1>5, <1>6, <1>7, <1>8

\* A packet is taken for what its stream is.
LEMMA TypeOfStream ==
  ASSUME streams \in Seq(Stream), TableOK, phase \in {"play", "convert"},
         NEW s \in DOMAIN streams
  PROVE  GetType(s) = streams[s].type
<1> DEFINE First(i) == i \in DOMAIN ID_type /\ ID_type[i].ID = s /\ \A j \in 1 .. i - 1 : ID_type[j].ID # s
           i == CHOOSE i \in DOMAIN ID_type :
                  ID_type[i].ID = s /\ \A j \in 1 .. i - 1 : ID_type[j].ID # s
<1>1. s \in 1 .. Len(streams) /\ Len(streams) \in Nat
  OBVIOUS
<1>2. \A j \in 1 .. s : j \in DOMAIN ID_type /\ ID_type[j].ID = j
  BY <1>1 DEF TableOK
<1>3. First(s)
  BY <1>1, <1>2
<1>4. i \in DOMAIN ID_type /\ ID_type[i].ID = s
  BY <1>3
<1>5. ID_type[i] = Entry(s)
  BY <1>4 DEF TableOK
<1> QED BY <1>5, EntryRow DEF GetType

LEMMA ReadAudioInv ==
  ASSUME IInv, NEW s \in opened, ReadAudio(s)
  PROVE  IInv'
<1> USE DEF ReadAudio, IInv, addon, table
<1>1. streams[s].type = "audio" /\ s \in DOMAIN streams
  BY TypeOfStream DEF SelectedOK, StreamsOK
<1>3. StreamsOK' /\ TableOK' /\ SelectedOK'
  BY DEF StreamsOK, TableOK, SelectedOK, Entry, Row, ParameterSets
<1>4. ConverterOK' /\ HeldOK'
  BY DEF ConverterOK, Converter, ParameterSets, HeldOK, Current
<1>5. WorkOK' /\ OrderOK'
  BY DEF WorkOK, OrderOK, Unit, ParameterSets, work
<1>6. FrameOK'
  <2>1. frame'.units = <<>> /\ DOMAIN frame'.units = {}
    BY DEF NoFrame
  <2> QED BY <2>1 DEF FrameOK, Decodable, ParametersFirst, ParameterSets
<1> QED BY <1>3, <1>4, <1>5, <1>6

LEMMA ReadVideoInv ==
  ASSUME IInv, NEW s \in opened, NEW nals \in Packets, NEW broken \in BOOLEAN,
         ReadVideo(s, nals, broken)
  PROVE  IInv'
<1> USE DEF ReadVideo, IInv, addon, table
<1>1. s \in DOMAIN streams /\ streams[s].type = "video"
  BY TypeOfStream DEF SelectedOK, StreamsOK
<1>2. s = 1 /\ streams # <<>>
  BY <1>1 DEF StreamsOK
<1>3. streams[1].codec \in {"avcC", "annexb"}
  <2>1. streams[1] \in Stream /\ streams[1].type = "video"
    BY <1>2, FirstStream
  <2> QED BY <2>1 DEF Stream
<1>4. StreamsOK' /\ TableOK' /\ SelectedOK' /\ ConverterOK'
  BY <1>2 DEF StreamsOK, TableOK, SelectedOK, Entry, Row, ConverterOK, Converter, ParameterSets, Current
<1>5. todo' \in Seq(Nal) /\ out' = <<>>
  BY PlayAssumption
<1>6. WorkOK'
  <2>1. packet'.from = 1 /\ packet'.nals = nals
    BY <1>2
  <2>2. out' \in Seq(Unit') /\ DOMAIN out' = {}
    BY <1>5
  <2>3. ~conv.m_to_annexb => todo' = <<>> /\ WithParameters(nals)
    BY <1>2, <1>3 DEF Converting, ConverterOK
  <2> QED BY <1>2, <1>5, <2>1, <2>2, <2>3 DEF WorkOK, flags, WithParameters
<1>7. OrderOK'
  <2>1. DOMAIN out' = {} /\ (todo' = nals \/ todo' = <<>>)
    BY <1>5
  <2> QED BY <2>1, PlayAssumption DEF OrderOK
<1>8. HeldOK'
  BY <1>5 DEF HeldOK, Has, Current, decoder
<1>9. FrameOK'
  BY FramesAlone
<1> QED BY <1>4, <1>6, <1>7, <1>8, <1>9

LEMMA ConvertFailsInv ==
  ASSUME IInv, ConvertFails
  PROVE  IInv'
<1> USE DEF ConvertFails, IInv, addon, table
<1>1. StreamsOK' /\ TableOK' /\ SelectedOK' /\ ConverterOK'
  BY DEF StreamsOK, TableOK, SelectedOK, Entry, Row, ConverterOK, Converter, ParameterSets, Current
<1>2. DOMAIN todo' = {} /\ DOMAIN out' = {} /\ out' \in Seq(Unit') /\ todo' \in Seq(Nal)
  OBVIOUS
<1>3. WorkOK' /\ OrderOK'
  BY <1>2 DEF WorkOK, OrderOK, flags, WithParameters
<1>4. HeldOK'
  BY DEF HeldOK
<1>5. FrameOK'
  BY FramesAlone
<1> QED BY <1>1, <1>3, <1>4, <1>5

\* A round of the loop puts one unit, or the parameter sets and one unit, at
\* the end of the output.
LEMMA Converted ==
  ASSUME IInv, ConvertNal
  PROVE  /\ conv.m_to_annexb /\ conv.sps_pps_data = Current /\ Own = Current
         /\ Current \in ParameterSets
         /\ Head(todo) \in Nal /\ Len(out) \in Nat
         /\ out' \in Seq(Unit)
         /\ \A i \in 1 .. Len(out) : out'[i] = out[i]
         /\ Prepended => /\ Len(out') = Len(out) + 2
                         /\ out'[Len(out) + 1] = Added
         /\ ~Prepended => Len(out') = Len(out) + 1
         /\ out'[Len(out')] = Copy(Head(todo))
<1> USE DEF ConvertNal, IInv
<1>1. conv.m_to_annexb /\ conv.sps_pps_data = Current /\ Own = Current
  BY DEF WorkOK, ConverterOK, Own, Current
<1>2. Current \in ParameterSets
  BY FirstStream DEF Current, ParameterSets, StreamsOK, WorkOK
<1>3. Head(todo) \in Nal
  BY DEF WorkOK
<1>4. Added \in Unit /\ Copy(Head(todo)) \in Unit
  BY <1>1, <1>2, <1>3 DEF Added, Copy, Unit, Nal
<1>5. out \in Seq(Unit) /\ Len(out) \in Nat
  BY DEF WorkOK
<1> DEFINE copy == Copy(Head(todo))
<1>6. copy \in Unit
  BY <1>4
<1> HIDE DEF copy
<1>7. CASE Prepended
  <2>1. out' = Append(Append(out, Added), copy)
    BY <1>7 DEF copy
  <2> DEFINE o == Append(out, Added)
  <2>2. /\ o \in Seq(Unit) /\ Len(o) = Len(out) + 1 /\ o[Len(out) + 1] = Added
        /\ \A i \in 1 .. Len(out) : o[i] = out[i]
    BY <1>4, <1>5
  <2>3. out' = Append(o, copy)
    BY <2>1
  <2> HIDE DEF o
  <2>4. /\ out' \in Seq(Unit) /\ Len(out') = Len(o) + 1 /\ out'[Len(o) + 1] = copy
        /\ \A i \in 1 .. Len(o) : out'[i] = o[i]
    BY ONLY <1>6, <2>2, <2>3, AppendProperties
  <2> QED BY <1>1, <1>2, <1>3, <1>5, <1>7, <2>2, <2>4 DEF copy
<1>8. CASE ~Prepended
  <2>1. out' = Append(out, copy)
    BY <1>8 DEF copy
  <2>2. /\ out' \in Seq(Unit) /\ Len(out') = Len(out) + 1 /\ out'[Len(out) + 1] = copy
        /\ \A i \in 1 .. Len(out) : out'[i] = out[i]
    BY <1>5, <1>6, <2>1
  <2> QED BY <1>1, <1>2, <1>3, <1>5, <1>8, <2>2 DEF copy
<1> QED BY <1>7, <1>8

LEMMA ConvertNalInv ==
  ASSUME IInv, ConvertNal
  PROVE  IInv'
<1> USE DEF ConvertNal, IInv, addon, table
<1>1. StreamsOK' /\ TableOK' /\ SelectedOK'
  BY DEF StreamsOK, TableOK, SelectedOK, Entry, Row, ParameterSets
<1>2. /\ conv.first_idr \in BOOLEAN /\ conv.idr_sps_pps_seen \in BOOLEAN
      /\ conv'.first_idr = ((conv.first_idr /\ ~Prepended) \/ Rearmed)
      /\ conv'.idr_sps_pps_seen = (Seen /\ ~Rearmed)
      /\ conv'.m_to_annexb = conv.m_to_annexb
  BY DEF ConverterOK, Converter
<1>3. ConverterOK'
  <2>1. ((conv.first_idr /\ ~Prepended) \/ Rearmed) \in BOOLEAN /\ (Seen /\ ~Rearmed) \in BOOLEAN
    BY <1>2 DEF Prepended, Rearmed, Seen
  <2>2. conv' \in Converter
    BY <2>1 DEF ConverterOK, Converter
  <2>3. /\ conv'.m_convert_bitstream = conv.m_convert_bitstream
        /\ conv'.sps_pps_data = conv.sps_pps_data /\ conv'.length_size = conv.length_size
    BY DEF ConverterOK, Converter
  <2>4. Converter' = Converter /\ Current' = Current
    BY DEF Converter, ParameterSets, Current
  <2> QED BY <1>2, <2>2, <2>3, <2>4 DEF ConverterOK
\* The rest of the packet.
<1>4. /\ todo' \in Seq(Nal) /\ 1 \in DOMAIN todo /\ Head(todo) = todo[1]
      /\ \A j \in DOMAIN todo' : j + 1 \in DOMAIN todo /\ todo'[j] = todo[j + 1] /\ j \in Nat /\ 1 < j + 1
  BY DEF WorkOK
\* The units that are new.
<1> DEFINE n == Len(out')
<1>5. /\ n \in Nat /\ DOMAIN out' = 1 .. n /\ n > Len(out) /\ n <= Len(out) + 2
      /\ out'[n].nal = todo[1] /\ out'[n].of = Current
      /\ \A i \in 1 .. n - 1 : (i \in DOMAIN out /\ out'[i] = out[i])
                               \/ (i = n - 1 /\ i = Len(out) + 1 /\ Prepended
                                   /\ out'[i].nal = "params" /\ out'[i].of = Current)
  BY <1>4, Converted DEF Copy, Added
<1> HIDE DEF n
<1>6. WorkOK'
  <2>1. out' \in Seq(Unit') /\ Current' = Current
    BY Converted DEF Unit, ParameterSets, Current
  <2>2. \A i \in DOMAIN out' : out'[i].of = Current
    BY <1>5 DEF WorkOK
  <2> QED BY <1>2, <1>4, <2>1, <2>2, Converted DEF WorkOK, flags, WithParameters
<1>7. OrderOK'
  <2>1. \A i, j \in DOMAIN todo' :
          /\ i < j /\ todo'[i] \in {"idr", "slice"} => todo'[j] # "params"
          /\ todo'[i] = "idr" => todo'[j] # "slice"
    BY <1>4 DEF OrderOK
  <2>2. \A i \in DOMAIN out : out[i].nal \in {"idr", "slice"} => ~Prepended /\ todo[1] # "params"
    <3> SUFFICES ASSUME NEW i \in DOMAIN out, out[i].nal \in {"idr", "slice"}
                 PROVE  ~Prepended /\ todo[1] # "params"
      OBVIOUS
    <3>1. todo[1] # "params"
      BY <1>4 DEF OrderOK
    <3>2. out[i].nal = "slice" => todo[1] # "idr"
      BY <1>4 DEF OrderOK
    <3>3. out[i].nal = "idr" => ~conv.first_idr \/ conv.idr_sps_pps_seen
      BY Converted DEF OrderOK
    <3> QED BY <1>4, <3>1, <3>2, <3>3 DEF Prepended, Seen
  <2>3. \A i, j \in DOMAIN out' :
          i < j /\ out'[i].nal \in {"idr", "slice"} => out'[j].nal # "params"
    <3> SUFFICES ASSUME NEW i \in DOMAIN out', NEW j \in DOMAIN out', i < j, out'[i].nal \in {"idr", "slice"}
                 PROVE  out'[j].nal # "params"
      OBVIOUS
    <3>1. i \in DOMAIN out /\ out'[i] = out[i]
      BY <1>5
    <3>2. ~Prepended /\ todo[1] # "params"
      BY <2>2, <3>1
    <3>3. CASE j = n
      BY <1>5, <3>2, <3>3
    <3>4. CASE j # n
      BY <1>5, <3>1, <3>2, <3>4 DEF OrderOK
    <3> QED BY <3>3, <3>4
  <2>4. \A i \in DOMAIN out' : \A j \in DOMAIN todo' :
          /\ out'[i].nal \in {"idr", "slice"} => todo'[j] # "params"
          /\ out'[i].nal = "idr" => todo'[j] # "slice"
          /\ out'[i].nal = "slice" => todo'[j] # "idr"
    <3> SUFFICES ASSUME NEW i \in DOMAIN out', NEW j \in DOMAIN todo'
                 PROVE  /\ out'[i].nal \in {"idr", "slice"} => todo'[j] # "params"
                        /\ out'[i].nal = "idr" => todo'[j] # "slice"
                        /\ out'[i].nal = "slice" => todo'[j] # "idr"
      OBVIOUS
    <3>1. CASE i = n
      BY <1>4, <1>5, <3>1 DEF OrderOK
    <3>2. CASE i # n
      BY <1>4, <1>5, <3>2 DEF OrderOK
    <3> QED BY <3>1, <3>2
  <2>5. \A i \in DOMAIN out' : out'[i].nal = "idr" => ~conv'.first_idr \/ conv'.idr_sps_pps_seen
    <3> SUFFICES ASSUME NEW i \in DOMAIN out', out'[i].nal = "idr"
                 PROVE  ~conv'.first_idr \/ conv'.idr_sps_pps_seen
      OBVIOUS
    <3>1. CASE i = n
      BY <1>2, <1>4, <1>5, <3>1 DEF Prepended, Rearmed, Seen
    <3>2. CASE i # n
      <4>1. i \in DOMAIN out /\ out[i].nal = "idr"
        BY <1>5, <3>2
      <4>2. ~conv.first_idr \/ conv.idr_sps_pps_seen
        BY <4>1, Converted DEF OrderOK
      <4>3. todo[1] # "slice"
        BY <1>4, <4>1 DEF OrderOK
      <4> QED BY <1>2, <1>4, <4>2, <4>3 DEF Prepended, Rearmed, Seen
    <3> QED BY <3>1, <3>2
  <2> QED BY <2>1, <2>3, <2>4, <2>5 DEF OrderOK
<1>8. HeldOK'
  <2> DEFINE HasNow(i) == params = Current \/ \E j \in 1 .. i - 1 : out'[j].nal = "params"
  <2> SUFFICES ASSUME ~lost
               PROVE  /\ ~conv'.first_idr \/ conv'.idr_sps_pps_seen => HasNow(n + 1)
                      /\ \A i \in DOMAIN out' : out'[i].nal = "idr" => HasNow(i)
    BY DEF HeldOK, Has, Current, decoder, n
  <2>1. /\ ~conv.first_idr \/ conv.idr_sps_pps_seen => Has(Len(out) + 1)
        /\ \A i \in DOMAIN out : out[i].nal = "idr" => Has(i)
    BY Converted DEF HeldOK
  <2>2. ASSUME NEW i \in 1 .. Len(out) + 1, Has(i), NEW j \in i .. n + 1
        PROVE  HasNow(j)
    <3>1. \A k \in 1 .. i - 1 : k \in 1 .. j - 1 /\ out'[k] = out[k]
      BY <1>5, Converted
    <3> QED BY <2>2, <3>1 DEF Has
  <2>3. Prepended => HasNow(n) /\ HasNow(n + 1)
    <3> SUFFICES ASSUME Prepended PROVE HasNow(n) /\ HasNow(n + 1)
      OBVIOUS
    <3>1. n = Len(out) + 2 /\ out'[Len(out) + 1] = Added /\ Len(out) \in Nat
      BY Converted DEF n
    <3>2. out'[Len(out) + 1].nal = "params"
      BY <3>1 DEF Added
    <3>3. Len(out) + 1 \in 1 .. n - 1 /\ Len(out) + 1 \in 1 .. (n + 1) - 1
      BY <3>1
    <3> QED BY <3>2, <3>3
  <2>4. todo[1] = "params" => HasNow(n + 1)
    BY <1>5
  <2>5. Has(Len(out) + 1) => HasNow(n) /\ HasNow(n + 1)
    BY <1>5, <2>2, Converted
  <2>6. ~conv'.first_idr \/ conv'.idr_sps_pps_seen => HasNow(n + 1)
    BY <1>2, <1>4, <2>1, <2>3, <2>4, <2>5 DEF Prepended, Rearmed, Seen
  <2>7. ASSUME NEW i \in DOMAIN out', out'[i].nal = "idr" PROVE HasNow(i)
    <3>1. CASE i = n
      <4>1. Prepended \/ ~conv.first_idr \/ conv.idr_sps_pps_seen
        BY <1>4, <1>5, <2>7, <3>1 DEF Prepended, Seen
      <4> QED BY <2>1, <2>3, <2>5, <3>1, <4>1
    <3>2. CASE i # n
      <4>1. i \in DOMAIN out /\ out[i].nal = "idr" /\ i \in 1 .. Len(out)
        BY <1>5, <2>7, <3>2, Converted DEF WorkOK
      <4>2. Has(i) /\ i \in 1 .. Len(out) + 1 /\ i \in i .. n + 1
        BY <1>5, <2>1, <4>1, Converted
      <4> QED BY <2>2, <4>2
    <3> QED BY <3>1, <3>2
  <2> QED BY <2>6, <2>7
<1>9. FrameOK'
  BY FramesAlone
<1> QED BY <1>1, <1>3, <1>6, <1>7, <1>8, <1>9

-----------------------------------------------------------------------------
(* The frame *)

\* The units of a frame belong to the representation the video is delivered
\* in, parameter sets come before the slices, and a decoder comes to no IDR
\* slice without them.
LEMMA UnitsProperties ==
  ASSUME IInv, phase = "convert", todo = <<>>
  PROVE  /\ Units \in Seq(Unit)
         /\ \A i \in DOMAIN Units : Units[i].of = Current
         /\ \A i, j \in DOMAIN Units :
              i < j /\ Units[i].nal \in {"idr", "slice"} => Units[j].nal # "params"
         /\ ~lost => \A i \in DOMAIN Units : Units[i].nal = "idr" =>
              params = Current \/ \E j \in 1 .. i - 1 : Units[j].nal = "params"
         /\ conv.m_to_annexb => \A j \in DOMAIN out : out[j].nal = "params" =>
              \E k \in DOMAIN Units : Units[k].nal = "params"
<1> DEFINE head == IF firstvideo /\ conv.m_to_annexb THEN <<Added>> ELSE <<>>
           rest == IF conv.m_to_annexb THEN out
                   ELSE [i \in DOMAIN packet.nals |-> Copy(packet.nals[i])]
           U == Units
<1>1. Own = Current /\ Current \in ParameterSets
  BY FirstStream DEF IInv, WorkOK, Own, Current, ParameterSets, StreamsOK
<1>2. /\ head \in Seq(Unit) /\ Len(head) \in {0, 1}
      /\ \A i \in 1 .. Len(head) : head[i].nal = "params" /\ head[i].of = Current
  <2>1. CASE firstvideo /\ conv.m_to_annexb
    <3>1. Added \in Unit /\ Added.nal = "params" /\ Added.of = Current
      BY <1>1, <2>1 DEF Added, Unit, Nal, IInv, ConverterOK
    <3>2. head = <<Added>>
      BY <2>1
    <3> QED BY <3>1, <3>2
  <2>2. CASE ~(firstvideo /\ conv.m_to_annexb)
    <3>1. head = <<>>
      BY <2>2
    <3> QED BY <3>1
  <2> QED BY <2>1, <2>2
<1>3. /\ rest \in Seq(Unit)
      /\ \A i \in 1 .. Len(rest) : rest[i].of = Current
      /\ \A i, j \in 1 .. Len(rest) :
           i < j /\ rest[i].nal \in {"idr", "slice"} => rest[j].nal # "params"
      /\ ~lost => \A i \in 1 .. Len(rest) : rest[i].nal = "idr" =>
           params = Current \/ \E j \in 1 .. i - 1 : rest[j].nal = "params"
  <2>1. CASE conv.m_to_annexb
    <3>1. rest = out /\ out \in Seq(Unit) /\ DOMAIN out = 1 .. Len(out)
      BY <2>1 DEF IInv, WorkOK
    <3>2. \A i \in DOMAIN out : out[i].of = Current
      BY DEF IInv, WorkOK
    <3>3. \A i, j \in DOMAIN out :
            i < j /\ out[i].nal \in {"idr", "slice"} => out[j].nal # "params"
      BY DEF IInv, OrderOK
    <3>4. ~lost => \A i \in DOMAIN out : out[i].nal = "idr" => Has(i)
      BY <2>1 DEF IInv, HeldOK
    <3> QED BY <3>1, <3>2, <3>3, <3>4 DEF Has
  <2>2. CASE ~conv.m_to_annexb
    <3> DEFINE nals == packet.nals
    <3>1. nals \in Packets /\ WithParameters(nals)
      BY <2>2 DEF IInv, WorkOK
    <3>2. nals \in Seq(Nal) /\ DOMAIN nals = 1 .. Len(nals) /\ Len(nals) \in Nat
      BY <3>1, PlayAssumption
    <3>3. rest = [i \in 1 .. Len(nals) |-> Copy(nals[i])]
      BY <2>2, <3>2
    <3> HIDE DEF nals
    <3>4. \A i \in 1 .. Len(nals) :
            Copy(nals[i]) \in Unit /\ Copy(nals[i]).nal = nals[i] /\ Copy(nals[i]).of = Current
      BY <1>1, <3>2 DEF Copy, Unit
    <3> HIDE DEF rest
    <3>5. /\ rest \in Seq(Unit) /\ Len(rest) = Len(nals)
          /\ \A i \in 1 .. Len(nals) : rest[i].nal = nals[i] /\ rest[i].of = Current
      BY <3>2, <3>3, <3>4
    <3>6. \A i, j \in DOMAIN nals :
            i < j /\ nals[i] \in {"idr", "slice"} => nals[j] # "params"
      BY <3>1, PlayAssumption
    <3>7. \A i \in 1 .. Len(nals) : nals[i] = "idr" => \E j \in 1 .. i - 1 : nals[j] = "params"
      BY <3>1, <3>2 DEF WithParameters
    <3>8. \A i \in 1 .. Len(rest) : rest[i].nal = "idr" => \E j \in 1 .. i - 1 : rest[j].nal = "params"
      BY <3>2, <3>5, <3>7
    <3> QED BY <3>2, <3>5, <3>6, <3>8
  <2> QED BY <2>1, <2>2
<1>4. U = head \o rest
  BY DEF Units
<1>5. conv.m_to_annexb => rest = out /\ DOMAIN out = 1 .. Len(out)
  BY DEF IInv, WorkOK
<1> HIDE DEF head, rest, U
<1> DEFINE d == Len(head)
<1>6. /\ U \in Seq(Unit) /\ Len(U) = d + Len(rest) /\ DOMAIN U = 1 .. d + Len(rest)
      /\ d \in {0, 1} /\ Len(rest) \in Nat
      /\ \A i \in 1 .. d : U[i].nal = "params" /\ U[i].of = Current
      /\ \A i \in 1 .. Len(rest) : U[d + i] = rest[i]
  BY <1>2, <1>3, <1>4, ConcatProperties
<1> HIDE DEF d
<1>7. \A i \in DOMAIN U : i \in 1 .. d \/ (i - d \in 1 .. Len(rest) /\ U[i] = rest[i - d])
  <2> SUFFICES ASSUME NEW i \in DOMAIN U, i \notin 1 .. d
               PROVE  i - d \in 1 .. Len(rest) /\ U[i] = rest[i - d]
    OBVIOUS
  <2>1. i - d \in 1 .. Len(rest) /\ d + (i - d) = i
    BY <1>6
  <2> QED BY <1>6, <2>1
<1>8. \A i \in DOMAIN U : U[i].of = Current
  BY <1>3, <1>6, <1>7
<1>9. \A i, j \in DOMAIN U : i < j /\ U[i].nal \in {"idr", "slice"} => U[j].nal # "params"
  <2> SUFFICES ASSUME NEW i \in DOMAIN U, NEW j \in DOMAIN U, i < j, U[i].nal \in {"idr", "slice"}
               PROVE  U[j].nal # "params"
    OBVIOUS
  <2>1. i - d \in 1 .. Len(rest) /\ U[i] = rest[i - d]
    BY <1>6, <1>7
  <2>2. j - d \in 1 .. Len(rest) /\ U[j] = rest[j - d] /\ i - d < j - d
    BY <1>6, <1>7, <2>1
  <2> QED BY <1>3, <2>1, <2>2
<1>10. ASSUME ~lost, NEW i \in DOMAIN U, U[i].nal = "idr"
       PROVE  params = Current \/ \E j \in 1 .. i - 1 : U[j].nal = "params"
  <2>1. i - d \in 1 .. Len(rest) /\ rest[i - d].nal = "idr"
    BY <1>6, <1>7, <1>10
  <2> SUFFICES ASSUME NEW j \in 1 .. (i - d) - 1, rest[j].nal = "params"
               PROVE  \E k \in 1 .. i - 1 : U[k].nal = "params"
    BY <1>3, <1>10, <2>1
  <2>2. d + j \in 1 .. i - 1 /\ j \in 1 .. Len(rest)
    BY <1>6, <2>1
  <2> QED BY <1>6, <2>2
<1>11. ASSUME conv.m_to_annexb, NEW j \in DOMAIN out, out[j].nal = "params"
       PROVE  \E k \in DOMAIN U : U[k].nal = "params"
  <2>1. j \in 1 .. Len(rest) /\ d + j \in DOMAIN U /\ U[d + j] = out[j]
    BY <1>5, <1>6, <1>11
  <2> QED BY <1>11, <2>1
<1> QED BY <1>6, <1>8, <1>9, <1>10, <1>11 DEF U

LEMMA SendVideoInv ==
  ASSUME IInv, SendVideo
  PROVE  IInv'
<1> USE DEF SendVideo, addon, table
<1>1. StreamsOK' /\ TableOK' /\ SelectedOK' /\ ConverterOK'
  BY DEF IInv, StreamsOK, TableOK, SelectedOK, Entry, Row, ConverterOK, Converter, ParameterSets, Current
<1>2. firstvideo' \in BOOLEAN
  BY DEF IInv, WorkOK
<1>3. WorkOK' /\ OrderOK'
  BY <1>2 DEF IInv, WorkOK, OrderOK, Unit, ParameterSets, work
<1> DEFINE U == Units
<1>4. /\ U \in Seq(Unit)
      /\ \A i \in DOMAIN U : U[i].of = Current
      /\ \A i, j \in DOMAIN U : i < j /\ U[i].nal \in {"idr", "slice"} => U[j].nal # "params"
      /\ ~lost => \A i \in DOMAIN U : U[i].nal = "idr" =>
           params = Current \/ \E j \in 1 .. i - 1 : U[j].nal = "params"
      /\ conv.m_to_annexb => \A j \in DOMAIN out : out[j].nal = "params" =>
           \E k \in DOMAIN U : U[k].nal = "params"
  BY UnitsProperties
<1>5. /\ frame'.units = U /\ frame'.had = params /\ frame'.lost = lost /\ frame'.type = "video"
      /\ params' \in ParameterSets /\ InForce(params', U, Len(U) + 1, params)
  OBVIOUS
<1>6. joins' \in BOOLEAN
  BY DEF IInv, FrameOK
<1> HIDE DEF U
<1>7. DOMAIN U = 1 .. Len(U) /\ Len(U) \in Nat
  BY <1>4
<1>8. HeldOK'
  <2> SUFFICES ASSUME conv.m_to_annexb, ~lost, ~conv.first_idr \/ conv.idr_sps_pps_seen
               PROVE  params' = Current
    BY DEF HeldOK, Current
  <2>1. params = Current \/ \E j \in DOMAIN out : out[j].nal = "params"
    BY DEF IInv, HeldOK, Has, WorkOK
  <2>2. params = Current \/ \E k \in 1 .. Len(U) : U[k].nal = "params"
    BY <1>4, <1>7, <2>1
  <2> QED BY <1>4, <1>5, <1>7, <2>2 DEF InForce
<1>9. Decodable'
  <2> SUFFICES ASSUME NEW i \in DOMAIN U, U[i].nal = "idr", ~lost
               PROVE  InForce(U[i].of, U, i, params)
    BY <1>5 DEF Decodable, InForce
  <2>1. \A j \in 1 .. i - 1 : j \in DOMAIN U
    BY <1>7
  <2>2. U[i].of = Current /\ \A j \in 1 .. i - 1 : U[j].of = Current
    BY <1>4, <2>1
  <2>3. params = Current \/ \E j \in 1 .. i - 1 : U[j].nal = "params"
    BY <1>4
  <2>4. \A j \in 1 .. i - 1 : \A k \in j + 1 .. i - 1 : k \in 1 .. i - 1
    BY <1>7
  <2> QED BY <2>2, <2>3, <2>4 DEF InForce
<1>10. ParametersFirst'
  BY <1>4, <1>5 DEF ParametersFirst
<1>11. FrameOK'
  BY <1>5, <1>6, <1>9, <1>10 DEF FrameOK, ParameterSets
<1> QED BY <1>1, <1>3, <1>8, <1>11 DEF IInv

-----------------------------------------------------------------------------
(* The theorems *)

LEMMA NextInv ==
  ASSUME IInv, [Next]_vars
  PROVE  IInv'
<1>1. CASE Next
  <2>1. CASE GetStreamIDs
    BY <2>1, GetStreamIDsInv
  <2>2. CASE BuildTable
    BY <2>2, BuildTableInv
  <2>3. CASE SelectStreams
    BY <2>3, SelectStreamsInv
  <2>4. CASE StartStreams
    BY <2>4, StartStreamsInv
  <2>5. ASSUME NEW s \in opened, NEW r \in Reps, StreamChange(s, r) PROVE IInv'
    BY <2>5, StreamChangeInv
  <2>6. ASSUME NEW s \in opened, ReadAudio(s) PROVE IInv'
    BY <2>6, ReadAudioInv
  <2>7. ASSUME NEW s \in opened, NEW nals \in Packets, NEW broken \in BOOLEAN,
               ReadVideo(s, nals, broken)
        PROVE  IInv'
    BY <2>7, ReadVideoInv
  <2>8. CASE ConvertFails
    BY <2>8, ConvertFailsInv
  <2>9. CASE ConvertNal
    BY <2>9, ConvertNalInv
  <2>10. CASE SendVideo
    BY <2>10, SendVideoInv
  <2>11. CASE EndOfStream
    <3> USE <2>11 DEF EndOfStream, IInv, addon, table
    <3>1. StreamsOK' /\ TableOK' /\ SelectedOK' /\ ConverterOK' /\ HeldOK'
      BY DEF StreamsOK, TableOK, SelectedOK, Entry, Row, ConverterOK, Converter, ParameterSets,
             HeldOK, Current
    <3>2. WorkOK' /\ OrderOK' /\ FrameOK'
      BY WorkAlone, FramesAlone
    <3> QED BY <3>1, <3>2
  <2> QED BY <1>1, <2>1, <2>2, <2>3, <2>4, <2>5, <2>6, <2>7, <2>8, <2>9, <2>10, <2>11 DEF Next
<1>2. CASE UNCHANGED vars
  <2> USE <1>2 DEF IInv, vars, addon, table, flags, work
  <2>1. StreamsOK' /\ TableOK' /\ SelectedOK' /\ ConverterOK'
    BY DEF StreamsOK, TableOK, SelectedOK, Entry, Row, ConverterOK, Converter, ParameterSets, Current
  <2>2. WorkOK' /\ OrderOK' /\ HeldOK'
    BY DEF WorkOK, OrderOK, HeldOK, Has, Unit, ParameterSets, WithParameters, Current, decoder
  <2>3. FrameOK'
    BY FramesAlone
  <2> QED BY <2>1, <2>2, <2>3
<1> QED BY <1>1, <1>2

\* The inductive invariant: while no packet was broken, whenever the converter
\* does not mean to add parameter sets the decoder has those of the
\* representation in use or gets them with this packet.
THEOREM PlayInvariant ==
  ASSUME VideoFirst
  PROVE  Spec => []IInv
<1>1. Init => IInv
  BY InitInv
<1>2. IInv /\ [Next]_vars => IInv'
  BY NextInv
<1> QED BY <1>1, <1>2, PTL DEF Spec

\* Decodable holds for every number of representations and changes, every
\* choice of packets and every list of streams that begins with its only video
\* stream.
THEOREM AlwaysDecodable ==
  ASSUME VideoFirst
  PROVE  Spec => []Decodable
<1>1. IInv => Decodable
  BY DEF IInv, FrameOK
<1> QED BY <1>1, PlayInvariant, PTL

\* Under the same assumption parameter sets never get between slices.
THEOREM AlwaysParametersFirst ==
  ASSUME VideoFirst
  PROVE  Spec => []ParametersFirst
<1>1. IInv => ParametersFirst
  BY DEF IInv, FrameOK
<1> QED BY <1>1, PlayInvariant, PTL

\* Under the same assumption the variables keep to their ranges.
THEOREM TypeCorrect ==
  ASSUME VideoFirst
  PROVE  Spec => []TypeOK
<1>1. IInv => TypeOK
  BY DEF IInv, StreamsOK, TableOK, SelectedOK, ConverterOK, WorkOK, FrameOK, TypeOK, Row
<1> QED BY <1>1, PlayInvariant, PTL

-----------------------------------------------------------------------------
(* Parameter sets are repeated *)

\* The converter means to add parameter sets whenever the decoder comes from
\* pictures that are no IDR pictures, and an IDR slice in the output has them
\* before it, unless they have been seen in a packet.
RepeatOK ==
  conv.m_to_annexb /\ ~lost =>
    /\ phase = "play" /\ joins => conv.first_idr
    /\ phase = "convert" =>
         /\ (\A i \in DOMAIN out : out[i].nal # "idr")
            /\ (joins \/ \E i \in DOMAIN out : out[i].nal = "slice")
              => conv.first_idr
         /\ joins /\ ~conv.idr_sps_pps_seen =>
              \A i \in DOMAIN out : out[i].nal = "idr" =>
                \E j \in 1 .. i - 1 : out[j].nal = "params"

\* A converter that was just opened means to add them.
LEMMA JustOpened ==
  ASSUME IInv, StartStreams \/ \E s \in opened, r \in Reps : StreamChange(s, r)
  PROVE  conv'.m_to_annexb => conv'.first_idr /\ ~conv'.idr_sps_pps_seen
<1> USE DEF IInv
<1>1. conv \in Converter
  BY DEF ConverterOK
<1>2. CASE StartStreams
  <2>1. CASE streams = <<>>
    <3>1. VideoID = 0
      BY <2>1 DEF SelectedOK
    <3> QED BY <1>2, <3>1 DEF StartStreams, Transferred, ConverterOK
  <2>2. CASE streams # <<>>
    <3>1. VideoID = 1 /\ rep[1] \in Reps
      BY <1>2, <2>2, FirstStream DEF StartStreams, SelectedOK, StreamsOK
    <3> QED BY <1>1, <1>2, <2>2, <3>1, OpenedVideo DEF StartStreams
  <2> QED BY <2>1, <2>2
<1>3. ASSUME NEW s \in opened, NEW r \in Reps, StreamChange(s, r)
      PROVE  conv'.m_to_annexb => conv'.first_idr /\ ~conv'.idr_sps_pps_seen
  <2>1. streams # <<>> /\ s \in DOMAIN streams
    BY DEF SelectedOK
  <2>2. 1 \in DOMAIN streams
    BY <2>1, FirstStream
  <2>3. rep'[1] \in Reps
    BY <1>3, <2>1, <2>2 DEF StreamChange, StreamsOK
  <2>4. Closed(conv) \in Converter
    BY <1>1 DEF Closed, Converter, ParameterSets
  <2>5. conv' = Transferred(Closed(conv), 1, rep'[1])
    BY <1>3 DEF StreamChange, ID
  <2> QED BY <2>1, <2>3, <2>4, <2>5, OpenedVideo
<1> QED BY <1>2, <1>3

\* A round of the loop: after a slice the converter means to add parameter
\* sets, and before an IDR slice it adds them, or had added or seen them.
LEMMA ConvertNalRepeats ==
  ASSUME IInv, RepeatOK, ConvertNal
  PROVE  RepeatOK'
<1> USE DEF ConvertNal
<1>1. /\ conv.first_idr \in BOOLEAN /\ conv.idr_sps_pps_seen \in BOOLEAN
      /\ conv'.first_idr = ((conv.first_idr /\ ~Prepended) \/ Rearmed)
      /\ conv'.idr_sps_pps_seen = (Seen /\ ~Rearmed)
      /\ conv'.m_to_annexb = conv.m_to_annexb
  BY DEF IInv, ConverterOK, Converter
<1>2. 1 \in DOMAIN todo /\ Head(todo) = todo[1]
  BY DEF IInv, WorkOK
<1> DEFINE n == Len(out')
<1>3. /\ n \in Nat /\ DOMAIN out' = 1 .. n /\ DOMAIN out = 1 .. Len(out)
      /\ Len(out) \in Nat /\ n > Len(out) /\ n <= Len(out) + 2
      /\ out'[n].nal = todo[1]
      /\ \A i \in DOMAIN out : out'[i] = out[i]
      /\ \A i \in 1 .. n - 1 : i \in DOMAIN out \/ out'[i].nal = "params"
      /\ Prepended => n = Len(out) + 2 /\ out'[n - 1].nal = "params"
  <2>1. DOMAIN out = 1 .. Len(out) /\ DOMAIN out' = 1 .. n
    BY Converted DEF IInv, WorkOK
  <2> QED BY <1>2, <2>1, Converted DEF Copy, Added
<1> HIDE DEF n
<1> SUFFICES ASSUME conv.m_to_annexb, ~lost
             PROVE  /\ (\A i \in DOMAIN out' : out'[i].nal # "idr")
                       /\ (joins \/ \E i \in DOMAIN out' : out'[i].nal = "slice")
                         => conv'.first_idr
                    /\ joins /\ ~conv'.idr_sps_pps_seen =>
                         \A i \in DOMAIN out' : out'[i].nal = "idr" =>
                           \E j \in 1 .. i - 1 : out'[j].nal = "params"
  BY <1>1 DEF RepeatOK, decoder
<1>4. ASSUME \A i \in DOMAIN out' : out'[i].nal # "idr",
             joins \/ \E i \in DOMAIN out' : out'[i].nal = "slice"
      PROVE  conv'.first_idr
  <2>1. \A i \in DOMAIN out : i \in DOMAIN out' /\ out'[i] = out[i]
    BY <1>3
  <2>2. todo[1] # "idr" /\ ~Prepended
    BY <1>2, <1>3, <1>4 DEF Prepended
  <2>3. CASE todo[1] = "slice"
    BY <1>1, <1>2, <2>2, <2>3 DEF Rearmed
  <2>4. CASE todo[1] # "slice"
    <3>1. \A i \in DOMAIN out' : out'[i].nal = "slice" => i \in DOMAIN out
      BY <1>3, <2>4
    <3>2. conv.first_idr
      BY <1>4, <2>1, <3>1 DEF RepeatOK
    <3> QED BY <1>1, <2>2, <3>2
  <2> QED BY <2>3, <2>4
<1>5. ASSUME joins, ~conv'.idr_sps_pps_seen, NEW i \in DOMAIN out', out'[i].nal = "idr"
      PROVE  \E j \in 1 .. i - 1 : out'[j].nal = "params"
  <2>1. ASSUME ~conv.idr_sps_pps_seen, NEW k \in DOMAIN out, out[k].nal = "idr", k <= i
        PROVE  \E j \in 1 .. i - 1 : out'[j].nal = "params"
    <3>1. PICK j \in 1 .. k - 1 : out[j].nal = "params"
      BY <1>5, <2>1 DEF RepeatOK
    <3>2. j \in 1 .. i - 1 /\ j \in DOMAIN out
      BY <1>3, <2>1
    <3> QED BY <1>3, <3>1, <3>2
  <2>2. CASE i = n
    <3>1. todo[1] = "idr" /\ ~Rearmed /\ ~Seen
      BY <1>1, <1>2, <1>3, <1>5, <2>2 DEF Rearmed
    <3>2. CASE Prepended
      <4>1. n - 1 \in 1 .. i - 1 /\ out'[n - 1].nal = "params"
        BY <1>3, <2>2, <3>2
      <4> QED BY <4>1
    <3>3. CASE ~Prepended
      <4>1. ~conv.first_idr /\ ~conv.idr_sps_pps_seen
        BY <1>2, <3>1, <3>3 DEF Prepended, Seen
      <4>2. PICK k \in DOMAIN out : out[k].nal = "idr"
        BY <1>5, <4>1 DEF RepeatOK
      <4>3. k <= i
        BY <1>3, <2>2
      <4> QED BY <2>1, <4>1, <4>2, <4>3
    <3> QED BY <3>2, <3>3
  <2>3. CASE i # n
    <3>1. i \in DOMAIN out /\ out[i].nal = "idr" /\ i <= i
      BY <1>3, <1>5, <2>3
    <3>2. todo[1] # "slice"
      BY <1>2, <3>1 DEF IInv, OrderOK
    <3>3. ~conv.idr_sps_pps_seen
      BY <1>1, <1>2, <1>5, <3>2 DEF Seen, Rearmed
    <3> QED BY <2>1, <3>1, <3>3
  <2> QED BY <2>2, <2>3
<1> QED BY <1>4, <1>5

\* The units of a frame after the parameter sets that may begin it.
Rest ==
  IF conv.m_to_annexb THEN out ELSE [i \in DOMAIN packet.nals |-> Copy(packet.nals[i])]

\* A frame is at most one unit with parameter sets, and then the rest.
LEMMA UnitsShape ==
  ASSUME IInv, phase = "convert"
  PROVE  /\ Len(Rest) \in Nat /\ DOMAIN Rest = 1 .. Len(Rest)
         /\ \E d \in {0, 1} :
              /\ DOMAIN Units = 1 .. d + Len(Rest)
              /\ \A i \in 1 .. d : Units[i].nal = "params" /\ Units[i].added
              /\ \A i \in 1 .. Len(Rest) : Units[d + i] = Rest[i]
<1> DEFINE head == IF firstvideo /\ conv.m_to_annexb THEN <<Added>> ELSE <<>>
           rest == Rest
           d == Len(head)
           S == {Rest[i] : i \in DOMAIN Rest} \cup {Added}
<1>1. rest \in Seq(S)
  <2>1. CASE conv.m_to_annexb
    <3>1. rest = out /\ out \in Seq(Unit)
      BY <2>1 DEF Rest, IInv, WorkOK
    <3>2. /\ \A i \in DOMAIN rest : rest[i] \in S
          /\ Len(rest) \in Nat /\ rest = [i \in 1 .. Len(rest) |-> rest[i]]
          /\ DOMAIN rest = 1 .. Len(rest)
      BY <3>1
    <3> HIDE DEF rest, S
    <3> QED BY <3>2
  <2>2. CASE ~conv.m_to_annexb
    <3>1. packet.nals \in Seq(Nal)
      BY PlayAssumption DEF IInv, WorkOK
    <3> DEFINE n == Len(packet.nals)
    <3>2. n \in Nat /\ rest = [i \in 1 .. n |-> Copy(packet.nals[i])]
      BY <2>2, <3>1 DEF Rest
    <3>3. \A i \in DOMAIN rest : rest[i] \in S
      OBVIOUS
    <3> HIDE DEF rest, S, n
    <3>4. DOMAIN rest = 1 .. n /\ rest = [i \in 1 .. n |-> rest[i]]
      BY <3>2
    <3>5. \A i \in 1 .. n : rest[i] \in S
      BY <3>3, <3>4
    <3> QED BY <3>2, <3>4, <3>5
  <2> QED BY <2>1, <2>2
<1>2. /\ head \in Seq(S) /\ d \in {0, 1}
      /\ \A i \in 1 .. d : head[i].nal = "params" /\ head[i].added
  <2>1. CASE firstvideo /\ conv.m_to_annexb
    <3>1. head = <<Added>> /\ Added \in S
      BY <2>1
    <3>2. Added.nal = "params" /\ Added.added
      BY DEF Added
    <3> HIDE DEF S
    <3> QED BY <3>1, <3>2
  <2>2. CASE ~(firstvideo /\ conv.m_to_annexb)
    <3>1. head = <<>>
      BY <2>2
    <3> QED BY <3>1
  <2> QED BY <2>1, <2>2
<1>3. Units = head \o rest
  BY DEF Units, Rest
<1> HIDE DEF head, rest, S
<1>4. /\ Len(rest) \in Nat /\ DOMAIN rest = 1 .. Len(rest)
      /\ DOMAIN Units = 1 .. d + Len(rest)
      /\ \A i \in 1 .. d : Units[i] = head[i]
      /\ \A i \in 1 .. Len(rest) : Units[d + i] = rest[i]
  BY <1>1, <1>2, <1>3, ConcatProperties
<1> QED BY <1>2, <1>4 DEF rest

\* The frame that goes out has what the converter has seen to, and the
\* converter goes on from what the decoder has seen.
LEMMA SendVideoRepeats ==
  ASSUME IInv, RepeatOK, SendVideo
  PROVE  RepeatOK' /\ OutOfBandRepeated'
<1> USE DEF SendVideo
<1>1. PICK d \in {0, 1} :
        /\ DOMAIN Units = 1 .. d + Len(Rest)
        /\ \A i \in 1 .. d : Units[i].nal = "params"
        /\ \A i \in 1 .. Len(Rest) : Units[d + i] = Rest[i]
  BY UnitsShape
<1>2. Len(Rest) \in Nat /\ DOMAIN Rest = 1 .. Len(Rest)
  BY UnitsShape
<1>3. \A i \in DOMAIN Units : Units[i].nal \in {"idr", "slice"} =>
        i - d \in DOMAIN Rest /\ Units[i] = Rest[i - d]
  <2> SUFFICES ASSUME NEW i \in DOMAIN Units, i \notin 1 .. d
               PROVE  i - d \in DOMAIN Rest /\ Units[i] = Rest[i - d]
    BY <1>1
  <2>1. i - d \in 1 .. Len(Rest) /\ d + (i - d) = i
    BY <1>1, <1>2
  <2> QED BY <1>1, <1>2, <2>1
<1>4. \A i \in DOMAIN Rest : d + i \in DOMAIN Units /\ Units[d + i] = Rest[i]
  BY <1>1, <1>2
<1>5. RepeatOK'
  <2> SUFFICES ASSUME conv.m_to_annexb, ~lost, joins' PROVE conv.first_idr
    BY DEF RepeatOK
  <2>1. Rest = out
    BY DEF Rest
  <2>2. \A i \in DOMAIN out : out[i].nal # "idr"
    <3>1. ASSUME NEW i \in DOMAIN out, out[i].nal = "idr" PROVE FALSE
      <4>1. d + i \in DOMAIN Units /\ Units[d + i].nal = "idr"
        BY <1>4, <2>1, <3>1
      <4> QED BY <4>1
    <3> QED BY <3>1
  <2>3. joins \/ \E i \in DOMAIN out : out[i].nal = "slice"
    <3>1. CASE \A i \in DOMAIN Units : Units[i].nal \notin {"idr", "slice"}
      BY <3>1
    <3>2. ASSUME NEW i \in DOMAIN Units, Units[i].nal \in {"idr", "slice"}
          PROVE  \E j \in DOMAIN out : out[j].nal = "slice"
      <4>1. Units[i].nal = "slice"
        BY <3>2
      <4> QED BY <1>3, <2>1, <4>1
    <3> QED BY <3>1, <3>2
  <2> QED BY <2>2, <2>3 DEF RepeatOK
<1>6. OutOfBandRepeated'
  <2> SUFFICES ASSUME ~conv.idr_sps_pps_seen, joins, ~lost,
                      NEW i \in DOMAIN Units, Units[i].nal = "idr"
               PROVE  \E j \in 1 .. i - 1 : Units[j].nal = "params"
    BY DEF OutOfBandRepeated, IdrCarriesParameters
  <2>1. i - d \in DOMAIN Rest /\ Rest[i - d].nal = "idr"
    BY <1>3
  <2>2. \E j \in 1 .. (i - d) - 1 : Rest[j].nal = "params"
    <3>1. CASE conv.m_to_annexb
      <4>1. Rest = out
        BY <3>1 DEF Rest
      <4> QED BY <2>1, <3>1, <4>1 DEF RepeatOK
    <3>2. CASE ~conv.m_to_annexb
      <4>1. WithParameters(packet.nals)
        BY <3>2 DEF IInv, WorkOK
      <4>2. packet.nals \in Seq(Nal)
        BY PlayAssumption DEF IInv, WorkOK
      <4>3. /\ DOMAIN Rest = DOMAIN packet.nals
            /\ \A k \in DOMAIN packet.nals : Rest[k].nal = packet.nals[k]
        BY <3>2 DEF Rest, Copy
      <4>4. PICK j \in 1 .. (i - d) - 1 : packet.nals[j] = "params"
        BY <2>1, <4>1, <4>3 DEF WithParameters
      <4>5. j \in DOMAIN packet.nals
        BY <1>2, <2>1, <4>2, <4>3
      <4> QED BY <4>3, <4>4, <4>5
    <3> QED BY <3>1, <3>2
  <2>3. PICK j \in 1 .. (i - d) - 1 : Rest[j].nal = "params"
    BY <2>2
  <2>4. j \in DOMAIN Rest /\ d + j \in 1 .. i - 1
    <3>1. i \in 1 .. d + Len(Rest) /\ i - d \in 1 .. Len(Rest)
      BY <1>1, <1>2, <2>1
    <3> HIDE DEF SendVideo
    <3> QED BY <1>2, <3>1
  <2> QED BY <1>4, <2>3, <2>4
<1> QED BY <1>5, <1>6

\* Every step.
LEMMA NextRepeats ==
  ASSUME IInv, RepeatOK, OutOfBandRepeated, [Next]_vars
  PROVE  RepeatOK' /\ OutOfBandRepeated'
<1> USE DEF addon, table, flags, work, decoder
<1>1. UNCHANGED frame => OutOfBandRepeated'
  BY DEF OutOfBandRepeated, IdrCarriesParameters
<1>2. phase' \notin {"play", "convert"} => RepeatOK'
  BY DEF RepeatOK
<1>3. CASE GetStreamIDs \/ BuildTable \/ SelectStreams \/ EndOfStream
  BY <1>1, <1>2, <1>3 DEF GetStreamIDs, BuildTable, SelectStreams, EndOfStream
<1>4. CASE StartStreams \/ \E s \in opened, r \in Reps : StreamChange(s, r)
  <2>1. conv'.m_to_annexb => conv'.first_idr
    BY <1>4, JustOpened
  <2>2. phase' = "play" /\ UNCHANGED frame
    BY <1>4 DEF StartStreams, StreamChange
  <2> QED BY <1>1, <2>1, <2>2 DEF RepeatOK
<1>5. ASSUME NEW s \in opened, ReadAudio(s) PROVE RepeatOK' /\ OutOfBandRepeated'
  <2>1. frame'.units = <<>> /\ DOMAIN frame'.units = {}
    BY <1>5 DEF ReadAudio, NoFrame
  <2>2. OutOfBandRepeated'
    BY <2>1 DEF OutOfBandRepeated, IdrCarriesParameters
  <2> QED BY <1>5, <2>2 DEF ReadAudio, RepeatOK
<1>6. ASSUME NEW s \in opened, NEW nals \in Packets, NEW broken \in BOOLEAN,
             ReadVideo(s, nals, broken)
      PROVE  RepeatOK' /\ OutOfBandRepeated'
  <2>1. DOMAIN out' = {} /\ UNCHANGED <<conv, lost, joins, frame>>
        /\ phase = "play" /\ phase' = "convert"
    BY <1>6 DEF ReadVideo
  <2> QED BY <1>1, <2>1 DEF RepeatOK
<1>7. CASE ConvertFails
  BY <1>1, <1>7 DEF ConvertFails, RepeatOK
<1>8. CASE ConvertNal
  BY <1>1, <1>8, ConvertNalRepeats DEF ConvertNal
<1>9. CASE SendVideo
  BY <1>9, SendVideoRepeats
<1>10. CASE UNCHANGED vars
  BY <1>1, <1>10 DEF vars, RepeatOK
<1> QED BY <1>3, <1>4, <1>5, <1>6, <1>7, <1>8, <1>9, <1>10 DEF Next

\* The parameter sets of the extra data are put in front of the next IDR
\* picture whenever a decoder has been given other pictures, however often
\* IDR pictures come again and in whatever representation, for every number of
\* representations and changes, every choice of packets and every list of
\* streams that begins with its only video stream.
THEOREM AlwaysRepeated ==
  ASSUME VideoFirst
  PROVE  Spec => []OutOfBandRepeated
<1>1. Init => RepeatOK /\ OutOfBandRepeated
  <2> SUFFICES ASSUME Init PROVE RepeatOK /\ OutOfBandRepeated
    OBVIOUS
  <2>1. DOMAIN frame.units = {}
    BY DEF Init, NoFrame
  <2> QED BY <2>1 DEF Init, Initialized, RepeatOK, OutOfBandRepeated, IdrCarriesParameters
<1>2. IInv /\ RepeatOK /\ OutOfBandRepeated /\ [Next]_vars => (RepeatOK /\ OutOfBandRepeated)'
  BY NextRepeats
<1> QED BY <1>1, <1>2, PlayInvariant, PTL DEF Spec

-----------------------------------------------------------------------------
(* Frames are whole *)

\* Brings() of the first n of the units `nals'.
BringsFirst(units, nals, n) ==
  \E place \in [1 .. n -> Given(units)] :
    /\ \A i, j \in 1 .. n : i < j => place[i] < place[j]
    /\ \A g \in Given(units) : \E i \in 1 .. n : place[i] = g
    /\ \A i \in 1 .. n : units[place[i]].nal = nals[i]

\* How many units of the packet have been converted.
Consumed == Len(packet.nals) - Len(todo)

\* What is left of a packet is its end, and the output brings what was before
\* it, or nothing once the packet turned out to be broken.
WholeOK ==
  /\ phase \in {"ids", "table", "start"} => frame.type = "none"
  /\ phase = "convert" /\ conv.m_to_annexb =>
       /\ Consumed \in Nat
       /\ \A j \in DOMAIN todo : todo[j] = packet.nals[Consumed + j]
       /\ packet.broken /\ todo = <<>> => out = <<>>
       /\ ~(packet.broken /\ todo = <<>>) => BringsFirst(out, packet.nals, Consumed)
  /\ phase = "convert" /\ ~conv.m_to_annexb => ~packet.broken

\* Another unit at the end of the output is another unit of the packet.
LEMMA OneMore ==
  ASSUME NEW o, NEW p, NEW nals, NEW k \in Nat,
         Len(o) \in Nat, DOMAIN o = 1 .. Len(o), Len(p) \in Nat, DOMAIN p = 1 .. Len(p),
         Len(o) < Len(p), \A i \in DOMAIN o : p[i] = o[i],
         \A i \in DOMAIN p : i > Len(o) /\ i < Len(p) => p[i].added,
         ~p[Len(p)].added, p[Len(p)].nal = nals[k + 1],
         BringsFirst(o, nals, k)
  PROVE  BringsFirst(p, nals, k + 1)
<1> DEFINE n == Len(p)
<1>1. PICK place \in [1 .. k -> Given(o)] :
        /\ \A i, j \in 1 .. k : i < j => place[i] < place[j]
        /\ \A g \in Given(o) : \E i \in 1 .. k : place[i] = g
        /\ \A i \in 1 .. k : o[place[i]].nal = nals[i]
  BY DEF BringsFirst
<1>2. Given(p) = Given(o) \cup {n} /\ n \notin Given(o)
  BY DEF Given
<1>3. \A g \in Given(o) : g \in Nat /\ g < n /\ p[g] = o[g]
  BY DEF Given
<1> DEFINE more == [i \in 1 .. k + 1 |-> IF i = k + 1 THEN n ELSE place[i]]
<1>4. \A i \in 1 .. k : more[i] = place[i] /\ place[i] \in Given(o)
  BY <1>1
<1>5. more[k + 1] = n /\ \A i \in 1 .. k + 1 : i = k + 1 \/ i \in 1 .. k
  OBVIOUS
<1>6. more \in [1 .. k + 1 -> Given(p)]
  BY <1>1, <1>2
<1> HIDE DEF more, n
<1>7. \A i, j \in 1 .. k + 1 : i < j => more[i] < more[j]
  <2> SUFFICES ASSUME NEW i \in 1 .. k + 1, NEW j \in 1 .. k + 1, i < j
               PROVE  more[i] < more[j]
    OBVIOUS
  <2>1. i \in 1 .. k
    OBVIOUS
  <2>2. CASE j = k + 1
    BY <1>3, <1>4, <1>5, <2>1, <2>2
  <2>3. CASE j \in 1 .. k
    BY <1>1, <1>4, <2>1, <2>3
  <2> QED BY <1>5, <2>2, <2>3
<1>8. \A g \in Given(p) : \E i \in 1 .. k + 1 : more[i] = g
  <2>1. \A g \in Given(o) : \E i \in 1 .. k + 1 : more[i] = g
    <3> SUFFICES ASSUME NEW g \in Given(o) PROVE \E i \in 1 .. k + 1 : more[i] = g
      OBVIOUS
    <3>1. PICK i \in 1 .. k : place[i] = g
      BY <1>1
    <3> QED BY <1>4, <3>1
  <2>2. k + 1 \in 1 .. k + 1
    OBVIOUS
  <2> QED BY <1>2, <1>5, <2>1, <2>2
<1>9. \A i \in 1 .. k + 1 : p[more[i]].nal = nals[i]
  BY <1>1, <1>3, <1>4, <1>5 DEF n
<1> QED BY <1>6, <1>7, <1>8, <1>9 DEF BringsFirst

\* Parameter sets in front add no unit of the packet.
LEMMA InFront ==
  ASSUME NEW u, NEW r, NEW nals, NEW d \in {0, 1},
         Len(r) \in Nat, DOMAIN r = 1 .. Len(r), DOMAIN u = 1 .. d + Len(r),
         \A i \in 1 .. d : u[i].added,
         \A i \in 1 .. Len(r) : u[d + i] = r[i]
  PROVE  /\ Given(r) = {} => Given(u) = {}
         /\ Brings(r, nals) => Brings(u, nals)
<1>1. \A g \in Given(u) : g - d \in Given(r) /\ d + (g - d) = g
  <2> SUFFICES ASSUME NEW g \in 1 .. d + Len(r), ~u[g].added
               PROVE  g - d \in 1 .. Len(r) /\ d + (g - d) = g /\ ~r[g - d].added
    BY DEF Given
  <2>1. g \notin 1 .. d
    OBVIOUS
  <2>2. g - d \in 1 .. Len(r) /\ d + (g - d) = g
    BY <2>1
  <2> QED BY <2>2
<1>2. \A g \in Given(r) : g \in Nat /\ d + g \in Given(u) /\ u[d + g] = r[g]
  BY DEF Given
<1>3. ASSUME Brings(r, nals) PROVE Brings(u, nals)
  <2>1. PICK place \in [DOMAIN nals -> Given(r)] :
          /\ \A i, j \in DOMAIN nals : i < j => place[i] < place[j]
          /\ \A g \in Given(r) : \E i \in DOMAIN nals : place[i] = g
          /\ \A i \in DOMAIN nals : r[place[i]].nal = nals[i]
    BY <1>3 DEF Brings
  <2> DEFINE moved == [i \in DOMAIN nals |-> d + place[i]]
  <2>2. \A i \in DOMAIN nals : place[i] \in Given(r) /\ moved[i] = d + place[i]
    BY <2>1
  <2>3. moved \in [DOMAIN nals -> Given(u)]
    BY <1>2, <2>2
  <2> HIDE DEF moved
  <2>4. \A i, j \in DOMAIN nals : i < j => moved[i] < moved[j]
    BY <1>2, <2>1, <2>2
  <2>5. \A g \in Given(u) : \E i \in DOMAIN nals : moved[i] = g
    <3> SUFFICES ASSUME NEW g \in Given(u) PROVE \E i \in DOMAIN nals : moved[i] = g
      OBVIOUS
    <3>1. g - d \in Given(r) /\ d + (g - d) = g
      BY <1>1
    <3>2. PICK i \in DOMAIN nals : place[i] = g - d
      BY <2>1, <3>1
    <3> QED BY <2>2, <3>1, <3>2
  <2>6. \A i \in DOMAIN nals : u[moved[i]].nal = nals[i]
    BY <1>2, <2>1, <2>2
  <2> QED BY <2>3, <2>4, <2>5, <2>6 DEF Brings
<1>4. Given(r) = {} => Given(u) = {}
  BY <1>1
<1> QED BY <1>3, <1>4

\* The packet whose units are being converted.
LEMMA PacketIs ==
  ASSUME IInv, phase = "convert"
  PROVE  /\ packet.nals \in Seq(Nal) /\ packet.nals # <<>>
         /\ Len(packet.nals) \in Nat /\ DOMAIN packet.nals = 1 .. Len(packet.nals)
BY PlayAssumption DEF IInv, WorkOK

\* A round of the loop: the next unit of the packet goes to the output.
LEMMA ConvertNalWhole ==
  ASSUME IInv, WholeOK, ConvertNal
  PROVE  WholeOK'
<1> USE DEF ConvertNal
<1>1. /\ conv.m_to_annexb /\ conv'.m_to_annexb = conv.m_to_annexb
      /\ UNCHANGED <<packet, phase>> /\ phase = "convert"
  BY Converted DEF IInv, ConverterOK, Converter
<1>2. /\ todo \in Seq(Nal) /\ todo # <<>> /\ Head(todo) = todo[1]
      /\ Len(todo) \in Nat \ {0} /\ Len(todo') = Len(todo) - 1
      /\ DOMAIN todo' = 1 .. Len(todo) - 1
      /\ \A j \in DOMAIN todo' : todo'[j] = todo[j + 1] /\ j + 1 \in DOMAIN todo
  BY DEF IInv, WorkOK
<1>3. Consumed \in Nat /\ Len(packet.nals) \in Nat /\ Consumed' = Consumed + 1
  BY <1>1, <1>2, PacketIs DEF WholeOK, Consumed
<1>4. packet.broken => todo' # <<>>
  <2>1. packet.broken => Len(todo) # 1
    BY DEF Fails
  <2> QED BY <1>2, <2>1, EmptySeq
<1>5. \A j \in DOMAIN todo' : todo'[j] = packet.nals[Consumed' + j]
  <2> SUFFICES ASSUME NEW j \in DOMAIN todo'
               PROVE  todo'[j] = packet.nals[Consumed' + j]
    OBVIOUS
  <2>1. j \in Nat /\ j + 1 \in DOMAIN todo /\ todo'[j] = todo[j + 1]
    BY <1>2
  <2>2. todo[j + 1] = packet.nals[Consumed + (j + 1)]
    BY <1>1, <2>1 DEF WholeOK
  <2>3. Consumed + (j + 1) = Consumed' + j
    BY <1>3, <2>1
  <2> QED BY <2>1, <2>2, <2>3
<1>6. todo[1] = packet.nals[Consumed + 1]
  BY <1>1, <1>2 DEF WholeOK
<1>7. BringsFirst(out', packet.nals, Consumed + 1)
  <2> DEFINE n == Len(out')
  <2>1. /\ n \in Nat /\ DOMAIN out' = 1 .. n /\ DOMAIN out = 1 .. Len(out)
        /\ Len(out) \in Nat /\ Len(out) < n
        /\ \A i \in DOMAIN out : out'[i] = out[i]
        /\ ~out'[n].added /\ out'[n].nal = packet.nals[Consumed + 1]
    <3>1. DOMAIN out = 1 .. Len(out) /\ DOMAIN out' = 1 .. n /\ n \in Nat
      BY Converted DEF IInv, WorkOK
    <3> QED BY <1>2, <1>6, <3>1, Converted DEF Copy
  <2>2. \A i \in DOMAIN out' : i > Len(out) /\ i < n => out'[i].added
    BY <2>1, Converted DEF Added
  <2>3. BringsFirst(out, packet.nals, Consumed)
    BY <1>1, <1>2 DEF WholeOK
  <2> QED BY <1>3, <2>1, <2>2, <2>3, OneMore
<1>8. BringsFirst(out, packet.nals, Consumed)'
  <2> HIDE DEF ConvertNal
  <2>1. packet'.nals = packet.nals
    BY <1>1
  <2> QED BY <1>3, <1>7, <2>1
<1>9. Consumed' \in Nat
  BY <1>3
<1> HIDE DEF ConvertNal
<1> QED BY <1>1, <1>4, <1>5, <1>8, <1>9 DEF WholeOK

\* A packet is taken up: all of it is left, or it needs no conversion.
LEMMA ReadVideoWhole ==
  ASSUME IInv, NEW s \in opened, NEW nals \in Packets, NEW broken \in BOOLEAN,
         ReadVideo(s, nals, broken)
  PROVE  WholeOK'
<1> USE DEF ReadVideo
<1>1. IInv' /\ phase' = "convert" /\ packet'.nals = nals /\ packet'.broken = broken
  BY ReadVideoInv
<1>2. nals \in Seq(Nal) /\ nals # <<>> /\ Len(nals) \in Nat
  BY PlayAssumption
<1>3. out' = <<>> /\ conv' = conv
  OBVIOUS
<1>4. ASSUME conv.m_to_annexb
      PROVE  /\ todo' = nals /\ Consumed' = 0
             /\ \A j \in DOMAIN todo' : todo'[j] = nals[0 + j]
             /\ BringsFirst(<<>>, nals, 0)
  <2>1. todo' = nals
    BY <1>4 DEF Converting, IInv, ConverterOK
  <2>2. Consumed' = 0
    BY <1>1, <1>2, <2>1 DEF Consumed
  <2>3. \A j \in DOMAIN todo' : todo'[j] = nals[0 + j]
    BY <1>2, <2>1
  <2>4. BringsFirst(<<>>, nals, 0)
    <3>1. Given(<<>>) = {} /\ 1 .. 0 = {}
      BY DEF Given
    <3> DEFINE place == [i \in 1 .. 0 |-> 0]
    <3>2. place \in [1 .. 0 -> Given(<<>>)]
      BY <3>1
    <3> HIDE DEF place
    <3> QED BY <3>1, <3>2 DEF BringsFirst
  <2> QED BY <2>1, <2>2, <2>3, <2>4
<1>5. ~conv.m_to_annexb => ~broken
  <2> SUFFICES ASSUME ~conv.m_to_annexb PROVE ~broken
    OBVIOUS
  <2>1. s \in DOMAIN streams /\ streams[s].type = "video"
    BY TypeOfStream DEF IInv, SelectedOK, StreamsOK
  <2>2. s = 1 /\ streams # <<>> /\ streams[1] \in Stream
    BY <2>1, FirstStream DEF IInv, StreamsOK
  <2>3. streams[1].codec = "annexb"
    BY <2>1, <2>2 DEF IInv, ConverterOK, Stream
  <2> QED BY <2>2, <2>3
<1>6. conv'.m_to_annexb => BringsFirst(out, packet.nals, Consumed)'
  BY <1>1, <1>3, <1>4
<1> HIDE DEF ReadVideo
<1> QED BY <1>1, <1>2, <1>3, <1>4, <1>5, <1>6 DEF WholeOK

\* What is sent is the packet, or nothing.
LEMMA SendVideoWhole ==
  ASSUME IInv, WholeOK, SendVideo
  PROVE  WholeOK' /\ FrameIsWhole'
<1> USE DEF SendVideo
<1>1. PICK d \in {0, 1} :
        /\ DOMAIN Units = 1 .. d + Len(Rest)
        /\ \A i \in 1 .. d : Units[i].added
        /\ \A i \in 1 .. Len(Rest) : Units[d + i] = Rest[i]
  BY UnitsShape
<1>2. Len(Rest) \in Nat /\ DOMAIN Rest = 1 .. Len(Rest)
  BY UnitsShape
<1>3. /\ packet.nals \in Seq(Nal) /\ Len(packet.nals) \in Nat
      /\ DOMAIN packet.nals = 1 .. Len(packet.nals)
  BY PacketIs
<1>4. packet.broken => Given(Rest) = {}
  <2> SUFFICES ASSUME packet.broken PROVE Given(Rest) = {}
    OBVIOUS
  <2>1. conv.m_to_annexb
    BY DEF WholeOK
  <2>2. Rest = <<>>
    BY <2>1 DEF WholeOK, Rest
  <2> QED BY <2>2 DEF Given
<1>5. ~packet.broken => Brings(Rest, packet.nals)
  <2> SUFFICES ASSUME ~packet.broken PROVE Brings(Rest, packet.nals)
    OBVIOUS
  <2>1. CASE conv.m_to_annexb
    <3>1. Consumed = Len(packet.nals)
      BY <1>3 DEF Consumed
    <3>2. BringsFirst(out, packet.nals, Consumed)
      BY <2>1 DEF WholeOK
    <3>3. Rest = out
      BY <2>1 DEF Rest
    <3> QED BY <1>3, <3>1, <3>2, <3>3 DEF BringsFirst, Brings
  <2>2. CASE ~conv.m_to_annexb
    <3> DEFINE nals == packet.nals
               place == [i \in DOMAIN nals |-> i]
    <3>1. /\ DOMAIN Rest = DOMAIN nals
          /\ \A i \in DOMAIN nals : Rest[i].nal = nals[i] /\ ~Rest[i].added
      BY <2>2 DEF Rest, Copy
    <3>2. Given(Rest) = DOMAIN nals
      BY <3>1 DEF Given
    <3>3. place \in [DOMAIN nals -> Given(Rest)] /\ \A i \in DOMAIN nals : place[i] = i
      BY <3>2
    <3> HIDE DEF place, nals
    <3>4. \A g \in Given(Rest) : \E i \in DOMAIN nals : place[i] = g
      BY <3>2, <3>3
    <3>5. Brings(Rest, nals)
      BY <3>1, <3>3, <3>4 DEF Brings
    <3> QED BY <3>5 DEF nals
  <2> QED BY <2>1, <2>2
<1>6. /\ packet.broken => Given(Units) = {}
      /\ ~packet.broken => Brings(Units, packet.nals)
  <2>1. /\ Given(Rest) = {} => Given(Units) = {}
        /\ Brings(Rest, packet.nals) => Brings(Units, packet.nals)
    BY <1>1, <1>2, InFront
  <2> QED BY <1>4, <1>5, <2>1
<1>7. frame'.units = Units /\ packet' = packet /\ phase' = "play"
  BY DEF work
<1>8. FrameIsWhole'
  <2> HIDE DEF SendVideo
  <2>1. packet'.nals = packet.nals /\ packet'.broken = packet.broken
    BY <1>7
  <2> QED BY <1>6, <1>7, <2>1 DEF FrameIsWhole
<1> QED BY <1>7, <1>8 DEF WholeOK

\* Every step.
LEMMA NextWhole ==
  ASSUME IInv, WholeOK, FrameIsWhole, [Next]_vars
  PROVE  WholeOK' /\ FrameIsWhole'
<1> USE DEF addon, table, flags, work, decoder
<1>1. UNCHANGED frame /\ phase' \in {"table", "start", "end"}
        /\ phase \in {"ids", "table", "start", "play"}
        /\ (phase = "play" => phase' = "end")
      => WholeOK' /\ FrameIsWhole'
  BY DEF WholeOK, FrameIsWhole
<1>2. CASE GetStreamIDs \/ BuildTable \/ SelectStreams \/ EndOfStream
  BY <1>1, <1>2 DEF GetStreamIDs, BuildTable, SelectStreams, EndOfStream
<1>3. CASE StartStreams
  BY <1>3 DEF StartStreams, WholeOK, FrameIsWhole
<1>4. ASSUME NEW s \in opened, NEW r \in Reps, StreamChange(s, r)
      PROVE  WholeOK' /\ FrameIsWhole'
  BY <1>4 DEF StreamChange, WholeOK, FrameIsWhole
<1>5. ASSUME NEW s \in opened, ReadAudio(s) PROVE WholeOK' /\ FrameIsWhole'
  <2>1. frame'.type = "audio" /\ phase' = "play"
    BY <1>5 DEF ReadAudio, NoFrame
  <2> QED BY <2>1 DEF WholeOK, FrameIsWhole
<1>6. ASSUME NEW s \in opened, NEW nals \in Packets, NEW broken \in BOOLEAN,
             ReadVideo(s, nals, broken)
      PROVE  WholeOK' /\ FrameIsWhole'
  <2>1. phase' = "convert"
    BY <1>6 DEF ReadVideo
  <2> QED BY <1>6, <2>1, ReadVideoWhole DEF FrameIsWhole
<1>7. CASE ConvertFails
  <2>1. UNCHANGED <<packet, conv, phase, frame>> /\ todo' = <<>> /\ out' = <<>>
        /\ phase = "convert"
    BY <1>7 DEF ConvertFails
  <2>2. conv.m_to_annexb
    BY <1>7, <2>1 DEF ConvertFails, IInv, WorkOK
  <2>3. packet.broken
    <3>1. packet.from = 1 /\ conv.length_size = LengthSize[rep[packet.from]]
      BY <2>1, <2>2 DEF IInv, WorkOK, ConverterOK
    <3> QED BY <1>7, <3>1 DEF ConvertFails, Fails
  <2>4. DOMAIN todo' = {} /\ Consumed' \in Nat
    <3>1. Len(packet.nals) \in Nat
      BY <2>1, PacketIs
    <3> QED BY <2>1, <3>1 DEF Consumed
  <2> QED BY <2>1, <2>2, <2>3, <2>4 DEF WholeOK, FrameIsWhole
<1>8. CASE ConvertNal
  <2>1. phase' = "convert"
    BY <1>8 DEF ConvertNal
  <2> QED BY <1>8, <2>1, ConvertNalWhole DEF FrameIsWhole
<1>9. CASE SendVideo
  BY <1>9, SendVideoWhole
<1>10. CASE UNCHANGED vars
  <2>1. UNCHANGED <<phase, conv, packet, todo, out, frame>>
    BY <1>10 DEF vars
  <2>2. Consumed' = Consumed
    BY <2>1 DEF Consumed
  <2> QED BY <2>1, <2>2 DEF WholeOK, FrameIsWhole
<1> QED BY <1>2, <1>3, <1>4, <1>5, <1>6, <1>7, <1>8, <1>9, <1>10 DEF Next

\* A frame of video is its packet, unit by unit and in its order, apart from
\* parameter sets that were added, or brings nothing when the packet was
\* broken, for packets of any length, every number of representations and
\* changes and every list of streams that begins with its only video stream.
THEOREM AlwaysWhole ==
  ASSUME VideoFirst
  PROVE  Spec => []FrameIsWhole
<1>1. Init => WholeOK /\ FrameIsWhole
  BY DEF Init, NoFrame, WholeOK, FrameIsWhole
<1>2. IInv /\ WholeOK /\ FrameIsWhole /\ [Next]_vars => (WholeOK /\ FrameIsWhole)'
  BY NextWhole
<1> QED BY <1>1, <1>2, PlayInvariant, PTL DEF Spec

-----------------------------------------------------------------------------
(* ADTS headers, whatever the order of the streams *)

\* Stream ID is opened again with each change of any stream, so that the
\* headers are those of its representation when it is the audio and stay those
\* of the audio when it is the video; until the streams have been started
\* nothing is delivered.
HeaderOK ==
  /\ streams \in Seq(Stream) /\ rep \in [DOMAIN streams -> Reps]
  /\ TableOK
  /\ VideoID \in {0} \cup {s \in DOMAIN streams : streams[s].type = "video"}
  /\ AudioID \in {0} \cup {s \in DOMAIN streams : streams[s].type = "audio"}
  /\ opened \subseteq DOMAIN streams
  /\ opened \subseteq {VideoID, AudioID, ID}
  /\ phase \in {"ids", "table", "start"} => opened = {} /\ frame.type = "none"
  /\ phase \in {"play", "convert"} /\ AudioID # 0 /\ ID \in {VideoID, AudioID} =>
       /\ adts[1] = AudioID
       /\ AudioID = ID => adts = <<ID, rep[ID]>>
  /\ HeaderIsOwn

LEMMA SelectStreamsHeader ==
  ASSUME HeaderOK, SelectStreams
  PROVE  HeaderOK'
<1> USE DEF SelectStreams, HeaderOK, addon
<1>1. TableOK'
  BY DEF TableOK, Entry, Row
<1>2. \A i \in 1 .. Len(ID_type) : /\ i \in DOMAIN streams
                                   /\ ID_type[i].type = streams[i].type
  <2>1. \A i \in 1 .. Len(ID_type) : i \in DOMAIN streams /\ ID_type[i] = Entry(i)
    BY DEF TableOK
  <2>2. \A i : Entry(i).type = streams[i].type
    BY DEF Entry
  <2> QED BY <2>1, <2>2
<1>3. Len(ID_type) \in Nat /\ DOMAIN ID_type = 1 .. Len(ID_type)
  BY DEF TableOK
<1>4. VideoID' \in {0} \cup {s \in DOMAIN streams : streams[s].type = "video"}
  BY <1>2, <1>3
<1>5. AudioID' \in {0} \cup {s \in DOMAIN streams : streams[s].type = "audio"}
  BY <1>2, <1>3 DEF Usable
<1>6. HeaderIsOwn'
  BY DEF HeaderIsOwn, decoder
<1> QED BY <1>1, <1>4, <1>5, <1>6 DEF decoder

LEMMA StartStreamsHeader ==
  ASSUME HeaderOK, StartStreams
  PROVE  HeaderOK'
<1> USE DEF StartStreams, HeaderOK
<1>1. TableOK'
  BY StartStreamsRows
<1>2. AudioID # 0 => adts' = <<AudioID, rep[AudioID]>>
  BY DEF Described
<1>3. opened' \subseteq {VideoID, AudioID} /\ opened' \subseteq DOMAIN streams
  OBVIOUS
<1>4. HeaderIsOwn'
  BY DEF HeaderIsOwn, decoder
<1> QED BY <1>1, <1>2, <1>3, <1>4

LEMMA StreamChangeHeader ==
  ASSUME HeaderOK, NEW s \in opened, NEW r \in Reps, StreamChange(s, r)
  PROVE  HeaderOK'
<1> USE DEF StreamChange, HeaderOK
<1>1. 1 \in DOMAIN streams /\ 1 \in 1 .. Len(streams)
  <2> HIDE DEF StreamChange
  <2>1. Len(streams) \in Nat /\ DOMAIN streams = 1 .. Len(streams)
    BY LenProperties
  <2>2. s \in DOMAIN streams
    OBVIOUS
  <2> QED BY <2>1, <2>2
<1>2. TableOK'
  BY <1>1, StreamChangeRows
<1>3. rep' \in [DOMAIN streams -> Reps]
  OBVIOUS
<1>4. AudioID # 0 /\ ID \in {VideoID, AudioID} =>
        /\ adts'[1] = AudioID
        /\ AudioID = ID => adts' = <<ID, rep'[ID]>>
  BY DEF Described, ID
<1>5. opened' \subseteq DOMAIN streams /\ opened' \subseteq {VideoID, AudioID, ID}
  BY <1>1 DEF ID
<1>6. HeaderIsOwn'
  BY DEF HeaderIsOwn, decoder
<1> QED BY <1>2, <1>3, <1>4, <1>5, <1>6

LEMMA ReadAudioHeader ==
  ASSUME HeaderOK, NEW s \in opened, ReadAudio(s)
  PROVE  HeaderOK'
<1> USE DEF ReadAudio, HeaderOK, addon, table
<1>1. s \in DOMAIN streams /\ streams[s].type = "audio"
  BY TypeOfStream
<1>2. TableOK'
  BY DEF TableOK, Entry, Row
<1>3. frame'.type = "audio" /\ frame'.of = <<s, rep[s]>> /\ frame'.adts = adts
  BY DEF NoFrame
<1>4. ASSUME ID \in {VideoID, AudioID}
      PROVE  adts[1] = s /\ (s = ID => adts = <<s, rep[s]>>)
  <2>1. s \in {VideoID, AudioID} /\ s # 0
    BY <1>1, <1>4
  <2>2. s = AudioID
    BY <1>1, <2>1
  <2> QED BY <1>4, <2>1, <2>2
<1>5. HeaderIsOwn'
  BY <1>3, <1>4 DEF HeaderIsOwn
<1> QED BY <1>2, <1>5

\* The other steps send no audio and open nothing.
LEMMA GetStreamIDsHeader ==
  ASSUME HeaderOK, GetStreamIDs
  PROVE  HeaderOK'
<1> USE DEF GetStreamIDs, HeaderOK, addon, decoder
<1>1. TableOK'
  BY DEF TableOK, Entry, Row
<1>2. HeaderIsOwn'
  BY DEF HeaderIsOwn
<1> QED BY <1>1, <1>2

LEMMA BuildTableHeader ==
  ASSUME HeaderOK, BuildTable
  PROVE  HeaderOK'
<1> USE DEF BuildTable, HeaderOK, addon, decoder
<1>1. TableOK'
  BY BuildTableRows
<1>2. HeaderIsOwn'
  BY DEF HeaderIsOwn
<1> QED BY <1>1, <1>2

LEMMA VideoHeader ==
  ASSUME HeaderOK, UNCHANGED <<addon, table, adts>>,
         UNCHANGED frame \/ (frame'.type = "video" /\ phase = "convert"),
         \/ UNCHANGED phase
         \/ phase \in {"play", "convert"} /\ phase' \in {"play", "convert", "end"}
  PROVE  HeaderOK'
<1> USE DEF HeaderOK, addon, table
<1>1. TableOK'
  BY DEF TableOK, Entry, Row
<1>2. HeaderIsOwn'
  BY DEF HeaderIsOwn
<1> QED BY <1>1, <1>2

\* HeaderIsOwn holds for every list of streams, every number of representations
\* and every number of changes between them: a frame of audio goes out with the
\* header of its own stream, and of its representation if it is stream ID.
THEOREM AlwaysOwnHeader == Spec => []HeaderIsOwn
<1>1. Init => HeaderOK
  BY PlayAssumption DEF Init, HeaderOK, TableOK, HeaderIsOwn, NoFrame
<1>2. HeaderOK /\ [Next]_vars => HeaderOK'
  <2> SUFFICES ASSUME HeaderOK, [Next]_vars PROVE HeaderOK'
    OBVIOUS
  <2>1. CASE SelectStreams
    BY <2>1, SelectStreamsHeader
  <2>2. CASE StartStreams
    BY <2>2, StartStreamsHeader
  <2>3. ASSUME NEW s \in opened, NEW r \in Reps, StreamChange(s, r) PROVE HeaderOK'
    BY <2>3, StreamChangeHeader
  <2>4. ASSUME NEW s \in opened, ReadAudio(s) PROVE HeaderOK'
    BY <2>4, ReadAudioHeader
  <2>5. CASE GetStreamIDs
    BY <2>5, GetStreamIDsHeader
  <2>6. CASE BuildTable
    BY <2>6, BuildTableHeader
  <2>7. ASSUME NEW s \in opened, NEW nals \in Packets, NEW broken \in BOOLEAN,
               ReadVideo(s, nals, broken)
        PROVE  HeaderOK'
    BY <2>7, VideoHeader DEF ReadVideo, decoder
  <2>8. CASE ConvertFails
    BY <2>8, VideoHeader DEF ConvertFails, decoder
  <2>9. CASE ConvertNal
    BY <2>9, VideoHeader DEF ConvertNal, decoder
  <2>10. CASE SendVideo
    <3>1. frame'.type = "video" /\ phase = "convert" /\ phase' = "play"
      BY <2>10 DEF SendVideo
    <3>2. UNCHANGED <<addon, table, adts>>
      BY <2>10 DEF SendVideo
    <3> QED BY <3>1, <3>2, VideoHeader
  <2>11. CASE EndOfStream
    BY <2>11, VideoHeader DEF EndOfStream, decoder
  <2>12. CASE UNCHANGED vars
    BY <2>12, VideoHeader DEF vars, decoder
  <2> QED BY <2>1, <2>2, <2>3, <2>4, <2>5, <2>6, <2>7, <2>8, <2>9, <2>10, <2>11, <2>12
       DEF Next
<1>3. HeaderOK => HeaderIsOwn
  BY DEF HeaderOK
<1> QED BY <1>1, <1>2, <1>3, PTL DEF Spec
=============================================================================
