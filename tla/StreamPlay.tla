----------------------------- MODULE StreamPlay -----------------------------
(***************************************************************************)
(* How dash2ts gets H.264 video and AAC audio out of the inputstream       *)
(* add-on: StreamPlayer::StreamPlay() (src/src/streamplayer.cpp), the      *)
(* table of streams and the callbacks of AddonHandler                      *)
(* (src/src/addonhandler.cpp), and the converter of NAL units              *)
(* (src/src/bitstreamconverter.cpp), with a decoder at the other end.      *)
(*                                                                         *)
(* The add-on offers each stream in several representations and goes from  *)
(* one to another as the network allows.  It then puts a packet with       *)
(* DMX_SPECIALID_STREAMCHANGE between the others, and StreamPlay() closes  *)
(* the converter and opens it again.  An H.264 picture can be decoded only *)
(* with the parameter sets of its representation; they come with the       *)
(* stream information (m_ExtraData) or in front of an IDR picture, and the *)
(* converter has to see to it that they are there.                         *)
(*                                                                         *)
(* A NAL unit is what it is: "params" stands for an SPS with its PPS,      *)
(* "idr" and "slice" for slices of IDR and other pictures, "other" for the *)
(* rest.  Parameter sets are named by the stream and the representation    *)
(* they belong to.  TsMuxer models what happens to a frame afterwards.     *)
(***************************************************************************)
EXTENDS Integers, Sequences

CONSTANTS
  Layouts,     \* the lists of streams the add-on may have
  Reps,        \* the representations of a stream
  LengthSize,  \* how many bytes the length of a NAL unit has, by representation
  Packets,     \* the NAL units of a video packet
  MaxChanges   \* bound: changes of representation

Stream == [type : {"video"}, codec : {"avcC", "annexb"}] \cup [type : {"audio"}, codec : {"aac", "eac3"}]
Nal == {"params", "idr", "slice", "other"}

\* The codec of video stands for the form of its extra data and its packets.
\* As H.264 has it, a picture is an IDR picture in all its slices or in none
\* and parameter sets come before them.
ASSUME PlayAssumption ==
  /\ Layouts \subseteq Seq(Stream)
  /\ LengthSize \in [Reps -> 1 .. 4]
  /\ Packets \subseteq Seq(Nal) \ {<<>>}
  /\ \A nals \in Packets : \A i, j \in DOMAIN nals :
       /\ i < j /\ nals[i] \in {"idr", "slice"} => nals[j] # "params"
       /\ nals[i] = "idr" => nals[j] # "slice"
  /\ MaxChanges \in Nat

VARIABLES
  streams,     \* add-on: its streams
  rep,         \* add-on: the representation of each
  opened,      \* add-on: the streams it delivers packets of
  changes,     \* bound: the changes so far
  phase,       \* where StreamPlay() is
  ID_type,     \* the table of streams
  VideoID,     \* the video stream, 0 for the -1 of the code
  AudioID,     \* the audio stream, 0 for the -1 of the code
  conv,        \* the converter
  adts,        \* the stream and the representation the ADTS headers describe
  audioseen,   \* an audio packet has been read
  firstvideo,  \* no parameter sets have been sent in front of a frame
  packet,      \* the video packet being converted
  todo,        \* the NAL units of it that are still to be converted
  out,         \* the output of the converter
  frame,       \* the last frame that went to the multiplexer
  params,      \* decoder: the parameter sets it has
  joins,       \* decoder: its last slice was of a picture that is no IDR
  lost         \* a packet was broken since the converter was opened

addon == <<streams, rep, opened, changes>>
table == <<ID_type, VideoID, AudioID>>
flags == <<audioseen, firstvideo>>
work == <<packet, todo, out>>
decoder == <<frame, params, joins>>
vars == <<addon, phase, table, conv, adts, flags, work, decoder, lost>>

None == <<0, 0>>
NoPacket == [from |-> 0, nals |-> <<>>, broken |-> FALSE]
NoFrame == [type |-> "none", of |-> None, adts |-> None, units |-> <<>>, had |-> None,
            joins |-> FALSE, lost |-> FALSE, inband |-> FALSE]

\* BitstreamConverterInit()
Initialized ==
  [m_to_annexb |-> FALSE, m_convert_bitstream |-> FALSE, sps_pps_data |-> None,
   length_size |-> 0, first_idr |-> FALSE, idr_sps_pps_seen |-> FALSE]

Init ==
  /\ streams \in Layouts
  /\ rep \in [DOMAIN streams -> Reps]
  /\ opened = {}
  /\ changes = 0
  /\ phase = "ids"
  /\ ID_type = <<>>
  /\ VideoID = 0 /\ AudioID = 0
  /\ conv = Initialized
  /\ adts = None
  /\ audioseen = FALSE
  /\ firstvideo = TRUE
  /\ packet = NoPacket /\ todo = <<>> /\ out = <<>>
  /\ frame = NoFrame /\ params = None /\ joins = FALSE
  /\ lost = FALSE

-----------------------------------------------------------------------------
(* The converter opened and closed *)

\* Mutant: the converter goes on with the flags of the last representation.
OpenedAsBefore(c, s, r) ==
  IF streams[s].codec = "avcC"
    THEN [m_to_annexb |-> TRUE, m_convert_bitstream |-> TRUE, sps_pps_data |-> <<s, r>>,
          length_size |-> LengthSize[r], first_idr |-> ~c.m_to_annexb \/ c.first_idr,
          idr_sps_pps_seen |-> c.m_to_annexb /\ c.idr_sps_pps_seen]
    ELSE [c EXCEPT !.m_to_annexb = FALSE, !.m_convert_bitstream = FALSE, !.sps_pps_data = None]

\* BitstreamConverterOpen() with the extra data of representation r.
Opened(c, s, r) ==
  IF streams[s].codec = "avcC"
    THEN [m_to_annexb |-> TRUE, m_convert_bitstream |-> TRUE, sps_pps_data |-> <<s, r>>,
          length_size |-> LengthSize[r], first_idr |-> TRUE, idr_sps_pps_seen |-> FALSE]
    ELSE [c EXCEPT !.m_to_annexb = FALSE, !.m_convert_bitstream = FALSE, !.sps_pps_data = None]

\* m_to_annexb stays as it is.
Closed(c) == [c EXCEPT !.m_convert_bitstream = FALSE, !.sps_pps_data = None]

\* What GetStream() of stream s does to the converter once a stream has been
\* enabled, and below to the ADTS headers.
Transferred(c, s, r) == IF s # 0 /\ streams[s].type = "video" THEN Opened(c, s, r) ELSE c

\* Mutant: the headers go on describing what was opened first.
DescribedOnce(s, r) ==
  IF s # 0 /\ streams[s].type = "audio" /\ adts = None THEN <<s, r>> ELSE adts

\* AudioConverterOpen() keeps profile, rate and channels of representation r.
Described(s, r) == IF s # 0 /\ streams[s].type = "audio" THEN <<s, r>> ELSE adts

\* Every GetStream() lengthens the table.
Entry(s) == [ID |-> s, type |-> streams[s].type, codec |-> streams[s].codec]
Entries(s) == IF s = 0 THEN <<>> ELSE <<Entry(s)>>

\* The first entry of the stream.
GetType(s) ==
  LET i == CHOOSE i \in DOMAIN ID_type :
             ID_type[i].ID = s /\ \A j \in 1 .. i - 1 : ID_type[j].ID # s
  IN ID_type[i].type

-----------------------------------------------------------------------------
(* StreamPlay() before its loop *)

GetStreamIDs ==
  /\ phase = "ids"
  /\ phase' \in {"table", "end"}
  /\ ID_type' = <<>>
  /\ conv' = IF phase' = "table" THEN Initialized ELSE conv
  /\ UNCHANGED <<addon, VideoID, AudioID, adts, flags, work, decoder, lost>>

\* GetStream() for each stream; none is enabled and nothing is opened.
BuildTable ==
  /\ phase = "table"
  /\ Len(ID_type) < Len(streams)
  /\ ID_type' = Append(ID_type, Entry(Len(ID_type) + 1))
  /\ UNCHANGED <<addon, phase, VideoID, AudioID, conv, adts, flags, work, decoder, lost>>

Usable(i) == ID_type[i].type = "audio" /\ ID_type[i].codec # "eac3"

\* The last video stream and the first audio stream that is not E-AC-3.
SelectStreams ==
  /\ phase = "table"
  /\ Len(ID_type) = Len(streams)
  /\ VideoID' \in {i \in 0 .. Len(ID_type) :
       /\ i = 0 \/ ID_type[i].type = "video"
       /\ \A j \in i + 1 .. Len(ID_type) : ID_type[j].type # "video"}
  /\ AudioID' \in {i \in 0 .. Len(ID_type) :
       IF i = 0 THEN \A j \in DOMAIN ID_type : ~Usable(j)
       ELSE Usable(i) /\ \A j \in 1 .. i - 1 : ~Usable(j)}
  /\ phase' = "start"
  /\ UNCHANGED <<addon, ID_type, conv, adts, flags, work, decoder, lost>>

\* EnableStream() and OpenStream() of both, then GetStream() of both.  For a
\* stream that was not found the add-on is asked for an ID it does not have.
StartStreams ==
  /\ phase = "start"
  /\ opened' = {VideoID, AudioID} \ {0}
  /\ ID_type' = ID_type \o Entries(VideoID) \o Entries(AudioID)
  /\ conv' = Transferred(conv, VideoID, rep[VideoID])
  /\ adts' = Described(AudioID, rep[AudioID])
  /\ phase' = "play"
  /\ UNCHANGED <<streams, rep, changes, VideoID, AudioID, flags, work, decoder, lost>>

-----------------------------------------------------------------------------
(* The loop: DemuxRead() gives a packet *)

\* The member ID of StreamPlayer is 0 and stays 0: the first stream.
ID == 1

\* A stream has a new representation, and stream ID is opened again, be it that
\* one or not: when it is the video, what the headers say of the audio stays.
StreamChange(s, r) ==
  /\ phase = "play"
  /\ changes < MaxChanges
  /\ changes' = changes + 1
  /\ rep' = [rep EXCEPT ![s] = r]
  /\ opened' = opened \cup {ID}
  /\ ID_type' = Append(ID_type, Entry(ID))
  /\ conv' = Transferred(Closed(conv), ID, rep'[ID])
  /\ adts' = Described(ID, rep'[ID])
  /\ lost' = FALSE
  /\ UNCHANGED <<streams, phase, VideoID, AudioID, flags, work, decoder>>

ReadAudio(s) ==
  /\ phase = "play"
  /\ s \in opened /\ GetType(s) = "audio"
  /\ audioseen' = TRUE
  /\ frame' = [NoFrame EXCEPT !.type = "audio", !.of = <<s, rep[s]>>, !.adts = adts]
  /\ UNCHANGED <<addon, phase, table, conv, adts, firstvideo, work, params, joins, lost>>

Converting == conv.m_to_annexb /\ conv.m_convert_bitstream

\* Packets in Annex B form bring the parameter sets of their IDR pictures.
WithParameters(nals) ==
  \A i \in DOMAIN nals : nals[i] = "idr" => \E j \in 1 .. i - 1 : nals[j] = "params"

\* Video that has to be converted is dropped until audio has been seen.  When
\* the packet is broken its last NAL unit is longer than what is left.
ReadVideo(s, nals, broken) ==
  /\ phase = "play"
  /\ s \in opened /\ GetType(s) = "video"
  /\ audioseen \/ ~conv.m_to_annexb
  /\ streams[s].codec = "annexb" => WithParameters(nals) /\ ~broken
  /\ packet' = [from |-> s, nals |-> nals, broken |-> broken]
  /\ todo' = IF Converting THEN nals ELSE <<>>
  /\ out' = <<>>
  /\ phase' = "convert"
  /\ UNCHANGED <<addon, table, conv, adts, flags, decoder, lost>>

-----------------------------------------------------------------------------
(* BitstreamConvert(): one round of its loop *)

Own == <<packet.from, rep[packet.from]>>
Copy(nal) == [nal |-> nal, of |-> Own, added |-> FALSE]
\* None stands for the null pointer of a converter that was closed and not opened
\* again; VideoFirst, below, excludes that it gets here.
Added == [nal |-> "params", of |-> conv.sps_pps_data, added |-> TRUE]

\* Mutant: a length is not compared with what is left of the packet.
FailsByWidth == conv.length_size # LengthSize[rep[packet.from]]

\* A length of the wrong width is 0 or goes beyond the packet.
Fails ==
  \/ conv.length_size # LengthSize[rep[packet.from]]
  \/ packet.broken /\ Len(todo) = 1

\* The parameter sets are in the stream: "Don't add sps/pps if the unit
\* already contain them".
Seen == conv.idr_sps_pps_seen \/ (conv.first_idr /\ Head(todo) = "params")

\* Mutant: only the first IDR slice of the stream gets parameter sets.
NeverAgain == FALSE

\* The next IDR picture gets parameter sets again.
Rearmed == ~conv.first_idr /\ Head(todo) = "slice"

\* Mutant: every slice of an IDR picture gets parameter sets.
EachSlice == Head(todo) = "idr" /\ ~Seen

Prepended == conv.first_idr /\ Head(todo) = "idr" /\ ~Seen

\* fail: everything converted so far is thrown away.
ConvertFails ==
  /\ phase = "convert" /\ todo # <<>>
  /\ Fails
  /\ todo' = <<>>
  /\ out' = <<>>
  /\ lost' = TRUE
  /\ UNCHANGED <<addon, phase, table, conv, adts, flags, packet, decoder>>

ConvertNal ==
  /\ phase = "convert" /\ todo # <<>>
  /\ ~Fails
  /\ todo' = Tail(todo)
  /\ out' = Append(IF Prepended THEN Append(out, Added) ELSE out, Copy(Head(todo)))
  /\ conv' = [conv EXCEPT !.first_idr = (conv.first_idr /\ ~Prepended) \/ Rearmed,
                          !.idr_sps_pps_seen = Seen /\ ~Rearmed]
  /\ UNCHANGED <<addon, phase, table, adts, flags, packet, decoder, lost>>

-----------------------------------------------------------------------------
(* The frame goes to the multiplexer, and a decoder gets it *)

\* A decoder that had the parameter sets `had' before a frame has p when it
\* comes to unit i: it got them last.
InForce(p, units, i, had) ==
  \/ /\ p = had
     /\ \A j \in 1 .. i - 1 : units[j].nal = "params" => units[j].of = p
  \/ \E j \in 1 .. i - 1 :
       /\ units[j].nal = "params" /\ units[j].of = p
       /\ \A k \in j + 1 .. i - 1 : units[k].nal = "params" => units[k].of = p

ParameterSets == {None} \cup ((DOMAIN streams) \X Reps)

\* The first frame that was converted begins with the parameter sets; frames
\* that need no conversion go out as they came, and those that should have
\* been converted and were not go out empty.
Units ==
  (IF firstvideo /\ conv.m_to_annexb THEN <<Added>> ELSE <<>>)
  \o (IF conv.m_to_annexb THEN out ELSE [i \in DOMAIN packet.nals |-> Copy(packet.nals[i])])

SendVideo ==
  /\ phase = "convert" /\ todo = <<>>
  /\ frame' = [type |-> "video", of |-> Own, adts |-> None, units |-> Units, had |-> params,
               joins |-> joins, lost |-> lost, inband |-> conv.idr_sps_pps_seen]
  /\ params' \in {p \in ParameterSets : InForce(p, Units, Len(Units) + 1, params)}
  /\ joins' = LET slices == {i \in DOMAIN Units : Units[i].nal \in {"idr", "slice"}}
              IN IF slices = {} THEN joins
                 ELSE \A i \in slices : Units[i].nal = "slice"
  /\ firstvideo' = (firstvideo /\ ~conv.m_to_annexb)
  /\ phase' = "play"
  /\ UNCHANGED <<addon, table, conv, adts, audioseen, work, lost>>

\* DemuxRead() gives NULL.
EndOfStream ==
  /\ phase = "play"
  /\ phase' = "end"
  /\ UNCHANGED <<addon, table, conv, adts, flags, work, decoder, lost>>

-----------------------------------------------------------------------------
Next ==
  \/ GetStreamIDs \/ BuildTable \/ SelectStreams \/ StartStreams
  \/ \E s \in opened :
       \/ \E r \in Reps : StreamChange(s, r)
       \/ ReadAudio(s)
       \/ \E nals \in Packets, broken \in BOOLEAN : ReadVideo(s, nals, broken)
  \/ ConvertFails \/ ConvertNal \/ SendVideo
  \/ EndOfStream

Spec == Init /\ [][Next]_vars

-----------------------------------------------------------------------------
Converter == [m_to_annexb : BOOLEAN, m_convert_bitstream : BOOLEAN, sps_pps_data : ParameterSets,
              length_size : 0 .. 4, first_idr : BOOLEAN, idr_sps_pps_seen : BOOLEAN]

\* The ranges of the variables; the stream selected for audio is one that ADTS
\* headers can describe.
TypeOK ==
  /\ phase \in {"ids", "table", "start", "play", "convert", "end"}
  /\ rep \in [DOMAIN streams -> Reps]
  /\ opened \subseteq DOMAIN streams
  /\ changes \in 0 .. MaxChanges
  /\ ID_type \in Seq([ID : DOMAIN streams, type : {"video", "audio"},
                     codec : {"avcC", "annexb", "aac", "eac3"}])
  /\ VideoID \in {0} \cup {s \in DOMAIN streams : streams[s].type = "video"}
  /\ AudioID \in {0} \cup {s \in DOMAIN streams : streams[s].codec = "aac"}
  /\ conv \in Converter
  /\ adts \in ParameterSets
  /\ audioseen \in BOOLEAN /\ firstvideo \in BOOLEAN
  /\ todo \in Seq(Nal)
  /\ params \in ParameterSets
  /\ joins \in BOOLEAN /\ lost \in BOOLEAN

\* The order of streams StreamPlay() is made for: the video stream is the
\* first stream and the only one of its type.
VideoFirst == \A l \in Layouts : \A i \in DOMAIN l : l[i].type = "video" <=> i = 1

\* When a decoder comes to a slice of an IDR picture it has the parameter sets
\* of the representation the slice is of, whatever changes of representation,
\* video dropped for want of audio and parameter sets in the packets came
\* before, as long as no packet was broken since the last change
\* (StreamPlay(), STREAMCHANGE and firstvideo; BitstreamConvert(), first_idr
\* and idr_sps_pps_seen).
Decodable ==
  \A i \in DOMAIN frame.units :
    frame.units[i].nal = "idr" /\ ~frame.lost =>
      InForce(frame.units[i].of, frame.units, i, frame.had)

\* Parameter sets are never put between two slices of a picture
\* (BitstreamConvert(), "prepend only to the first access unit of an IDR
\* picture").
ParametersFirst ==
  \A i, j \in DOMAIN frame.units :
    i < j /\ frame.units[i].nal \in {"idr", "slice"} => frame.units[j].nal # "params"

\* Where the units that the converter did not add are.
Given(units) == {i \in DOMAIN units : ~units[i].added}

\* They are the units `nals', each of them once and in their order.
Brings(units, nals) ==
  \E place \in [DOMAIN nals -> Given(units)] :
    /\ \A i, j \in DOMAIN nals : i < j => place[i] < place[j]
    /\ \A g \in Given(units) : \E i \in DOMAIN nals : place[i] = g
    /\ \A i \in DOMAIN nals : units[place[i]].nal = nals[i]

\* Apart from what the converter adds a frame is its packet, NAL unit by NAL
\* unit, or nothing when the packet is broken; never a part of it
\* (BitstreamConvert(), fail, and CBitstreamConverter()).
FrameIsWhole ==
  phase = "play" /\ frame.type = "video" =>
    IF packet.broken THEN Given(frame.units) = {}
    ELSE Brings(frame.units, packet.nals)

\* The ADTS header in front of a frame of audio describes the stream the frame
\* is of, whatever was opened again since; and when that stream is the one that
\* StreamPlay() opens again, it describes the representation the frame is of,
\* however often that has changed (cb_get_stream_transfer(),
\* AudioConverterOpen(), STREAMCHANGE).  Audio that comes behind the video keeps
\* the header of the representation it began with: nothing is claimed of that,
\* nor of a first stream that is none of the two that are played.
HeaderIsOwn ==
  frame.type = "audio" /\ ID \in {VideoID, AudioID} =>
    /\ frame.adts[1] = frame.of[1]
    /\ frame.of[1] = ID => frame.adts = frame.of

\* An IDR picture that follows other pictures has its parameter sets in front
\* of it, so that a decoder can begin there (BitstreamConvert(), "prepend only
\* to the first access unit of an IDR picture, if no sps/pps already present").
IdrCarriesParameters ==
  frame.joins /\ ~frame.lost =>
    \A i \in DOMAIN frame.units :
      frame.units[i].nal = "idr" => \E j \in 1 .. i - 1 : frame.units[j].nal = "params"

\* So it has while the converter has seen no parameter sets in a packet.
OutOfBandRepeated ==
  ~frame.inband => IdrCarriesParameters
=============================================================================
