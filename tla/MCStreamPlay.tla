---------------------------- MODULE MCStreamPlay ----------------------------
(* StreamPlay for TLC. *)
EXTENDS StreamPlay

Avc == [type |-> "video", codec |-> "avcC"]
AnnexB == [type |-> "video", codec |-> "annexb"]
Aac == [type |-> "audio", codec |-> "aac"]
Eac3 == [type |-> "audio", codec |-> "eac3"]

\* The video first, with an audio stream that is passed over, without one that
\* can be used, and in Annex B form; and the audio first, with video that needs
\* no converter.
SomeLayouts == {<<Avc, Eac3, Aac>>, <<Avc, Eac3>>, <<AnnexB, Aac>>, <<Aac, AnnexB>>}

\* The two representations have lengths of different widths.
Widths == [r \in Reps |-> IF r = 1 THEN 4 ELSE 2]

\* IDR pictures of one and of two slices, with and without parameter sets, and
\* other pictures of one and of two slices.
Pictures == {<<"idr">>, <<"other", "idr", "idr">>, <<"params", "other", "idr">>,
             <<"slice">>, <<"slice", "slice">>}
=============================================================================
