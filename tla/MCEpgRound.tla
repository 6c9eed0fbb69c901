----------------------------- MODULE MCEpgRound -----------------------------
(* EpgRound for TLC: a channel with two programmes, one without any and one *)
(* that VDR does not have.                                                  *)
EXTENDS EpgRound, TLC

CONSTANTS c1, c2, c3, p1, p2

MCGuide == c1 :> <<p1, p2>> @@ c2 :> <<>> @@ c3 :> <<p2>>
=============================================================================
