--------------------------- MODULE OrderedChannel ---------------------------
(***************************************************************************)
(* What the reader of the transport stream may rely on: it receives what   *)
(* the multiplexer sent, in the order it was sent, each piece once.  The   *)
(* channel may hold pieces back, and the reader may never see the last of  *)
(* them.                                                                   *)
(***************************************************************************)
EXTENDS Naturals, Sequences

CONSTANT Message

VARIABLES sent, received

vars == <<sent, received>>

Init == sent = <<>> /\ received = <<>>

Send(message) ==
  /\ sent' = Append(sent, message)
  /\ UNCHANGED received

Receive ==
  /\ Len(received) < Len(sent)
  /\ received' = Append(received, sent[Len(received) + 1])
  /\ UNCHANGED sent

Next == Receive \/ \E message \in Message : Send(message)

Spec == Init /\ [][Next]_vars

\* What was received is the beginning of what was sent: nothing is lost before
\* a later message, repeated or overtaken.
Delivered ==
  /\ Len(received) <= Len(sent)
  /\ \A i \in 1 .. Len(received) : received[i] = sent[i]
=============================================================================
