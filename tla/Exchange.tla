------------------------------ MODULE Exchange ------------------------------
(***************************************************************************)
(* What the viewers of zattood may rely on: a request is answered once,    *)
(* with the stream of the channel that was asked for or with an error, and *)
(* before the next one is made.                                            *)
(***************************************************************************)
CONSTANTS Viewer, Channel, Unknown, Error, Nothing

VARIABLES
  wanted,  \* per viewer: the channel it has asked for, or Nothing
  answer   \* per viewer: the stream it was given, Error or Nothing

vars == <<wanted, answer>>

Init ==
  /\ wanted = [v \in Viewer |-> Nothing]
  /\ answer = [v \in Viewer |-> Nothing]

Open(v) == wanted[v] # Nothing /\ answer[v] = Nothing

Ask(v, c) ==
  /\ \A u \in Viewer : ~Open(u)
  /\ wanted[v] = Nothing
  /\ wanted' = [wanted EXCEPT ![v] = c]
  /\ UNCHANGED answer

Answer(v) ==
  /\ Open(v)
  /\ \E a \in ({wanted[v]} \cap Channel) \cup {Error} : answer' = [answer EXCEPT ![v] = a]
  /\ UNCHANGED wanted

Next == \E v \in Viewer : Answer(v) \/ \E c \in Channel \cup {Unknown} : Ask(v, c)

Spec == Init /\ [][Next]_vars

\* An answer is one to what was asked for, and the stream of that channel.
Fitting ==
  \A v \in Viewer :
    answer[v] # Nothing =>
      /\ wanted[v] # Nothing
      /\ answer[v] \in ({wanted[v]} \cap Channel) \cup {Error}

\* No two requests wait for an answer at the same time.
OneOpen == \A u, v \in Viewer : Open(u) /\ Open(v) => u = v
=============================================================================
