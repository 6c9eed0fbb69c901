------------------------------ MODULE LeasePool ------------------------------
(***************************************************************************)
(* What the users of curlhandler[] may rely on: a request gets an instance *)
(* that no other request holds, keeps it until it closes it, and is turned *)
(* away only while every instance is held.                                 *)
(***************************************************************************)
CONSTANTS Client, Instance

VARIABLES
  lease,   \* per client: the instances it holds, one at most
  refused  \* the clients whose last attempt was turned away

vars == <<lease, refused>>

Held == UNION {lease[c] : c \in Client}

Init ==
  /\ lease = [c \in Client |-> {}]
  /\ refused = {}

Acquire(c, i) ==
  /\ lease[c] = {}
  /\ i \notin Held
  /\ lease' = [lease EXCEPT ![c] = {i}]
  /\ refused' = refused \ {c}

Refuse(c) ==
  /\ lease[c] = {}
  /\ Held = Instance
  /\ refused' = refused \cup {c}
  /\ UNCHANGED lease

Release(c) ==
  /\ lease[c] # {}
  /\ lease' = [lease EXCEPT ![c] = {}]
  /\ UNCHANGED refused

Next ==
  \E c \in Client :
    \/ \E i \in Instance : Acquire(c, i)
    \/ Refuse(c)
    \/ Release(c)

Spec == Init /\ [][Next]_vars

\* No two clients hold the same instance.
Exclusive ==
  \A c, d \in Client : c # d => lease[c] \cap lease[d] = {}
=============================================================================
