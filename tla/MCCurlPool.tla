----------------------------- MODULE MCCurlPool -----------------------------
(* CurlPool for TLC.  Clients are interchangeable, and so are hosts. *)
EXTENDS CurlPool, FiniteSets, TLC

Symmetry == Permutations(Client \ FileClient) \cup Permutations(FileClient)
              \cup Permutations(Host)

\* A bound: the threads post nothing, which only OnlyAskedPosts would see.
NothingPosted == \A c \in Client : "postdata" \notin asked[c]

\* A bound: where files are written the threads ask one host, which redirects
\* nowhere, and give no options.
PlainBesideFiles ==
  LET wanted == {target[c] : c \in Client}
      known == {curlhandler[i].url : i \in Instance}
  IN  http \/ /\ Cardinality((wanted \cup known) \cap Host) <= 1
              /\ \A c \in Client : asked[c] = {}
              /\ \A i \in Instance : Cardinality(curlhandler[i].conn) <= 1
=============================================================================
