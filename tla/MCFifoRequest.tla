--------------------------- MODULE MCFifoRequest ---------------------------
(* FifoRequest for TLC. *)
EXTENDS FifoRequest

\* Bounds: all viewers come only in their turn, and with servers that name
\* watch_urls.  When viewers may be killed and meet each other, one channel has
\* a license, viewers ask for channels only, and the pipe holds at most two
\* messages; there is no other limit while zattood reads its own answers.  Once
\* it has, it is not restarted, no channel has a license and the pipe holds one
\* message.
FewerAtOnce ==
  /\ (turns /\ complete) \/ pc[CHOOSE v \in Viewer : TRUE] = "start"
  /\ turns \/ /\ complete
              /\ widevine[CHOOSE c \in Channel : TRUE] = Plain
              /\ Unknown \notin {wanted[v] : v \in Viewer}
              /\ Len(pipe) <= 2
              /\ crossed => /\ pc[Zattood] # "down"
                            /\ Len(pipe) <= 1
                            /\ \A c \in Channel : widevine[c] = Plain
=============================================================================
