--------------------------- MODULE MCZattoodHttp ---------------------------
(* ZattoodHttp for TLC. *)
EXTENDS ZattoodHttp

\* Bounds: one thread is only refused, a session comes with the answer to one
\* of the pages, and the thread that writes files makes no requests then.
Page1 == CHOOSE p \in Page : p \notin Posted
TwoTalk ==
  /\ pc[CHOOSE c \in Client : c \notin FileClient] \in {"idle", "refused", "down"}
  /\ \A c \in Client : served[c] # Nothing /\ served[c].fresh # NoSession
                         => request[c].page = Page1
  /\ \A c \in FileClient : mode # "files" \/ request[c] = NoRequest

\* Bound: where curl_easy_init() may fail, and little is claimed, there is one
\* page to ask for, the other one, and no session.
OnePage ==
  mode = "scarce" =>
    /\ session = NoSession
    /\ \A c \in Client : request[c].page # Page1
=============================================================================
