---------------------------- MODULE FifoRequest ----------------------------
(***************************************************************************)
(* /tmp/zattoofifo, the one fifo through which zattoostream processes, the *)
(* viewers, ask zattood for the stream of a channel and are answered:      *)
(* the loop at the end of main() in zattood.cpp with the look-up it calls  *)
(* in ZatData.cpp, and main() of zattoostream.cpp.  Every system call on   *)
(* the fifo is an action, for other processes act between any two of them. *)
(*                                                                         *)
(* A fifo is one pipe for all who have it open.  open() waits for another  *)
(* process to open the other end, and one that waits counts already;       *)
(* read() takes whatever is there, from whomever, and returns 0 when there *)
(* is nothing and no writer; write() without a reader is SIGPIPE; what is  *)
(* in the pipe when the last process closes it is lost.                    *)
(***************************************************************************)
EXTENDS Naturals, Sequences

CONSTANTS
  Viewer,    \* runs of zattoostream
  Zattood,   \* the daemon
  Channel,   \* the channels of the account; a stream url is its channel
  Unknown,   \* any other number, also one VDR has kept of an old list
  Error,     \* the url "ERROR"
  Nothing    \* the empty string

ASSUME FifoAssumption ==
  /\ Zattood \notin Viewer
  /\ Unknown \notin Channel
  /\ Error \notin Channel \cup {Unknown}
  /\ Nothing \notin Channel \cup {Unknown, Error}

VARIABLES
  pipe,      \* what was written to the fifo and not read yet
  end,       \* per process: the end it has open or waits to open
  pc,        \* per process: what it did last
  wanted,    \* per viewer: the channel it is for
  answer,    \* per viewer: what it read
  request,   \* main(): the number in its buffer
  url,       \* main(): url
  license,   \* main(): license
  saved,     \* per channel: whether ownChannel->url is set
  widevine,  \* per channel: ownChannel->widevine
  crossed,   \* zattood has read answers of its own
  turns,     \* viewers come one after another and are not killed
  complete   \* every stream the servers name comes with a list of watch_urls

viewerVars == <<wanted, answer>>
mainVars == <<request, url, license, saved, widevine, crossed>>
mode == <<turns, complete>>
vars == <<pipe, end, pc, viewerVars, mainVars, mode>>

Process == Viewer \cup {Zattood}

\* A license is that of a channel, of a stream that needs none or, before
\* there was any, empty.
Plain == "||A{SSM}|"
License == Channel \cup {Plain, Nothing}

Request(c) == [kind |-> "request", url |-> c, license |-> Nothing]
Reply(u, l) == [kind |-> "reply", url |-> u, license |-> l]
Torn == [kind |-> "torn", url |-> Nothing, license |-> Nothing]
Message ==
  [kind : {"request", "reply", "torn"},
   url : Channel \cup {Unknown, Error, Nothing}, license : License]

ASSUME MessageAssumption == Nothing \notin Message

Closed == [dir |-> "none", open |-> FALSE]

Init ==
  /\ pipe = <<>>
  /\ end = [p \in Process |-> Closed]
  /\ pc = [p \in Process |-> "start"]
  /\ wanted = [v \in Viewer |-> Nothing]
  /\ answer = [v \in Viewer |-> Nothing]
  /\ request \in Channel \cup {Unknown}
  /\ url = Nothing
  /\ license = Nothing
  /\ saved = [c \in Channel |-> FALSE]
  /\ widevine = [c \in Channel |-> Plain]
  /\ crossed = FALSE
  /\ turns \in BOOLEAN
  /\ complete \in BOOLEAN

-----------------------------------------------------------------------------
(* The system calls.                                                       *)

At(p, dir) == end[p].dir = dir /\ end[p].open
Ends(dir) == {p \in Process : end[p].dir = dir}

Open(p, dir) ==
  LET partners == Ends(IF dir = "rd" THEN "wr" ELSE "rd")
  IN  /\ end' = [q \in Process |->
                   IF q = p THEN [dir |-> dir, open |-> partners # {}]
                   ELSE IF q \in partners THEN [end[q] EXCEPT !.open = TRUE]
                   ELSE end[q]]
      /\ UNCHANGED pipe

Close(p) ==
  /\ end' = [end EXCEPT ![p] = Closed]
  /\ pipe' = IF \A q \in Process \ {p} : end[q].dir = "none" THEN <<>> ELSE pipe

\* read() does not wait any longer.
Readable == pipe # <<>> \/ Ends("wr") = {}

Go(p, where) == pc' = [pc EXCEPT ![p] = where]

-----------------------------------------------------------------------------
(* zattoostream.                                                           *)

\* The first open(), when VDR tunes to c.
Start(v, c) ==
  /\ pc[v] = "start"
  /\ turns => \A u \in Viewer : pc[u] \in {"start", "done"}
  /\ Go(v, "asking")
  /\ wanted' = [wanted EXCEPT ![v] = c]
  /\ Open(v, "wr")
  /\ UNCHANGED <<answer, mainVars, mode>>

Ask(v) ==
  /\ pc[v] = "asking" /\ At(v, "wr")
  /\ IF Ends("rd") # {}
     THEN /\ Go(v, "asked")
          /\ pipe' = Append(pipe, Request(wanted[v]))
          /\ UNCHANGED end
     ELSE Go(v, "killed") /\ Close(v)
  /\ UNCHANGED <<viewerVars, mainVars, mode>>

CloseRequest(v) ==
  /\ pc[v] = "asked"
  /\ Go(v, "waiting")
  /\ Close(v)
  /\ UNCHANGED <<viewerVars, mainVars, mode>>

\* A second open() for writing, as if there were a pipe for each direction.
OpenReplyToWrite(v) ==
  /\ pc[v] = "waiting"
  /\ Go(v, "reading")
  /\ Open(v, "wr")
  /\ UNCHANGED <<viewerVars, mainVars, mode>>

OpenReply(v) ==
  /\ pc[v] = "waiting"
  /\ Go(v, "reading")
  /\ Open(v, "rd")
  /\ UNCHANGED <<viewerVars, mainVars, mode>>

\* What is first in the pipe is taken for the reply; when there is nothing,
\* it is the uninitialized buffer.
ReadReply(v) ==
  /\ pc[v] = "reading" /\ At(v, "rd")
  /\ Readable
  /\ Go(v, "read")
  /\ answer' = [answer EXCEPT ![v] = IF pipe = <<>> THEN Torn ELSE Head(pipe)]
  /\ pipe' = <<>>
  /\ UNCHANGED <<end, wanted, mainVars, mode>>

\* close(); then dash2ts is started or the viewer ends.
CloseReply(v) ==
  /\ pc[v] = "read"
  /\ Go(v, "done")
  /\ Close(v)
  /\ UNCHANGED <<viewerVars, mainVars, mode>>

\* VDR tunes to another channel.
Kill(v) ==
  /\ ~turns
  /\ pc[v] \notin {"start", "done", "killed"}
  /\ Go(v, "killed")
  /\ Close(v)
  /\ wanted' = [wanted EXCEPT ![v] = Nothing]
  /\ answer' = [answer EXCEPT ![v] = Nothing]
  /\ UNCHANGED <<mainVars, mode>>

-----------------------------------------------------------------------------
(* The loop of zattood.                                                    *)

Listen ==
  /\ pc[Zattood] = "start"
  /\ Go(Zattood, "listening")
  /\ Open(Zattood, "rd")
  /\ UNCHANGED <<viewerVars, mainVars, mode>>

\* More than the 50 bytes of a read(); with ERROR it depends on the license.
Fills(m) == m.kind = "reply" /\ m.url # Error

\* read() takes requests whole, and other messages up to one that is torn or
\* with which the buffer is full; atoi() reads the number of the first, finds
\* none in a reply and anything in a torn one.  When nothing was read the
\* buffer still holds the last request.
ReadRequest ==
  LET others == {i \in 1 .. Len(pipe) : pipe[i].kind # "request"}
  IN
  /\ pc[Zattood] = "listening" /\ At(Zattood, "rd")
  /\ Readable
  /\ Go(Zattood, "got")
  /\ IF pipe = <<>> THEN UNCHANGED request
     ELSE request' \in CASE Head(pipe).kind = "request" -> {Head(pipe).url}
                         [] Head(pipe).kind = "reply" -> {Unknown}
                         [] OTHER -> Channel \cup {Unknown}
  /\ IF others = {} THEN pipe' = <<>>
     ELSE \E i \in 1 .. Len(pipe), rest \in {<<>>, <<Torn>>} :
            /\ \E j \in others : j <= i
            /\ \A j \in 1 .. i - 1 : ~Fills(pipe[j])
            /\ Fills(pipe[i]) => rest = <<Torn>>
            /\ pipe' = rest \o SubSeq(pipe, i + 1, Len(pipe))
  /\ crossed' = (crossed \/ others # {})
  /\ UNCHANGED <<end, viewerVars, url, license, saved, widevine, mode>>

StopListening ==
  /\ pc[Zattood] = "got"
  /\ Go(Zattood, "looking")
  /\ Close(Zattood)
  /\ UNCHANGED <<viewerVars, mainVars, mode>>

\* A saved url without the license that was saved with it.
UseSavedUrl ==
  /\ pc[Zattood] = "looking"
  /\ request \in Channel /\ saved[request]
  /\ url' = request
  /\ Go(Zattood, "answering")
  /\ UNCHANGED <<pipe, end, viewerVars, request, license, saved, widevine, crossed, mode>>

\* GetChannelStreamProperties() for a channel that was asked for before.
UseSaved ==
  /\ pc[Zattood] = "looking"
  /\ request \in Channel /\ saved[request]
  /\ url' = request
  /\ license' = widevine[request]
  /\ Go(Zattood, "answering")
  /\ UNCHANGED <<pipe, end, viewerVars, request, saved, widevine, crossed, mode>>

\* The servers name a stream, once without DRM when DRM was refused.  l is the
\* license in the first of its watch_urls; when that list is empty, the
\* license of an earlier answer is left.
LookUp(l) ==
  /\ pc[Zattood] = "looking"
  /\ request \in Channel /\ ~saved[request]
  /\ l \in {request, Plain}
  /\ url' = request
  /\ saved' = [saved EXCEPT ![request] = TRUE]
  /\ \/ license' = l /\ widevine' = [widevine EXCEPT ![request] = l]
     \/ ~complete /\ UNCHANGED <<license, widevine>>
  /\ Go(Zattood, "answering")
  /\ UNCHANGED <<pipe, end, viewerVars, request, crossed, mode>>

\* Failures answered with the number that was asked for.
FailEcho(l) ==
  /\ pc[Zattood] = "looking"
  /\ request \in Channel => ~saved[request]
  /\ l = Plain
  /\ url' = request
  /\ Go(Zattood, "answering")
  /\ UNCHANGED <<pipe, end, viewerVars, request, license, saved, widevine, crossed, mode>>

\* No such channel, no answer, or an answer without a stream; a stream whose
\* first watch_url is empty leaves its license.
Fail(l) ==
  /\ pc[Zattood] = "looking"
  /\ request \in Channel => ~saved[request]
  /\ \/ UNCHANGED <<license, widevine>>
     \/ /\ request \in Channel /\ l \in {request, Plain}
        /\ license' = l /\ widevine' = [widevine EXCEPT ![request] = l]
  /\ IF url = Nothing THEN url' = Error /\ Go(Zattood, "start")
                      ELSE UNCHANGED url /\ Go(Zattood, "answering")
  /\ UNCHANGED <<pipe, end, viewerVars, request, saved, crossed, mode>>

OpenAnswer ==
  /\ pc[Zattood] = "answering"
  /\ Go(Zattood, "opening")
  /\ Open(Zattood, "wr")
  /\ UNCHANGED <<viewerVars, mainVars, mode>>

\* An answer that is not repeated as an error.
WriteAnswerKeepUrl ==
  /\ pc[Zattood] = "opening" /\ At(Zattood, "wr")
  /\ IF Ends("rd") # {}
     THEN /\ Go(Zattood, "written")
          /\ pipe' = Append(pipe, Reply(url, license))
          /\ UNCHANGED <<end, mainVars>>
     ELSE Go(Zattood, "down") /\ Close(Zattood) /\ UNCHANGED mainVars
  /\ UNCHANGED <<viewerVars, mode>>

\* write(), and what is left of the loop but close().
WriteAnswer ==
  /\ pc[Zattood] = "opening" /\ At(Zattood, "wr")
  /\ IF Ends("rd") # {}
     THEN /\ Go(Zattood, "written")
          /\ pipe' = Append(pipe, Reply(url, license))
          /\ url' = Error
          /\ UNCHANGED <<end, request, license, saved, widevine, crossed>>
     ELSE Go(Zattood, "down") /\ Close(Zattood) /\ UNCHANGED mainVars
  /\ UNCHANGED <<viewerVars, mode>>

\* An answer that is sent twice.
CloseAnswerTwice ==
  /\ pc[Zattood] = "written"
  /\ Go(Zattood, IF url = Error THEN "answering" ELSE "start")
  /\ Close(Zattood)
  /\ UNCHANGED <<viewerVars, mainVars, mode>>

CloseAnswer ==
  /\ pc[Zattood] = "written"
  /\ Go(Zattood, "start")
  /\ Close(Zattood)
  /\ UNCHANGED <<viewerVars, mainVars, mode>>

\* zattood ends, by a signal or by an assertion of the JSON library.
Crash ==
  /\ ~turns
  /\ pc[Zattood] # "down"
  /\ Go(Zattood, "down")
  /\ Close(Zattood)
  /\ UNCHANGED <<viewerVars, mainVars, mode>>

\* zattood.service: Restart=always.
Restart ==
  /\ pc[Zattood] = "down"
  /\ Go(Zattood, "start")
  /\ request' \in Channel \cup {Unknown}
  /\ url' = Nothing /\ license' = Nothing
  /\ saved' = [c \in Channel |-> FALSE] /\ UNCHANGED crossed
  /\ widevine' = [c \in Channel |-> Plain]
  /\ UNCHANGED <<pipe, end, viewerVars, mode>>

ViewerStep(v) ==
  \/ Ask(v)
  \/ CloseRequest(v)
  \/ OpenReply(v)
  \/ ReadReply(v)
  \/ CloseReply(v)

MainStep ==
  \/ Listen
  \/ ReadRequest
  \/ StopListening
  \/ UseSaved
  \/ \E l \in License : LookUp(l) \/ Fail(l)
  \/ OpenAnswer
  \/ WriteAnswer
  \/ CloseAnswer
  \/ Restart

Next ==
  \/ \E v \in Viewer : ViewerStep(v) \/ Kill(v) \/ \E c \in Channel \cup {Unknown} : Start(v, c)
  \/ MainStep
  \/ Crash

Spec == Init /\ [][Next]_vars

\* Both programs run on, and the servers answer or refuse.
FairSpec == Spec /\ WF_vars(MainStep) /\ \A v \in Viewer : WF_vars(ViewerStep(v))

-----------------------------------------------------------------------------
(* The types of the variables.                                             *)
TypeOK ==
  /\ pipe \in Seq(Message)
  /\ end \in [Process -> [dir : {"none", "rd", "wr"}, open : BOOLEAN]]
  /\ \A v \in Viewer :
       pc[v] \in {"start", "asking", "asked", "waiting", "reading", "read",
                  "done", "killed"}
  /\ pc[Zattood] \in {"start", "listening", "got", "looking", "answering",
                      "opening", "written", "down"}
  /\ wanted \in [Viewer -> Channel \cup {Unknown, Nothing}]
  /\ answer \in [Viewer -> Message \cup {Nothing}]
  /\ request \in Channel \cup {Unknown}
  /\ url \in Channel \cup {Error, Nothing}
  /\ license \in License
  /\ saved \in [Channel -> BOOLEAN]
  /\ widevine \in [Channel -> Channel \cup {Plain}]
  /\ crossed \in BOOLEAN
  /\ turns \in BOOLEAN /\ complete \in BOOLEAN

(* The url of a channel never goes out with the license of another one,   *)
(* though url, license and the saved pair are set at different places and  *)
(* by different requests, and though viewers are killed and zattood is     *)
(* restarted between any two steps.  It takes servers that give every      *)
(* stream its list of watch_urls: without one the license of an earlier    *)
(* answer is sent.                                                         *)
Sent == ({pipe[i] : i \in 1 .. Len(pipe)} \cup {answer[v] : v \in Viewer}) \ {Nothing}
UrlWithItsLicense ==
  complete => \A m \in Sent : m.kind = "reply" /\ m.url \in Channel
                               => m.license \in {m.url, Plain}

(* zattood waits in open() for a viewer that no longer reads only when one *)
(* was killed or when zattood has taken an answer of its own for a         *)
(* request, which it does when it is back before the viewer has read it    *)
(* and another one has opened the fifo.                                    *)
Wedged ==
  /\ pc[Zattood] = "opening" /\ ~At(Zattood, "wr")
  /\ \A v \in Viewer : pc[v] \in {"start", "asking", "done", "killed"}
WedgedByKill == Wedged => crossed \/ \E v \in Viewer : pc[v] = "killed"

(* Viewers that come one after another are each answered for the channel   *)
(* that they asked for, from the first read() to the last and although     *)
(* requests and answers go through the same pipe.                          *)
Given(v) ==
  IF answer[v] = Nothing THEN Nothing
  ELSE IF answer[v].kind = "reply" THEN answer[v].url ELSE Unknown
Nobody == [v \in Viewer |-> Nothing]

Xchg == INSTANCE Exchange
          WITH wanted <- IF turns THEN wanted ELSE Nobody,
               answer <- IF turns THEN [v \in Viewer |-> Given(v)] ELSE Nobody
IsExchange == Xchg!Spec

(* A viewer that comes in its turn is answered and ends, unless the first  *)
(* look-up of zattood's life, which is for this viewer then, fails: url is *)
(* empty until then, and an empty url is not answered.                     *)
Unanswered(v) == pc[v] = "reading" /\ url = Error /\ \A c \in Channel : ~saved[c]
Served ==
  \A v \in Viewer :
    (turns /\ pc[v] = "asking") ~> (pc[v] = "done" \/ Unanswered(v))
=============================================================================
