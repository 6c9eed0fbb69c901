------------------------------ MODULE EpgRound ------------------------------
(***************************************************************************)
(* The details thread of epg/ZattooEpgProvider.cpp with the files of       *)
(* http/Cache.cpp and its connection to VDR: the clean-up of the cache,    *)
(* the rounds in which VDR is sent the guide of each of its channels, and  *)
(* the restarts of zattood between any two steps.                          *)
(*                                                                         *)
(* A file of the cache is the description that it was last given, or none  *)
(* that can be read: a file is opened without O_TRUNC, so that a shorter   *)
(* text than before leaves the end of the longer one behind it.            *)
(***************************************************************************)
EXTENDS Naturals, Sequences

CONSTANTS
  Channel,    \* the channels of the guide
  Known,      \* those of them that VDR has
  Programme,  \* the programmes of the guide, each with a file in the cache
  Guide,      \* per channel: its programmes, in order
  MaxText,    \* the longest description; one is its length
  NoChannel   \* epgdata is empty

ASSUME EpgAssumption ==
  /\ Known \subseteq Channel /\ NoChannel \notin Channel
  /\ Guide \in [Channel -> Seq(Programme)]
  /\ MaxText \in Nat

VARIABLES
  file,       \* per programme: its file
  vdr,        \* per programme: what VDR was last sent as its description
  vdrUp,      \* VDR accepts connections
  sockfd,     \* the connection: none, open, or closed by VDR
  pc,         \* what the thread is doing
  toClean,    \* Cleanup(): the files that are left
  greeted,    \* vdr_channels is not empty
  round,      \* which of the four calls of LoadEPGForChannel()
  toSend,     \* the channels of the guide that are left
  chan,       \* the channel whose data are in epgdata
  epgdata,    \* the programmes in epgdata, with their descriptions
  details,    \* details, 0 for the empty string
  more,       \* more_details
  calm        \* VDR and the servers answer, disks have room, nothing crashes

world == <<file, vdr, vdrUp, calm>>
loop == <<toSend, chan, epgdata, details, more>>
vars == <<world, sockfd, pc, toClean, greeted, round, loop>>

\* A description is that of a programme.
Text == 1 .. MaxText
NoText == [of |-> "none", length |-> 0]
TextOf(p, n) == IF n = 0 THEN NoText ELSE [of |-> p, length |-> n]

\* text is 0 when the file cannot be parsed.
NoFile == [exists |-> FALSE, length |-> 0, text |-> 0, expired |-> FALSE]
Files ==
  {f \in [exists : BOOLEAN, length : 0 .. MaxText, text : 0 .. MaxText,
          expired : BOOLEAN] :
     /\ f.text \in {0, f.length}
     /\ ~f.exists => f = NoFile
     /\ f.text = 0 => ~f.expired}

Empty(f) == f.length = 0
Garbled(f) == f.length > 0 /\ f.text = 0
Readable(f) == f.text > 0 /\ ~f.expired

Init ==
  /\ file \in [Programme -> Files]
  /\ vdr = [p \in Programme |-> NoText]
  /\ vdrUp \in BOOLEAN
  /\ calm \in BOOLEAN
  /\ calm => vdrUp
  /\ pc = "clean" /\ toClean = {p \in Programme : file[p].exists}
  /\ greeted = FALSE /\ round = 0 /\ sockfd = "none"
  /\ toSend = {} /\ chan = NoChannel /\ epgdata = <<>>
  /\ details = NoText /\ more = TRUE

\* The local variables of LoadEPGForChannel() are gone.
NoLocals ==
  /\ toSend' = {} /\ chan' = NoChannel /\ epgdata' = <<>>
  /\ details' = NoText /\ more' = TRUE

-----------------------------------------------------------------------------
(* Cache::Cleanup().                                                       *)

\* Empty files are skipped and files that are valid are left.
Keep(p) ==
  /\ pc = "clean" /\ p \in toClean
  /\ Empty(file[p]) \/ Readable(file[p])
  /\ toClean' = toClean \ {p}
  /\ UNCHANGED <<world, sockfd, pc, greeted, round, loop>>

DeleteExpired(p) ==
  /\ pc = "clean" /\ p \in toClean
  /\ file[p].expired
  /\ toClean' = toClean \ {p}
  /\ file' = [file EXCEPT ![p] = NoFile]
  /\ UNCHANGED <<vdr, vdrUp, calm, sockfd, pc, greeted, round, loop>>

\* The process ends.
Die ==
  /\ pc' = "down" /\ sockfd' = "none" /\ toClean' = {}
  /\ greeted' = FALSE /\ round' = 0
  /\ NoLocals

\* The file left in place.
DieOfGarbled(p) ==
  /\ pc = "clean" /\ p \in toClean
  /\ Garbled(file[p])
  /\ Die
  /\ UNCHANGED world

\* The file is deleted; IsStillValid() then asks a document that is not an
\* object for a member, which is an assertion of the JSON library.
DeleteGarbled(p) ==
  /\ pc = "clean" /\ p \in toClean
  /\ Garbled(file[p])
  /\ file' = [file EXCEPT ![p] = NoFile]
  /\ Die
  /\ UNCHANGED <<vdr, vdrUp, calm>>

Cleaned ==
  /\ pc = "clean" /\ toClean = {}
  /\ pc' = IF greeted THEN "load" ELSE "greet"
  /\ UNCHANGED <<world, sockfd, toClean, greeted, round, loop>>

-----------------------------------------------------------------------------
(* DetailsThread() and LoadEPGForChannel().                                *)

\* lstc, every four seconds until VDR answers; the connection is closed.
Greet ==
  /\ pc = "greet"
  /\ vdrUp
  /\ greeted' = TRUE
  /\ pc' = "load"
  /\ UNCHANGED <<world, sockfd, toClean, round, loop>>

\* The next call, or an hour of sleep.
NextCall ==
  /\ IF round < 3 THEN pc' = "load" /\ round' = round + 1
                  ELSE pc' = "sleep" /\ round' = 0
  /\ NoLocals

LoadGuide ==
  /\ pc = "load"
  /\ toSend' = Channel
  /\ pc' = "channels"
  /\ UNCHANGED <<world, sockfd, toClean, greeted, round, chan, epgdata, details, more>>

\* The guide cannot be parsed.
LoadNothing ==
  /\ pc = "load"
  /\ ~calm
  /\ NextCall
  /\ UNCHANGED <<world, sockfd, toClean, greeted>>

SkipChannel(c) ==
  /\ pc = "channels"
  /\ c \in toSend \ Known
  /\ toSend' = toSend \ {c}
  /\ UNCHANGED <<world, sockfd, pc, toClean, greeted, round, chan, epgdata, details, more>>

NextChannel(c) ==
  /\ pc = "channels"
  /\ c \in toSend \cap Known
  /\ toSend' = toSend \ {c}
  /\ chan' = c /\ epgdata' = <<>> /\ more' = TRUE
  /\ pc' = "programmes"
  /\ UNCHANGED <<world, sockfd, toClean, greeted, round, details>>

Left == Len(epgdata) < Len(Guide[chan])
Current == Guide[chan][Len(epgdata) + 1]
Asked == more /\ round = 0

\* Cache::Write() of a text: over the longer one that was there it cannot be
\* read.
Written(f, n) ==
  IF n >= f.length THEN [exists |-> TRUE, length |-> n, text |-> n, expired |-> FALSE]
  ELSE [f EXCEPT !.text = 0, !.expired = FALSE]

\* A disk that fills up, or the end of zattood after open(): k of n characters
\* are written. A text that was read from the file is written over itself.
Cut(f, n) ==
  {[f EXCEPT !.exists = TRUE]} \cup
  IF Readable(f) THEN {}
  ELSE {[exists |-> TRUE, length |-> IF k > f.length THEN k ELSE f.length,
         text |-> 0, expired |-> FALSE] : k \in 1 .. n - 1}

\* GetDetails(): the text of the cache, or what the servers have at the time,
\* 0 when they have none or do not answer.
Got(p) == IF Readable(file[p]) THEN {file[p].text} ELSE 0 .. MaxText

Append1(p, t) ==
  /\ details' = t
  /\ epgdata' = Append(epgdata, [programme |-> p, text |-> t])
  /\ UNCHANGED <<vdr, vdrUp, calm, sockfd, pc, toClean, greeted, round,
                 toSend, chan>>

\* details assigned only when there are some.
DescribeIfAny(p) ==
  /\ pc = "programmes" /\ Left /\ p = Current
  /\ Asked
  /\ \E n \in Got(p) :
       /\ Append1(p, IF n > 0 THEN TextOf(p, n) ELSE details)
       /\ more' = (n > 0)
       /\ file' = IF n > 0 THEN [file EXCEPT ![p] = Written(@, n)] ELSE file

Describe(p) ==
  /\ pc = "programmes" /\ Left /\ p = Current
  /\ Asked
  /\ \E n \in Got(p) :
       /\ Append1(p, TextOf(p, n))
       /\ more' = (n > 0)
       /\ \/ file' = IF n > 0 THEN [file EXCEPT ![p] = Written(@, n)] ELSE file
          \/ ~calm /\ n > 0 /\ \E f \in Cut(file[p], n) : file' = [file EXCEPT ![p] = f]

\* Without asking for details.
List(p) ==
  /\ pc = "programmes" /\ Left /\ p = Current
  /\ ~Asked
  /\ Append1(p, details)
  /\ UNCHANGED <<file, more>>

\* svdrpsend() of a channel, which keeps the connection.
Put ==
  /\ pc = "programmes" /\ ~Left
  /\ \/ /\ sockfd = "open" \/ (sockfd = "none" /\ vdrUp)
        /\ sockfd' = "open"
        /\ vdr' = [p \in Programme |->
             IF \E i \in 1 .. Len(epgdata) : epgdata[i].programme = p
             THEN (CHOOSE e \in {epgdata[i] : i \in 1 .. Len(epgdata)} :
                     e.programme = p).text
             ELSE vdr[p]]
     \/ /\ sockfd = "closed" \/ (sockfd = "none" /\ ~vdrUp)
        /\ UNCHANGED <<vdr, sockfd>>
  /\ pc' = "channels"
  /\ UNCHANGED <<file, vdrUp, calm, toClean, greeted, round, loop>>

\* A quit for which the connection is kept.
QuitReuse ==
  /\ pc = "channels" /\ toSend = {}
  /\ sockfd' = IF sockfd = "none" /\ vdrUp THEN "open" ELSE sockfd
  /\ NextCall
  /\ UNCHANGED <<world, toClean, greeted>>

\* The last svdrpsend() of a call.
Quit ==
  /\ pc = "channels" /\ toSend = {}
  /\ sockfd' = "none"
  /\ NextCall
  /\ UNCHANGED <<world, toClean, greeted>>

\* SIGPIPE: VDR has closed the connection, at the latest after the first of
\* the two quits between which the data of the last channel are sent again.
BrokenPipe ==
  /\ \/ pc = "programmes" /\ ~Left /\ sockfd = "closed"
     \/ /\ pc = "channels" /\ toSend = {}
        /\ sockfd = "closed" \/ (chan # NoChannel /\ (sockfd = "open" \/ vdrUp))
  /\ Die
  /\ UNCHANGED world

Sleep ==
  /\ pc = "sleep"
  /\ pc' = "clean" /\ toClean' = {p \in Programme : file[p].exists}
  /\ UNCHANGED <<world, sockfd, greeted, round, loop>>

-----------------------------------------------------------------------------
(* The end of zattood for another reason, and Restart=always.              *)
Crash ==
  /\ ~calm /\ pc # "down"
  /\ Die
  /\ UNCHANGED world

Restart ==
  /\ pc = "down"
  /\ UNCHANGED <<world, sockfd, greeted, round, loop>>
  /\ pc' = "clean" /\ toClean' = {p \in Programme : file[p].exists}

(* VDR and the servers.                                                    *)
VdrStops ==
  /\ ~calm /\ vdrUp
  /\ vdrUp' = FALSE
  /\ sockfd' = IF sockfd = "open" THEN "closed" ELSE sockfd
  /\ UNCHANGED <<file, vdr, calm, pc, toClean, greeted, round, loop>>

VdrStarts ==
  /\ ~vdrUp
  /\ vdrUp' = TRUE
  /\ UNCHANGED <<file, vdr, calm, sockfd, pc, toClean, greeted, round, loop>>

HangUp ==
  /\ ~calm /\ sockfd = "open"
  /\ sockfd' = "closed"
  /\ UNCHANGED <<world, pc, toClean, greeted, round, loop>>

\* The end of the programme that was known when the file was written.
Expire(p) ==
  /\ Readable(file[p])
  /\ file' = [file EXCEPT ![p].expired = TRUE]
  /\ UNCHANGED <<vdr, vdrUp, calm, sockfd, pc, toClean, greeted, round, loop>>

ThreadStep ==
  \/ \E p \in Programme :
       Keep(p) \/ DeleteExpired(p) \/ DeleteGarbled(p) \/ Describe(p) \/ List(p)
  \/ Cleaned
  \/ Greet
  \/ LoadGuide
  \/ LoadNothing
  \/ \E c \in Channel : SkipChannel(c) \/ NextChannel(c)
  \/ Put
  \/ Quit
  \/ BrokenPipe
  \/ Sleep
  \/ Restart

World ==
  \/ Crash
  \/ VdrStops
  \/ VdrStarts
  \/ HangUp
  \/ \E p \in Programme : Expire(p)

Next == ThreadStep \/ World

Spec == Init /\ [][Next]_vars

\* The thread runs on, and systemd starts zattood again.
FairSpec == Spec /\ WF_vars(ThreadStep)

-----------------------------------------------------------------------------
Texts == {NoText} \cup {TextOf(p, n) : p \in Programme, n \in 0 .. MaxText}

(* The types of the variables.                                             *)
TypeOK ==
  /\ file \in [Programme -> Files]
  /\ vdr \in [Programme -> Texts]
  /\ vdrUp \in BOOLEAN /\ calm \in BOOLEAN
  /\ sockfd \in {"none", "open", "closed"}
  /\ pc \in {"clean", "greet", "load", "channels", "programmes", "sleep", "down"}
  /\ toClean \subseteq Programme
  /\ greeted \in BOOLEAN
  /\ round \in 0 .. 3
  /\ toSend \subseteq Channel
  /\ chan \in Channel \cup {NoChannel}
  /\ epgdata \in Seq([programme : Programme, text : Texts])
  /\ details \in Texts /\ more \in BOOLEAN

(* VDR is sent a programme with its own description or with none, though   *)
(* details keeps its value from one programme to the next, the cache gives *)
(* what it has, and zattood may end after any step.                        *)
OwnDetails == \A p \in Programme : vdr[p].of \in {p, "none"}

(* The static sockfd is closed whenever the thread does something else     *)
(* than to send a guide: a connection that VDR has closed in the meantime  *)
(* is not written to an hour later.                                        *)
SocketBetweenCalls ==
  pc \in {"clean", "greet", "load", "sleep", "down"} => sockfd = "none"

(* While VDR and the servers answer and nothing else goes wrong, VDR is    *)
(* sent the guide with descriptions again and again: files that cannot be  *)
(* parsed end zattood once each at its clean-up, and a broken pipe at the  *)
(* end of a call ends it too, but it is started again every time.          *)
RoundsGoOn == calm => []<>(round = 0 /\ pc = "channels" /\ toSend = {})
=============================================================================
