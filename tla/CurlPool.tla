------------------------------ MODULE CurlPool ------------------------------
(***************************************************************************)
(* src/src/curlhandler.cpp: the array curlhandler[] of transfer instances  *)
(* that dash2ts lends to the threads of the inputstream add-on.            *)
(*                                                                         *)
(* curl_create() and open_file_for_write() hold curlMutex for their whole  *)
(* body and are one action each.  Everything else runs without the mutex   *)
(* on the instance its caller was given: curl_open() is two actions, the   *)
(* setting of the options and the transfer, and close_file() is two, for   *)
(* it makes the instance available only after it has cleared it.           *)
(*                                                                         *)
(* Strings are abstracted to where they come from: an option, a status     *)
(* line, a response header, a body or an open file is the client whose     *)
(* request it belongs to, and Earlier when that request is closed.         *)
(*                                                                         *)
(* The User-Agent is not part of fault: a request that does not give one   *)
(* uses what an earlier one left, and that is useragent = "freed" here.    *)
(***************************************************************************)
EXTENDS Naturals

CONSTANTS
  MaxInstance,     \* MAX_INSTANCE: 10
  Client,          \* the threads of the add-on, one open file each
  FileClient,      \* those of them that may write files
  Host,            \* the hosts that are asked
  NoHost,          \* url == NULL
  Earlier,         \* an earlier request
  Nobody           \* nothing there

ASSUME PoolAssumption ==
  /\ MaxInstance \in Nat
  /\ FileClient \subseteq Client
  /\ NoHost \notin Host /\ "freed" \notin Host \cup {NoHost}
  /\ Earlier \notin Client /\ Nobody \notin Client \cup {Earlier}

VARIABLES
  curlhandler,  \* the instances
  pc,           \* what each client is doing
  handle,       \* the instance each client was given
  target,       \* the host of its request
  asked,        \* the options it has added
  ok,           \* whether what was asked of it succeeded
  fault,        \* a url or an easy handle was used or freed after it was freed
  http          \* no client writes files and curl_easy_init() succeeds

clientVars == <<pc, handle, target, asked, ok>>
vars == <<curlhandler, clientVars, fault, http>>

Instance == 0 .. MaxInstance - 1
Origin == Client \cup {Earlier}

\* curl: NULL, an easy handle or the (void*)1 of a file.  conn: the hosts the
\* easy handle has been connected to, each with the host that was asked when
\* a redirect led to it.  url and useragent are pointers and may be left
\* pointing to freed memory.
NewInstance ==
  [status |-> "C_CLOSE", url |-> NoHost, curl |-> "null", conn |-> {},
   post |-> Nobody, useragent |-> "null", header |-> {}, protoLine |-> Nobody,
   response |-> {}, fp |-> Nobody]

Init ==
  /\ curlhandler = [i \in Instance |-> NewInstance]
  /\ pc = [c \in Client |-> "idle"]
  /\ handle = [c \in Client |-> 0]
  /\ target = [c \in Client |-> NoHost]
  /\ asked = [c \in Client |-> {}]
  /\ ok = [c \in Client |-> FALSE]
  /\ fault = FALSE
  /\ http \in BOOLEAN

\* The clients that write files, if there are any.
Writes(c) == ~http /\ c \in FileClient

-----------------------------------------------------------------------------
(* get_curl_instance(host), where host is NoHost for url == NULL.          *)

\* A search that does not look at the status.
ReusableOrBusy(host) ==
  {i \in Instance : curlhandler[i].url = host /\ host # NoHost}

Reusable(host) ==
  {i \in Instance : /\ curlhandler[i].status = "C_OPEN"
                    /\ curlhandler[i].url = host
                    /\ host # NoHost}
Closed == {i \in Instance : curlhandler[i].status = "C_CLOSE"}

\* A last search that takes whatever is not closed.
OpenOrBusy == {i \in Instance : curlhandler[i].status # "C_CLOSE"}

Open == {i \in Instance : curlhandler[i].status = "C_OPEN"}

\* free(url), and strdup(host) if there is a host.
Renamed(s, host) ==
  [s EXCEPT !.url = IF host # NoHost THEN host
                    ELSE IF s.url = NoHost THEN NoHost ELSE "freed"]

\* A new name without curl_easy_cleanup().
EvictedStillConnected(s, host) ==
  [Renamed(s, host) EXCEPT !.status = "C_CLOSE"]

\* curl_easy_cleanup() and a new name.
Evicted(s, host) ==
  [Renamed(s, host) EXCEPT !.curl = "null", !.conn = {}, !.status = "C_CLOSE"]

\* The instances the search prefers: the open ones of the host, then those
\* that are closed, then any that is open.  It returns the first of them.
Candidates(host) ==
  IF Reusable(host) # {} THEN Reusable(host)
  ELSE IF Closed # {} THEN Closed
  ELSE Open

Got(i, host) == i \in Candidates(host) /\ \A j \in Candidates(host) : i <= j

\* Instance i as get_curl_instance() leaves it.
Gotten(i, host) ==
  IF i \in Reusable(host) THEN curlhandler[i]
  ELSE IF i \in Closed THEN Renamed(curlhandler[i], host)
  ELSE Evicted(curlhandler[i], host)

\* The search compares a url that is freed, url is freed once more, or the
\* (void*)1 of a file is handed to curl_easy_cleanup().
GotFault(i, host) ==
  \/ /\ host # NoHost
     /\ \E j \in Instance : /\ curlhandler[j].url = "freed"
                            /\ i \in Reusable(host) => j < i
  \/ /\ i \notin Reusable(host)
     /\ \/ curlhandler[i].url = "freed"
        \/ i \in Open /\ curlhandler[i].curl = "file"

-----------------------------------------------------------------------------
(* The calls of the add-on.                                                *)

\* The client's m_file is set from here on.
Given(c, i, s, host, next) ==
  /\ curlhandler' = [curlhandler EXCEPT ![i] = s]
  /\ pc' = [pc EXCEPT ![c] = next]
  /\ handle' = [handle EXCEPT ![c] = i]
  /\ target' = [target EXCEPT ![c] = host]
  /\ asked' = [asked EXCEPT ![c] = {}]
  /\ fault' = (fault \/ GotFault(i, host))

Free(c) == pc[c] \in {"idle", "refused"}

CurlCreate(c, host) ==
  /\ ~Writes(c) /\ Free(c)
  /\ \E i \in Instance :
       LET s == Gotten(i, host) IN
       /\ Got(i, host)
       /\ \/ Given(c, i, [s EXCEPT !.curl = IF @ = "null" THEN "easy" ELSE @,
                                   !.fp = Nobody, !.status = "C_BUSY"],
                   host, "created")
          \/ /\ ~http /\ s.curl = "null"
             /\ Given(c, i, s, host, "created")
  /\ UNCHANGED <<ok, http>>

Refuse(c, host) ==
  /\ Free(c)
  /\ Candidates(host) = {}
  /\ pc' = [pc EXCEPT ![c] = "refused"]
  /\ UNCHANGED <<curlhandler, handle, target, asked, ok, fault, http>>

\* curl_add_option(): one of the options that change what is sent.
CurlAddOption(c, option) ==
  LET i == handle[c]
      s == curlhandler[i]
  IN
  /\ pc[c] = "created"
  /\ option \notin asked[c]
  /\ asked' = [asked EXCEPT ![c] = @ \cup {option}]
  /\ curlhandler' = [curlhandler EXCEPT ![i] =
       CASE option = "postdata" -> [s EXCEPT !.post = c]
         [] option = "User-Agent" -> [s EXCEPT !.useragent = "allocated"]
         [] option = "header" -> [s EXCEPT !.header = @ \cup {c}]]
  /\ UNCHANGED <<pc, handle, target, ok, fault, http>>

\* curl_open() up to curl_easy_perform().
CurlOpen(c) ==
  LET s == curlhandler[handle[c]] IN
  /\ pc[c] = "created"
  /\ IF s.curl = "null"
     THEN /\ pc' = [pc EXCEPT ![c] = "opened"]
          /\ ok' = [ok EXCEPT ![c] = FALSE]
          /\ UNCHANGED fault
     ELSE /\ pc' = [pc EXCEPT ![c] = "performing"]
          /\ fault' = (fault \/ s.curl = "file")
          /\ UNCHANGED ok
  /\ UNCHANGED <<curlhandler, handle, target, asked, http>>

\* The transfer and the return of curl_open().  It reaches the host that was
\* asked and those that redirects lead to, or nothing is received; it may
\* fail after that, too.
Perform(c) ==
  LET s == curlhandler[handle[c]] IN
  /\ pc[c] = "performing"
  /\ \/ /\ UNCHANGED curlhandler
        /\ ok' = [ok EXCEPT ![c] = FALSE]
     \/ \E reached \in SUBSET Host, success \in BOOLEAN :
          /\ target[c] \in reached
          /\ curlhandler' = [curlhandler EXCEPT ![handle[c]] =
               [s EXCEPT !.conn = @ \cup ({target[c]} \X reached),
                         !.protoLine = c, !.response = @ \cup {c}]]
          /\ ok' = [ok EXCEPT ![c] = success]
  /\ pc' = [pc EXCEPT ![c] = "opened"]
  /\ UNCHANGED <<handle, target, asked, fault, http>>

OpenFileForWrite(c) ==
  /\ Writes(c) /\ Free(c)
  /\ \E i \in Instance, success \in BOOLEAN :
       /\ Got(i, NoHost)
       /\ Given(c, i, [Gotten(i, NoHost) EXCEPT
                         !.fp = IF success THEN c ELSE Nobody,
                         !.curl = "file"],
                NoHost, "opened")
       /\ ok' = [ok EXCEPT ![c] = success]
  /\ UNCHANGED http

\* The client is done: what is left of its request is of an earlier one.
Aged(s, c) ==
  LET Old(x) == IF x = c THEN Earlier ELSE x
  IN  [s EXCEPT !.header = {Old(x) : x \in @}, !.response = {Old(x) : x \in @},
                !.protoLine = Old(@), !.post = Old(@), !.fp = Old(@)]

Returned(c, s) ==
  /\ curlhandler' = [i \in Instance |->
       Aged(IF i = handle[c] THEN s ELSE curlhandler[i], c)]
  /\ pc' = [pc EXCEPT ![c] = "idle"]
  /\ handle' = [handle EXCEPT ![c] = 0]
  /\ target' = [target EXCEPT ![c] = NoHost]
  /\ asked' = [asked EXCEPT ![c] = {}]
  /\ ok' = [ok EXCEPT ![c] = FALSE]
  /\ UNCHANGED <<fault, http>>

\* The branch of close_file() for a file that is open.
CloseFile(c) ==
  LET s == curlhandler[handle[c]] IN
  /\ pc[c] \in {"created", "opened"}
  /\ s.fp # Nobody /\ s.curl = "file"
  /\ Returned(c, [s EXCEPT !.fp = Nobody, !.curl = "null", !.status = "C_CLOSE"])

\* A close that forgets m_params and the buffer.
CloseClearWithoutResponse(c) ==
  LET s == curlhandler[handle[c]] IN
  /\ pc[c] \in {"created", "opened"}
  /\ ~(s.fp # Nobody /\ s.curl = "file")
  /\ curlhandler' = [curlhandler EXCEPT ![handle[c]] =
       [s EXCEPT !.header = {},
                 !.useragent = IF @ = "null" THEN "null" ELSE "freed"]]
  /\ pc' = [pc EXCEPT ![c] = "closing"]
  /\ UNCHANGED <<handle, target, asked, ok, fault, http>>

\* A close that makes the instance available before it is done.
CloseClearTooEarly(c) ==
  LET s == curlhandler[handle[c]] IN
  /\ pc[c] \in {"created", "opened"}
  /\ ~(s.fp # Nobody /\ s.curl = "file")
  /\ curlhandler' = [curlhandler EXCEPT ![handle[c]] =
       [s EXCEPT !.header = {}, !.response = {}, !.status = "C_OPEN",
                 !.useragent = IF @ = "null" THEN "null" ELSE "freed"]]
  /\ pc' = [pc EXCEPT ![c] = "closing"]
  /\ UNCHANGED <<handle, target, asked, ok, fault, http>>

\* The other branch, up to the assignment of the status: m_protoLine and the
\* post data stay.
CloseClear(c) ==
  LET s == curlhandler[handle[c]] IN
  /\ pc[c] \in {"created", "opened"}
  /\ ~(s.fp # Nobody /\ s.curl = "file")
  /\ curlhandler' = [curlhandler EXCEPT ![handle[c]] =
       [s EXCEPT !.header = {}, !.response = {},
                 !.useragent = IF @ = "null" THEN "null" ELSE "freed"]]
  /\ pc' = [pc EXCEPT ![c] = "closing"]
  /\ UNCHANGED <<handle, target, asked, ok, fault, http>>

CloseRelease(c) ==
  /\ pc[c] = "closing"
  /\ Returned(c, [curlhandler[handle[c]] EXCEPT !.status = "C_OPEN"])

Options == {"postdata", "User-Agent", "header"}

Next ==
  \E c \in Client :
    \/ \E host \in Host : CurlCreate(c, host) \/ (~Writes(c) /\ Refuse(c, host))
    \/ \E option \in Options : CurlAddOption(c, option)
    \/ CurlOpen(c)
    \/ Perform(c)
    \/ OpenFileForWrite(c)
    \/ Writes(c) /\ Refuse(c, NoHost)
    \/ CloseFile(c)
    \/ CloseClear(c)
    \/ CloseRelease(c)

Spec == Init /\ [][Next]_vars

-----------------------------------------------------------------------------
(* What the add-on sees through its handle.                                *)

Holding(c) == pc[c] \in {"created", "performing", "opened", "closing"}

ReadFile(c) == curlhandler[handle[c]].response  \* whose body and headers
StatusLine(c) == curlhandler[handle[c]].protoLine

\* What curl_easy_perform() is about to send.
PostSent(c) == curlhandler[handle[c]].post
HeadersSent(c) == curlhandler[handle[c]].header

-----------------------------------------------------------------------------
InstanceRecord ==
  [status : {"C_CLOSE", "C_OPEN", "C_BUSY"},
   url : Host \cup {NoHost, "freed"},
   curl : {"null", "easy", "file"},
   conn : SUBSET ((Host \cup {NoHost}) \X Host),
   post : Origin \cup {Nobody},
   useragent : {"null", "allocated", "freed"},
   header : SUBSET Origin,
   protoLine : Origin \cup {Nobody},
   response : SUBSET Origin,
   fp : Origin \cup {Nobody}]

(* The types of the variables.                                             *)
TypeOK ==
  /\ curlhandler \in [Instance -> InstanceRecord]
  /\ pc \in [Client -> {"idle", "refused", "created", "performing", "opened", "closing"}]
  /\ handle \in [Client -> Nat]
  /\ \A c \in Client : Holding(c) => handle[c] \in Instance
  /\ target \in [Client -> Host \cup {NoHost}]
  /\ asked \in [Client -> SUBSET Options]
  /\ ok \in [Client -> BOOLEAN]
  /\ fault \in BOOLEAN
  /\ http \in BOOLEAN

(* Whatever threads create and close handles at the same time, while none  *)
(* writes files: the body and the headers that a client reads belong to    *)
(* its request, and so do the header options that it sends, even when its  *)
(* instance was used before.  The status line, which close_file() does not *)
(* clear, is its own after a transfer that succeeded, and of no other      *)
(* request that is still open.  Post data is not meant (OnlyAskedPosts).   *)
ResponsesAreSeparate ==
  http => \A c \in Client : pc[c] \in {"created", "performing", "opened"} =>
    /\ ReadFile(c) \subseteq {c}
    /\ HeadersSent(c) \subseteq {c}
    /\ StatusLine(c) \in {c, Earlier, Nobody}
    /\ pc[c] = "opened" /\ ok[c] => ReadFile(c) = {c} /\ StatusLine(c) = c

(* While no thread writes files, whoever has an instance finds it named    *)
(* for the host he asked, and every connection of its easy handle was      *)
(* opened by requests for the host it is named for: to that host first,    *)
(* and to others only where redirects of that host led.  A handle that is  *)
(* taken over brings no connection along.                                  *)
KeptForItsHost == http =>
  /\ \A i \in Instance :
       LET s == curlhandler[i] IN
       /\ \A link \in s.conn : link[1] = s.url
       /\ s.conn # {} => <<s.url, s.url>> \in s.conn /\ s.curl = "easy"
  /\ \A c \in Client : Holding(c) => curlhandler[handle[c]].url = target[c]

(* While no thread writes files, no url and no easy handle is used or      *)
(* freed after it was freed, no easy handle is cleaned up during a         *)
(* transfer, and a client that gave a User-Agent finds the memory of it    *)
(* until it closes its handle, whoever closes handles meanwhile.           *)
NoFault == http =>
  /\ ~fault
  /\ \A c \in Client :
       /\ pc[c] = "performing" => curlhandler[handle[c]].curl = "easy"
       /\ pc[c] \in {"created", "performing", "opened"}
            /\ "User-Agent" \in asked[c]
            => curlhandler[handle[c]].useragent = "allocated"

(* Handing out an instance, also for a file, changes no instance that is   *)
(* marked as busy, whatever its users are doing with it.                   *)
BusyIsLeftAlone ==
  [][\A c \in Client, i \in Instance :
       Free(c) /\ ~Free(c)' /\ curlhandler[i].status = "C_BUSY" =>
         curlhandler'[i] = curlhandler[i]]_vars

(* curl_create() lends every instance to one client at a time and refuses  *)
(* only while all MAX_INSTANCE of them are lent, if no thread writes files. *)
Lease == INSTANCE LeasePool WITH
           lease <- [c \in Client |->
                       IF http /\ Holding(c) THEN {handle[c]} ELSE {}],
           refused <- {c \in Client : http /\ pc[c] = "refused"}
IsLeasePool == Lease!Spec

(* c-api/filesystem.h:126, of the option postdata: "Implicitly sets the    *)
(* request to POST", which no other option does, while no thread writes    *)
(* files and curl_easy_init() succeeds.                                    *)
OnlyAskedPosts ==
  http => \A c \in Client : pc[c] = "performing" =>
    PostSent(c) = IF "postdata" \in asked[c] THEN c ELSE Nobody
=============================================================================
