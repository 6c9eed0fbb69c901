---------------------------- MODULE ZattoodHttp ----------------------------
(***************************************************************************)
(* The requests of zattood: Curl::Request() and HttpClient::HttpRequest()  *)
(* on the instances of http/curlhandler.h, from the login thread, main()   *)
(* and the details thread at once.  It is a copy of the pool of dash2ts    *)
(* that keeps no connection: an instance is closed or busy.                *)
(*                                                                         *)
(* curl_create() and open_file_for_write() hold curlMutex and are one      *)
(* action each; everything else runs without it.  close_file() is two: it  *)
(* clears the instance and makes it available, and then clears its cookie. *)
(***************************************************************************)
EXTENDS Naturals

CONSTANTS
  MaxInstance,  \* MAX_INSTANCE: 10
  Client,       \* the threads that make requests
  FileClient,   \* those of them that write cache files
  Page,         \* what is asked for
  Posted,       \* the pages that are asked for with data to post
  Session,      \* the values of the cookie beaker.session.id
  NoSession,    \* none
  Nothing       \* no body, no answer

ASSUME HttpAssumption ==
  /\ MaxInstance \in Nat
  /\ FileClient \subseteq Client /\ Posted \subseteq Page
  /\ NoSession \notin Session

\* Cache::Write() is called by the details thread only.
ASSUME OneFileClient == \A c, d \in FileClient : c = d

VARIABLES
  curlhandler,  \* the instances
  session,      \* m_beakerSessionId
  pc,           \* what each thread is doing
  handle,       \* the instance it was given
  request,      \* the page it asks for and the session it had then
  served,       \* what the server has answered to it, or Nothing
  result,       \* what HttpRequest() returns and the session it got
  mode          \* "http": nobody writes files; "files": one thread does;
                \* "scarce": nobody does, and curl_easy_init() may fail

threadVars == <<pc, handle, request, served, result>>
vars == <<curlhandler, session, threadVars, mode>>

Instance == 0 .. MaxInstance - 1
Cookie == Session \cup {NoSession}

\* Status codes below 400, from 400 on, and none: -1 or what there is in a
\* variable that was never set.
Code == {"ok", "denied", "none"}

\* curl: NULL, an easy handle or the (void*)1 of a file.  proto is the status
\* code in m_protoLine, fresh the session in the header set-cookie.
NewInstance ==
  [status |-> "C_CLOSE", curl |-> "null", fp |-> FALSE, post |-> FALSE,
   cookie |-> NoSession, proto |-> "none", fresh |-> NoSession, body |-> Nothing]

NoRequest == [page |-> Nothing, cookie |-> NoSession]
http == mode = "http"

NoResult == [status |-> "none", fresh |-> NoSession, body |-> Nothing]

Init ==
  /\ curlhandler = [i \in Instance |-> NewInstance]
  /\ session \in Cookie
  /\ pc = [c \in Client |-> "idle"]
  /\ handle = [c \in Client |-> 0]
  /\ request = [c \in Client |-> NoRequest]
  /\ served = [c \in Client |-> Nothing]
  /\ result = [c \in Client |-> NoResult]
  /\ mode \in {"http", "files", "scarce"}

-----------------------------------------------------------------------------
Closed == {i \in Instance : curlhandler[i].status = "C_CLOSE"}

\* get_curl_instance().
Got(i) == i \in Closed /\ \A j \in Closed : i <= j

Free(c) == pc[c] \in {"idle", "refused"}

Ask(c, page) ==
  request' = [request EXCEPT ![c] = [page |-> page, cookie |-> session]]

\* The (void*)1 of a file is used as an easy handle: the end of the process.
Die ==
  /\ pc' = [c \in Client |-> "down"]
  /\ UNCHANGED <<curlhandler, session, handle, request, served, result, mode>>

CurlCreateOnFile(c) ==
  /\ Free(c)
  /\ \E i \in Instance : Got(i) /\ curlhandler[i].curl = "file"
  /\ Die

\* A curl_create() that does not take the instance.
CurlCreateUnmarked(c, page) ==
  /\ Free(c)
  /\ Ask(c, page)
  /\ \E i \in Instance :
       /\ Got(i)
       /\ handle' = [handle EXCEPT ![c] = i]
       /\ curlhandler[i].curl # "file"
       /\ curlhandler' = [curlhandler EXCEPT ![i].curl = "easy",
                            ![i].body = Nothing, ![i].fp = FALSE]
  /\ pc' = [pc EXCEPT ![c] = "created"]
  /\ UNCHANGED <<session, served, result, mode>>

\* HttpRequest() up to curl_create().  When curl_easy_init() fails the instance
\* is returned all the same and stays available, to the next thread as well.
CurlCreate(c, page) ==
  /\ Free(c)
  /\ Ask(c, page)
  /\ \E i \in Instance :
       /\ Got(i)
       /\ handle' = [handle EXCEPT ![c] = i]
       /\ curlhandler[i].curl # "file"
       /\ \/ curlhandler' = [curlhandler EXCEPT ![i].curl = "easy",
                               ![i].body = Nothing, ![i].fp = FALSE,
                               ![i].status = "C_BUSY"]
          \/ /\ mode = "scarce" /\ curlhandler[i].curl = "null"
             /\ UNCHANGED curlhandler
  /\ pc' = [pc EXCEPT ![c] = "created"]
  /\ UNCHANGED <<session, served, result, mode>>

\* Status -1; the handler of status codes does nothing with it.
Refuse(c) ==
  /\ Free(c)
  /\ Closed = {}
  /\ pc' = [pc EXCEPT ![c] = "refused"]
  /\ UNCHANGED <<curlhandler, session, handle, request, served, result, mode>>

\* The curl_add_option() calls of Request().  Without a session and an m_uuid
\* there is no option for the cookie and m_cookie stays as it is: that is NULL,
\* since until m_uuid is set only the login thread makes requests, one after
\* another, and m_beakerSessionId is never cleared.
CurlAddOptions(c) ==
  /\ pc[c] = "created"
  /\ curlhandler' = [curlhandler EXCEPT
                       ![handle[c]].post = @ \/ request[c].page \in Posted,
                       ![handle[c]].cookie = request[c].cookie]
  /\ pc' = [pc EXCEPT ![c] = "performing"]
  /\ UNCHANGED <<session, handle, request, served, result, mode>>

\* A curl_open() that does not take the POST back.
CurlOpenKeepPost(c) ==
  LET s == curlhandler[handle[c]] IN
  /\ pc[c] = "performing"
  /\ \/ UNCHANGED <<curlhandler, served>>
     \/ \E code \in {"ok", "denied"} :
          /\ curlhandler' = [curlhandler EXCEPT ![handle[c]].proto = code]
          /\ served' = [served EXCEPT ![c] =
               [code |-> code, fresh |-> NoSession, post |-> s.post,
                cookie |-> s.cookie]]
  /\ pc' = [pc EXCEPT ![c] = "opened"]
  /\ UNCHANGED <<session, handle, request, result, mode>>

\* A header_callback() that keeps the first status line of the instance.
CurlOpenFirstLine(c) ==
  LET s == curlhandler[handle[c]] IN
  /\ pc[c] = "performing"
  /\ \E code \in {"ok", "denied"} :
       /\ curlhandler' = [curlhandler EXCEPT ![handle[c]] =
            [s EXCEPT !.post = FALSE, !.proto = IF @ = "none" THEN code ELSE @]]
       /\ served' = [served EXCEPT ![c] =
            [code |-> code, fresh |-> NoSession, post |-> s.post,
             cookie |-> s.cookie]]
  /\ pc' = [pc EXCEPT ![c] = "opened"]
  /\ UNCHANGED <<session, handle, request, result, mode>>

\* The transfer: no answer, or an answer whose body, a page or the part that
\* came, may be missing; one that is longer than the buffer is dropped.  Without
\* an easy handle nothing happens at all.  Two threads that share an instance,
\* when memory is scarce, are taken to transfer and to close one after another.
CurlOpen(c) ==
  LET s == curlhandler[handle[c]] IN
  /\ pc[c] = "performing"
  /\ \/ /\ s.curl = "null"
        /\ UNCHANGED <<curlhandler, served>>
     \/ /\ s.curl = "easy"
        /\ curlhandler' = [curlhandler EXCEPT ![handle[c]].post = FALSE]
        /\ UNCHANGED served
     \/ \E code \in {"ok", "denied"}, fresh \in Cookie,
           body \in {Nothing, request[c].page} :
          /\ s.curl = "easy"
          /\ curlhandler' = [curlhandler EXCEPT ![handle[c]] =
               [s EXCEPT !.post = FALSE, !.proto = code, !.fresh = fresh,
                         !.body = body]]
          /\ served' = [served EXCEPT ![c] =
               [code |-> code, fresh |-> fresh, post |-> s.post,
                cookie |-> s.cookie]]
  /\ pc' = [pc EXCEPT ![c] = "opened"]
  /\ UNCHANGED <<session, handle, request, result, mode>>

\* A refusal that is tried again at once.
ReadOrRetry(c) ==
  LET s == curlhandler[handle[c]] IN
  /\ pc[c] = "opened"
  /\ IF s.proto = "denied"
     THEN pc' = [pc EXCEPT ![c] = "performing"] /\ UNCHANGED result
     ELSE /\ pc' = [pc EXCEPT ![c] = "read"]
          /\ result' = [result EXCEPT ![c] =
                          [status |-> s.proto, fresh |-> s.fresh, body |-> s.body]]
  /\ UNCHANGED <<curlhandler, session, handle, request, served, mode>>

\* Request() after curl_open(): the status code, which is any when there never
\* was a response on this instance, and the cookie and the body that are used
\* unless the code is an error.
ReadResponse(c) ==
  LET s == curlhandler[handle[c]] IN
  /\ pc[c] = "opened"
  /\ \E code \in IF s.proto = "none" THEN Code ELSE {s.proto} :
       result' = [result EXCEPT ![c] =
         IF code = "ok" THEN [status |-> code, fresh |-> s.fresh, body |-> s.body]
         ELSE [status |-> code, fresh |-> NoSession, body |-> Nothing]]
  /\ pc' = [pc EXCEPT ![c] = "read"]
  /\ UNCHANGED <<curlhandler, session, handle, request, served, mode>>

Close(c, from, to, s) ==
  /\ pc[c] = from
  /\ pc' = [pc EXCEPT ![c] = to]
  /\ curlhandler' = [curlhandler EXCEPT ![handle[c]] = s]
  /\ UNCHANGED <<session, handle, request, served, result, mode>>

\* A close_file() that forgets m_params.
CloseButHeaders(c) ==
  Close(c, "read", "released",
        [curlhandler[handle[c]] EXCEPT !.curl = "null", !.body = Nothing,
                                       !.status = "C_CLOSE"])

\* close_file(), which changes the status after all that it clears but one.
CloseRelease(c) ==
  Close(c, "read", "released",
        [curlhandler[handle[c]] EXCEPT !.curl = "null", !.body = Nothing,
                                       !.fresh = NoSession, !.status = "C_CLOSE"])

\* The last assignment: whoever has the instance by now loses its cookie.
CloseCookie(c) ==
  Close(c, "released", "returned",
        [curlhandler[handle[c]] EXCEPT !.cookie = NoSession])

\* The end of HttpRequest(): an error goes to the handler of status codes, a
\* new session is kept.
Return(c) ==
  /\ pc[c] = "returned"
  /\ pc' = [pc EXCEPT ![c] = "idle"]
  /\ session' = IF result[c].fresh # NoSession THEN result[c].fresh ELSE session
  /\ request' = [request EXCEPT ![c] = NoRequest]
  /\ served' = [served EXCEPT ![c] = Nothing]
  /\ result' = [result EXCEPT ![c] = NoResult]
  /\ UNCHANGED <<curlhandler, handle, mode>>

\* open_file_for_write(), which does not mark the instance as busy; open()
\* may fail.
OpenFileForWrite(c) ==
  /\ mode = "files" /\ c \in FileClient
  /\ Free(c)
  /\ \E i \in Instance, opened \in BOOLEAN :
       /\ Got(i)
       /\ handle' = [handle EXCEPT ![c] = i]
       /\ curlhandler' = [curlhandler EXCEPT ![i].curl = "file", ![i].fp = opened]
  /\ pc' = [pc EXCEPT ![c] = "writing"]
  /\ UNCHANGED <<session, request, served, result, mode>>

\* close_file() for a file that could not be opened, which is taken for a
\* transfer.
CloseNoFile(c) ==
  /\ pc[c] = "writing"
  /\ ~curlhandler[handle[c]].fp
  /\ Die

\* write_file() and close_file().
CloseFile(c) ==
  LET s == curlhandler[handle[c]] IN
  /\ pc[c] = "writing"
  /\ pc' = [pc EXCEPT ![c] = "idle"]
  /\ s.fp
  /\ curlhandler' = [curlhandler EXCEPT ![handle[c]] =
                       [s EXCEPT !.fp = FALSE, !.curl = "null"]]
  /\ UNCHANGED <<session, handle, request, served, result, mode>>

Step(c) ==
  \/ CurlAddOptions(c)
  \/ CurlOpen(c)
  \/ ReadResponse(c)
  \/ CloseRelease(c)
  \/ CloseCookie(c)
  \/ Return(c)
  \/ CloseFile(c)
  \/ CloseNoFile(c)

Next ==
  \E c \in Client :
    \/ \E page \in Page : CurlCreate(c, page)
    \/ CurlCreateOnFile(c)
    \/ Refuse(c)
    \/ OpenFileForWrite(c)
    \/ Step(c)

Spec == Init /\ [][Next]_vars

\* The threads run on, and a transfer ends: curl_open() sets no time limit, so
\* it is the servers that must answer or end the connection.
FairSpec == Spec /\ \A c \in Client : WF_vars(Step(c))

-----------------------------------------------------------------------------
Bodies == Page \cup {Nothing}
Requests == [page : Bodies, cookie : Cookie]
Answers ==
  [code : {"ok", "denied"}, fresh : Cookie, post : BOOLEAN, cookie : Cookie]
ASSUME NothingAssumption == Nothing \notin Answers

(* The types of the variables.                                             *)
TypeOK ==
  /\ curlhandler \in [Instance ->
       [status : {"C_CLOSE", "C_BUSY"}, curl : {"null", "easy", "file"},
        fp : BOOLEAN, post : BOOLEAN, cookie : Cookie, proto : Code,
        fresh : Cookie, body : Bodies]]
  /\ session \in Cookie
  /\ pc \in [Client -> {"idle", "refused", "created", "performing", "opened",
                        "read", "released", "returned", "writing", "down"}]
  /\ handle \in [Client -> {0} \cup Instance]
  /\ request \in [Client -> Requests]
  /\ served \in [Client -> Answers \cup {Nothing}]
  /\ result \in [Client -> [status : Code, fresh : Cookie, body : Bodies]]
  /\ mode \in {"http", "files", "scarce"}

(* What a thread gets back is of its own request: the status code is that  *)
(* of its answer if there was one, a body is that of the page it asked     *)
(* for, and it has one only if the servers sent it one - while the         *)
(* instance served other threads before and m_protoLine is never cleared.  *)
(* This and the next two are said while curl_easy_init() does not fail.    *)
OwnAnswer ==
  mode # "scarce" => \A c \in Client : pc[c] \in {"read", "released", "returned"} =>
    /\ served[c] # Nothing => result[c].status = served[c].code
    /\ result[c].body # Nothing => /\ served[c] # Nothing
                                   /\ result[c].body = request[c].page

(* What the servers see is what the thread has asked for: a POST if it has *)
(* data to post and else none, and the session that was current when it    *)
(* began.  The cookie may be missing, when the close of an earlier request *)
(* comes late, but it is never that of another request.                    *)
SeenAsMeant ==
  mode # "scarce" => \A c \in Client : served[c] # Nothing =>
    /\ served[c].post = (request[c].page \in Posted)
    /\ served[c].cookie \in {request[c].cookie, NoSession}

(* m_beakerSessionId is changed only to a session that the servers gave in *)
(* the answer to the very request that returns, and in no error.           *)
SessionWasGiven ==
  [][mode # "scarce" /\ session' # session =>
       \E c \in Client : /\ pc[c] = "returned" /\ served[c] # Nothing
                         /\ served[c].code = "ok"
                         /\ served[c].fresh = session']_vars

(* While no files are written and curl_easy_init() does not fail, an       *)
(* instance is lent to one thread at a time, and a thread is turned away   *)
(* only while all MAX_INSTANCE are lent.                                   *)
Holding(c) == pc[c] \in {"created", "performing", "opened", "read"}
Lease == INSTANCE LeasePool WITH
           lease <- [c \in Client |->
                       IF http /\ Holding(c) THEN {handle[c]} ELSE {}],
           refused <- {c \in Client : http /\ pc[c] = "refused"}
IsLeasePool == Lease!Spec

(* An error of the servers reaches the handler of status codes, which      *)
(* takes a 403 for the end of the session: the thread that was denied      *)
(* returns with that code, whatever the other threads do meanwhile.        *)
DenialReported ==
  \A c \in Client :
    (http /\ served[c] # Nothing /\ served[c].code = "denied")
      ~> (pc[c] = "returned" /\ result[c].status = "denied")
=============================================================================
