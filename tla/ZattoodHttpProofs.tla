------------------------- MODULE ZattoodHttpProofs -------------------------
(***************************************************************************)
(* The requests of zattood are kept apart, for any number of instances,    *)
(* threads, pages and sessions, and with one thread that writes files,     *)
(* while curl_easy_init() does not fail.                                   *)
(***************************************************************************)
EXTENDS ZattoodHttp, TLAPS

USE DEF http

-----------------------------------------------------------------------------
(* The inductive invariant.                                                *)

\* The status of an instance agrees with who holds it, and the instance of a
\* file, which is not marked, is held by nobody.
Marks ==
  /\ \A c \in Client : Holding(c) =>
       /\ handle[c] \in Instance
       /\ curlhandler[handle[c]].status = "C_BUSY" /\ curlhandler[handle[c]].curl = "easy"
  /\ \A c, d \in Client :
       Holding(c) /\ Holding(d) /\ handle[c] = handle[d] => c = d
  /\ \A c \in Client : pc[c] = "writing" =>
       /\ c \in FileClient /\ handle[c] \in Instance
       /\ curlhandler[handle[c]].status = "C_CLOSE"
       /\ curlhandler[handle[c]].curl = "file"

\* What an instance has when it is given to a request.
Clean(s) == ~s.post /\ s.fresh = NoSession /\ s.body = Nothing
Cleared == \A i \in Instance : curlhandler[i].status = "C_CLOSE" => Clean(curlhandler[i])

\* The request that c has in s and the answer to it.
Mine(c, s) ==
  /\ pc[c] \in {"idle", "refused", "created", "performing", "writing"} =>
       served[c] = Nothing
  /\ pc[c] = "created" => Clean(s)
  /\ pc[c] = "performing" =>
       /\ s.post = (request[c].page \in Posted)
       /\ s.cookie \in {request[c].cookie, NoSession}
       /\ s.fresh = NoSession /\ s.body = Nothing
  /\ pc[c] = "opened" =>
       /\ ~s.post
       /\ served[c] # Nothing => s.proto = served[c].code
       /\ s.fresh # NoSession => served[c] # Nothing /\ served[c].fresh = s.fresh
       /\ s.body # Nothing => served[c] # Nothing /\ s.body = request[c].page
  /\ pc[c] = "read" => ~s.post
  /\ pc[c] \in {"read", "released", "returned"} =>
       /\ served[c] # Nothing => result[c].status = served[c].code
       /\ result[c].fresh # NoSession =>
            /\ served[c] # Nothing /\ served[c].fresh = result[c].fresh
            /\ result[c].status = "ok"
       /\ result[c].body # Nothing =>
            served[c] # Nothing /\ result[c].body = request[c].page
  /\ served[c] # Nothing =>
       /\ served[c].post = (request[c].page \in Posted)
       /\ served[c].cookie \in {request[c].cookie, NoSession}

Own == \A c \in Client : Mine(c, curlhandler[handle[c]])

\* While curl_easy_init() does not fail.
IInv == mode # "scarce" /\ TypeOK /\ Marks /\ Cleared /\ Own

\* Without files every busy instance is held by a thread that goes on.
Lent ==
  http =>
    /\ \A c \in Client : pc[c] \notin {"writing", "down"}
    /\ \A i \in Instance :
         /\ curlhandler[i].curl # "file"
         /\ curlhandler[i].status = "C_BUSY" =>
              \E c \in Client : Holding(c) /\ handle[c] = i

-----------------------------------------------------------------------------
InstanceRecord ==
  [status : {"C_CLOSE", "C_BUSY"}, curl : {"null", "easy", "file"},
   fp : BOOLEAN, post : BOOLEAN, cookie : Cookie, proto : Code,
   fresh : Cookie, body : Bodies]

\* All instances unused and no requests.
LEMMA InitIInv == Init /\ mode # "scarce" => IInv /\ Lent
<1> SUFFICES ASSUME Init, mode # "scarce" PROVE IInv /\ Lent
  OBVIOUS
<1>1. /\ NewInstance \in InstanceRecord
      /\ Clean(NewInstance) /\ NewInstance.curl = "null"
      /\ NewInstance.status = "C_CLOSE"
  BY DEF NewInstance, InstanceRecord, Cookie, Code, Bodies, Clean
<1>2. \A i \in Instance : curlhandler[i] = NewInstance
  BY DEF Init
<1>3. \A c \in Client : pc[c] = "idle" /\ served[c] = Nothing /\ ~Holding(c)
  BY DEF Init, Holding
<1>4. NoRequest \in Requests /\ NoResult \in [status : Code, fresh : Cookie, body : Bodies]
  BY DEF NoRequest, NoResult, Requests, Cookie, Code, Bodies
<1>5. TypeOK
  <2>1. curlhandler \in [Instance -> InstanceRecord]
    BY <1>1 DEF Init
  <2>2. QED
    BY <2>1, <1>4 DEF Init, TypeOK, InstanceRecord
<1>6. Marks
  BY <1>3 DEF Marks
<1>7. Cleared
  BY <1>1, <1>2 DEF Cleared
<1>8. Own
  BY <1>3 DEF Own, Mine
<1>9. Lent
  BY <1>1, <1>2, <1>3 DEF Lent
<1>10. QED
  BY <1>5, <1>6, <1>7, <1>8, <1>9 DEF IInv

-----------------------------------------------------------------------------
(* A thread is given an instance.                                          *)

\* An instance nobody has is given to a thread that has none.
LEMMA CurlCreateStep ==
  ASSUME IInv, NEW c \in Client, NEW page \in Page, CurlCreate(c, page)
  PROVE  /\ IInv'
         /\ Lent => Lent'
         /\ \E i \in Closed : /\ handle' = [handle EXCEPT ![c] = i]
                              /\ pc' = [pc EXCEPT ![c] = "created"]
                              /\ mode' = mode
<1>1. TypeOK /\ Marks /\ Cleared /\ Own
  BY DEF IInv
<1>2. PICK i \in Instance :
        /\ Got(i)
        /\ handle' = [handle EXCEPT ![c] = i]
        /\ curlhandler[i].curl # "file"
        /\ curlhandler' = [curlhandler EXCEPT ![i].curl = "easy",
                             ![i].body = Nothing, ![i].fp = FALSE,
                             ![i].status = "C_BUSY"]
  BY DEF CurlCreate, IInv
<1>3. /\ pc[c] \in {"idle", "refused"}
      /\ pc' = [pc EXCEPT ![c] = "created"]
      /\ request' = [request EXCEPT ![c] = [page |-> page, cookie |-> session]]
      /\ UNCHANGED <<session, served, result, mode>>
  BY DEF CurlCreate, Free, Ask
<1> DEFINE s == [curlhandler[i] EXCEPT !.curl = "easy", !.body = Nothing,
                                       !.fp = FALSE, !.status = "C_BUSY"]
<1>4. curlhandler[i] \in InstanceRecord /\ curlhandler[i].status = "C_CLOSE"
  BY <1>1, <1>2 DEF TypeOK, InstanceRecord, Got, Closed
<1>5. s \in InstanceRecord /\ s.status = "C_BUSY" /\ s.curl = "easy" /\ Clean(s)
  BY <1>1, <1>4 DEF InstanceRecord, Bodies, Cleared, Clean
<1>6. curlhandler' = [curlhandler EXCEPT ![i] = s]
  BY <1>1, <1>2 DEF TypeOK
<1> HIDE DEF s
<1>7. /\ curlhandler'[i] = s
      /\ \A j \in Instance : j # i => curlhandler'[j] = curlhandler[j]
      /\ pc'[c] = "created" /\ handle'[c] = i
      /\ \A d \in Client : d # c => /\ pc'[d] = pc[d] /\ handle'[d] = handle[d]
                                    /\ request'[d] = request[d]
  BY <1>1, <1>2, <1>3, <1>6 DEF TypeOK
<1>8. Holding(c)' /\ \A d \in Client : d # c => Holding(d)' = Holding(d)
  BY <1>7 DEF Holding
<1>9. \A d \in Client : (Holding(d) \/ pc[d] = "writing") =>
        handle[d] \in Instance /\ handle[d] # i
  BY <1>1, <1>2, <1>4 DEF Marks
<1>10. TypeOK'
  <2>1. curlhandler' \in [Instance -> InstanceRecord]
    BY <1>1, <1>5, <1>6 DEF TypeOK, InstanceRecord
  <2>2. request' \in [Client -> Requests]
    BY <1>1, <1>3 DEF TypeOK, Requests, Bodies
  <2>3. handle' \in [Client -> {0} \cup Instance]
    BY <1>1, <1>2 DEF TypeOK
  <2>4. QED
    BY <1>1, <1>3, <2>1, <2>2, <2>3 DEF TypeOK, InstanceRecord
<1>11. Marks'
  <2>1. \A d \in Client : Holding(d)' =>
          /\ handle'[d] \in Instance
          /\ curlhandler'[handle'[d]].status = "C_BUSY" /\ curlhandler'[handle'[d]].curl = "easy"
    BY <1>1, <1>5, <1>7, <1>8, <1>9 DEF Marks
  <2>2. \A d, e \in Client :
          Holding(d)' /\ Holding(e)' /\ handle'[d] = handle'[e] => d = e
    BY <1>1, <1>7, <1>8, <1>9 DEF Marks
  <2>3. \A d \in Client : pc'[d] = "writing" =>
          /\ d \in FileClient /\ handle'[d] \in Instance
          /\ curlhandler'[handle'[d]].status = "C_CLOSE"
          /\ curlhandler'[handle'[d]].curl = "file"
    BY <1>1, <1>7, <1>9 DEF Marks
  <2>4. QED
    BY <2>1, <2>2, <2>3 DEF Marks
<1>12. Cleared'
  BY <1>1, <1>5, <1>7 DEF Cleared
<1>13. Own'
  <2>1. Mine(c, curlhandler[handle[c]])'
    BY <1>1, <1>3, <1>5, <1>7 DEF Own, Mine
  <2>2. ASSUME NEW d \in Client, d # c
        PROVE  Mine(d, curlhandler[handle[d]])'
    <3>1. Holding(d) => curlhandler'[handle'[d]] = curlhandler[handle[d]]
      BY <1>7, <1>9, <2>2
    <3>2. UNCHANGED <<pc[d], handle[d], request[d], served[d], result[d]>>
      BY <1>3, <1>7, <2>2
    <3>3. QED
      BY <1>1, <3>1, <3>2 DEF Own, Mine, Holding
  <2>3. QED
    BY <2>1, <2>2 DEF Own
<1>14. Lent => Lent'
  <2> SUFFICES ASSUME Lent, http' PROVE Lent'
    BY DEF Lent
  <2>1. ASSUME NEW j \in Instance, curlhandler'[j].status = "C_BUSY"
        PROVE  \E d \in Client : Holding(d)' /\ handle'[d] = j
    <3>1. CASE j = i
      BY <3>1, <1>7, <1>8
    <3>2. CASE j # i
      <4>1. PICK d \in Client : Holding(d) /\ handle[d] = j
        BY <2>1, <3>2, <1>3, <1>7 DEF Lent
      <4>2. d # c
        BY <4>1, <1>3 DEF Holding
      <4>3. QED
        BY <4>1, <4>2, <1>7, <1>8
    <3>3. QED
      BY <3>1, <3>2
  <2>2. /\ \A d \in Client : pc'[d] \notin {"writing", "down"}
        /\ \A j \in Instance : curlhandler'[j].curl # "file"
    BY <1>3, <1>5, <1>7 DEF Lent
  <2>3. QED
    BY <2>1, <2>2 DEF Lent
<1>15. i \in Closed
  BY <1>2 DEF Got
<1>16. QED
  BY <1>2, <1>3, <1>10, <1>11, <1>12, <1>13, <1>14, <1>15 DEF IInv

-----------------------------------------------------------------------------
(* A thread works on the instance it holds.                                *)

Results == [status : Code, fresh : Cookie, body : Bodies]

\* What a thread does with the instance it holds concerns no other one.
LEMMA WorkStep ==
  ASSUME IInv, NEW c \in Client, Holding(c),
         NEW s \in InstanceRecord, s.status = "C_BUSY",
         s.curl = curlhandler[handle[c]].curl,
         curlhandler' = [curlhandler EXCEPT ![handle[c]] = s],
         NEW to \in {"performing", "opened", "read"}, pc' = [pc EXCEPT ![c] = to],
         NEW a \in Answers \cup {Nothing}, served' = [served EXCEPT ![c] = a],
         NEW r \in Results, result' = [result EXCEPT ![c] = r],
         UNCHANGED <<session, handle, request, mode>>,
         Mine(c, s)'
  PROVE  /\ IInv'
         /\ Lent => Lent'
         /\ \A d \in Client : Holding(d)' = Holding(d)
<1>1. TypeOK /\ Marks /\ Cleared /\ Own
  BY DEF IInv
<1>2. handle[c] \in Instance /\ curlhandler[handle[c]].status = "C_BUSY"
  BY <1>1 DEF Marks
<1>3. /\ curlhandler'[handle[c]] = s
      /\ \A j \in Instance : j # handle[c] => curlhandler'[j] = curlhandler[j]
      /\ pc'[c] = to
      /\ \A d \in Client : d # c => /\ pc'[d] = pc[d] /\ served'[d] = served[d]
                                    /\ result'[d] = result[d]
  BY <1>1, <1>2 DEF TypeOK
<1>4. \A d \in Client : Holding(d)' = Holding(d)
  BY <1>3 DEF Holding
<1>5. \A d \in Client : d # c /\ (Holding(d) \/ pc[d] = "writing") =>
        handle[d] \in Instance /\ handle[d] # handle[c]
  BY <1>1, <1>2 DEF Marks
<1>6. TypeOK'
  BY <1>1 DEF TypeOK, InstanceRecord, Results
<1>7. Marks'
  <2>1. \A d \in Client : Holding(d)' =>
          /\ handle[d] \in Instance
          /\ curlhandler'[handle[d]].status = "C_BUSY" /\ curlhandler'[handle[d]].curl = "easy"
    BY <1>1, <1>3, <1>4, <1>5 DEF Marks
  <2>2. \A d \in Client : pc'[d] = "writing" =>
          /\ d \in FileClient /\ handle[d] \in Instance
          /\ curlhandler'[handle[d]].status = "C_CLOSE"
          /\ curlhandler'[handle[d]].curl = "file"
    BY <1>1, <1>3, <1>5 DEF Marks
  <2>3. QED
    BY <1>1, <1>4, <2>1, <2>2 DEF Marks
<1>8. Cleared'
  BY <1>1, <1>3 DEF Cleared
<1>9. Own'
  <2>1. Mine(c, curlhandler[handle[c]])'
    BY <1>3 DEF Mine
  <2>2. ASSUME NEW d \in Client, d # c
        PROVE  Mine(d, curlhandler[handle[d]])'
    <3>1. Holding(d) => curlhandler'[handle[d]] = curlhandler[handle[d]]
      BY <1>3, <1>5, <2>2
    <3>2. QED
      BY <1>1, <1>3, <2>2, <3>1 DEF Own, Mine, Holding
  <2>3. QED
    BY <2>1, <2>2 DEF Own
<1>10. Lent => Lent'
  <2> SUFFICES ASSUME Lent, http' PROVE Lent'
    BY DEF Lent
  <2>1. \A j \in Instance : curlhandler'[j].status = "C_BUSY" =>
          \E d \in Client : Holding(d)' /\ handle'[d] = j
    BY <1>2, <1>3, <1>4 DEF Lent
  <2>2. /\ \A d \in Client : pc'[d] \notin {"writing", "down"}
        /\ \A j \in Instance : curlhandler'[j].curl # "file"
    BY <1>2, <1>3 DEF Lent
  <2>3. QED
    BY <2>1, <2>2 DEF Lent
<1>11. QED
  BY <1>4, <1>6, <1>7, <1>8, <1>9, <1>10 DEF IInv

\* Nothing that LeasePool can see happens, and no thread changes its ways.
Quiet ==
  /\ \A d \in Client : Holding(d)' = Holding(d)
  /\ handle' = handle /\ mode' = mode
  /\ \A d \in Client : (pc'[d] = "refused") = (pc[d] = "refused")

\* curl_add_option() gives an instance what the request sends.
LEMMA CurlAddOptionsStep ==
  ASSUME IInv, NEW c \in Client, CurlAddOptions(c)
  PROVE  IInv' /\ (Lent => Lent') /\ Quiet
<1> DEFINE old == curlhandler[handle[c]]
<1> PICK posts \in BOOLEAN : posts = (old.post \/ request[c].page \in Posted)
  OBVIOUS
<1> PICK s : s = [old EXCEPT !.post = posts, !.cookie = request[c].cookie]
  OBVIOUS
<1>1. TypeOK /\ Marks /\ Own /\ Holding(c) /\ pc[c] = "created"
  BY DEF IInv, CurlAddOptions, Holding
<1>2. old \in InstanceRecord /\ handle[c] \in Instance /\ old.status = "C_BUSY"
  BY <1>1 DEF TypeOK, Marks, InstanceRecord
<1>3. Clean(old) /\ served[c] = Nothing
  BY <1>1 DEF Own, Mine
<1>4. request[c].cookie \in Cookie
  BY <1>1 DEF TypeOK, Requests
<1>5. /\ s \in InstanceRecord /\ s.status = "C_BUSY" /\ s.curl = old.curl
      /\ s.post = (request[c].page \in Posted) /\ s.cookie = request[c].cookie
      /\ s.fresh = NoSession /\ s.body = Nothing
  <2>1. /\ s \in InstanceRecord /\ s.status = "C_BUSY" /\ s.curl = old.curl
        /\ s.post = posts /\ s.cookie = request[c].cookie
        /\ s.fresh = old.fresh /\ s.body = old.body
    BY <1>2, <1>4 DEF InstanceRecord
  <2>2. posts = (request[c].page \in Posted)
    BY <1>3 DEF Clean
  <2>3. QED
    BY <1>3, <2>1, <2>2 DEF Clean
<1>6. curlhandler' = [curlhandler EXCEPT ![handle[c]] = s]
  BY <1>1, <1>2 DEF CurlAddOptions, TypeOK
<1>7. /\ pc' = [pc EXCEPT ![c] = "performing"]
      /\ UNCHANGED <<session, handle, request, served, result, mode>>
  BY DEF CurlAddOptions
<1>8. /\ served' = [served EXCEPT ![c] = served[c]]
      /\ result' = [result EXCEPT ![c] = result[c]]
      /\ served[c] \in Answers \cup {Nothing} /\ result[c] \in Results
  BY <1>1, <1>7 DEF TypeOK, Results
<1>9. pc'[c] = "performing"
  BY <1>1, <1>7 DEF TypeOK
<1>10. Mine(c, s)'
  BY <1>3, <1>5, <1>7, <1>9 DEF Mine
<1>11. IInv' /\ (Lent => Lent') /\ \A d \in Client : Holding(d)' = Holding(d)
  BY <1>1, <1>2, <1>5, <1>6, <1>7, <1>8, <1>10, WorkStep
<1>12. QED
  BY <1>1, <1>7, <1>11 DEF Quiet, TypeOK

\* curl_open() leaves what the servers have answered to this request.
LEMMA CurlOpenStep ==
  ASSUME IInv, NEW c \in Client, CurlOpen(c)
  PROVE  IInv' /\ (Lent => Lent') /\ Quiet
<1> DEFINE old == curlhandler[handle[c]]
<1>1. TypeOK /\ Marks /\ Own /\ Holding(c) /\ pc[c] = "performing"
  BY DEF IInv, CurlOpen, Holding
<1>2. old \in InstanceRecord /\ handle[c] \in Instance /\ old.status = "C_BUSY"
  BY <1>1 DEF TypeOK, Marks, InstanceRecord
<1>3. /\ served[c] = Nothing
      /\ old.post = (request[c].page \in Posted)
      /\ old.cookie \in {request[c].cookie, NoSession}
      /\ old.fresh = NoSession /\ old.body = Nothing
  BY <1>1 DEF Own, Mine
<1>4. /\ pc' = [pc EXCEPT ![c] = "opened"]
      /\ UNCHANGED <<session, handle, request, result, mode>>
  BY DEF CurlOpen
<1>5. pc'[c] = "opened" /\ request[c].page \in Bodies
  BY <1>1, <1>4 DEF TypeOK, Requests
<1>6. result' = [result EXCEPT ![c] = result[c]] /\ result[c] \in Results
  BY <1>1, <1>4 DEF TypeOK, Results
<1>7. IInv' /\ (Lent => Lent') /\ \A d \in Client : Holding(d)' = Holding(d)
  <2>1. CASE /\ curlhandler' = [curlhandler EXCEPT ![handle[c]].post = FALSE]
             /\ UNCHANGED served
    <3> PICK s : s = [old EXCEPT !.post = FALSE]
      OBVIOUS
    <3>1. /\ s \in InstanceRecord /\ s.status = "C_BUSY" /\ s.curl = old.curl
          /\ ~s.post /\ s.fresh = NoSession /\ s.body = Nothing
      BY <1>2, <1>3 DEF InstanceRecord
    <3>2. curlhandler' = [curlhandler EXCEPT ![handle[c]] = s]
      BY <2>1, <1>1, <1>2 DEF TypeOK
    <3>3. served' = [served EXCEPT ![c] = served[c]] /\ served[c] \in Answers \cup {Nothing}
      BY <1>1, <2>1 DEF TypeOK
    <3>4. Mine(c, s)'
      BY <1>3, <1>4, <1>5, <2>1, <3>1 DEF Mine
    <3>5. QED
      BY <1>1, <1>2, <1>4, <1>6, <3>1, <3>2, <3>3, <3>4, WorkStep
  <2>2. CASE \E code \in {"ok", "denied"}, fresh \in Cookie,
                body \in {Nothing, request[c].page} :
               /\ curlhandler' = [curlhandler EXCEPT ![handle[c]] =
                    [old EXCEPT !.post = FALSE, !.proto = code, !.fresh = fresh,
                                !.body = body]]
               /\ served' = [served EXCEPT ![c] =
                    [code |-> code, fresh |-> fresh, post |-> old.post,
                     cookie |-> old.cookie]]
    <3>1. PICK code \in {"ok", "denied"}, fresh \in Cookie,
               body \in {Nothing, request[c].page} :
               /\ curlhandler' = [curlhandler EXCEPT ![handle[c]] =
                    [old EXCEPT !.post = FALSE, !.proto = code, !.fresh = fresh,
                                !.body = body]]
               /\ served' = [served EXCEPT ![c] =
                    [code |-> code, fresh |-> fresh, post |-> old.post,
                     cookie |-> old.cookie]]
      BY <2>2
    <3> PICK s, a :
          /\ s = [old EXCEPT !.post = FALSE, !.proto = code, !.fresh = fresh,
                             !.body = body]
          /\ a = [code |-> code, fresh |-> fresh, post |-> old.post,
                  cookie |-> old.cookie]
      OBVIOUS
    <3>2. /\ s \in InstanceRecord /\ s.status = "C_BUSY" /\ s.curl = old.curl
          /\ ~s.post /\ s.fresh = fresh /\ s.body = body /\ s.proto = code
      BY <1>2, <1>5 DEF InstanceRecord, Code, Bodies
    <3>3. /\ a \in Answers /\ a # Nothing
          /\ a.code = code /\ a.fresh = fresh /\ a.post = old.post /\ a.cookie = old.cookie
      BY <1>2, NothingAssumption DEF Answers, InstanceRecord
    <3>4. /\ curlhandler' = [curlhandler EXCEPT ![handle[c]] = s]
          /\ served' = [served EXCEPT ![c] = a]
          /\ served'[c] = a
      BY <1>1, <3>1 DEF TypeOK
    <3>5. Mine(c, s)'
      BY <1>3, <1>4, <1>5, <3>2, <3>3, <3>4 DEF Mine
    <3>6. QED
      BY <1>1, <1>2, <1>4, <1>6, <3>2, <3>3, <3>4, <3>5, WorkStep
  <2>3. old.curl = "easy"
    BY <1>1 DEF Marks
  <2>4. QED
    BY <2>1, <2>2, <2>3 DEF CurlOpen
<1>8. QED
  BY <1>1, <1>4, <1>7 DEF Quiet, TypeOK

\* Request() takes what is in the instance.
LEMMA ReadResponseStep ==
  ASSUME IInv, NEW c \in Client, ReadResponse(c)
  PROVE  IInv' /\ (Lent => Lent') /\ Quiet
<1> DEFINE old == curlhandler[handle[c]]
<1>1. TypeOK /\ Marks /\ Own /\ Holding(c) /\ pc[c] = "opened"
  BY DEF IInv, ReadResponse, Holding
<1>2. old \in InstanceRecord /\ handle[c] \in Instance /\ old.status = "C_BUSY"
  BY <1>1 DEF TypeOK, Marks, InstanceRecord
<1>3. PICK code \in IF old.proto = "none" THEN Code ELSE {old.proto} :
        result' = [result EXCEPT ![c] =
          IF code = "ok" THEN [status |-> code, fresh |-> old.fresh, body |-> old.body]
          ELSE [status |-> code, fresh |-> NoSession, body |-> Nothing]]
  BY DEF ReadResponse
<1> PICK r :
      r = IF code = "ok" THEN [status |-> code, fresh |-> old.fresh, body |-> old.body]
          ELSE [status |-> code, fresh |-> NoSession, body |-> Nothing]
  OBVIOUS
<1>4. /\ r \in Results /\ r.status = code
      /\ r.fresh # NoSession => r.fresh = old.fresh /\ code = "ok"
      /\ r.body # Nothing => r.body = old.body
  BY <1>2 DEF Results, InstanceRecord, Code, Cookie, Bodies
<1>5. /\ pc' = [pc EXCEPT ![c] = "read"]
      /\ result' = [result EXCEPT ![c] = r]
      /\ UNCHANGED <<curlhandler, session, handle, request, served, mode>>
  BY <1>3 DEF ReadResponse
<1>6. pc'[c] = "read" /\ result'[c] = r
  BY <1>1, <1>5 DEF TypeOK
<1> PICK s : s = old
  OBVIOUS
<1>7. /\ curlhandler' = [curlhandler EXCEPT ![handle[c]] = s]
      /\ served' = [served EXCEPT ![c] = served[c]]
      /\ served[c] \in Answers \cup {Nothing}
  BY <1>1, <1>2, <1>5 DEF TypeOK
<1>8. served[c] # Nothing => served[c].code \in {"ok", "denied"}
  BY <1>7 DEF Answers
<1>9. Mine(c, s)'
  BY <1>1, <1>4, <1>5, <1>6, <1>8 DEF Own, Mine
<1>10. IInv' /\ (Lent => Lent') /\ \A d \in Client : Holding(d)' = Holding(d)
  BY <1>1, <1>2, <1>4, <1>5, <1>7, <1>9, WorkStep
<1>11. QED
  BY <1>1, <1>5, <1>10 DEF Quiet, TypeOK

-----------------------------------------------------------------------------
(* A thread gives its instance back.                                       *)

\* close_file() ends the lease with a cleared instance.
LEMMA CloseReleaseStep ==
  ASSUME IInv, NEW c \in Client, CloseRelease(c)
  PROVE  /\ IInv'
         /\ Lent => Lent'
         /\ Holding(c) /\ pc' = [pc EXCEPT ![c] = "released"]
         /\ handle' = handle /\ mode' = mode
<1> DEFINE old == curlhandler[handle[c]]
<1>1. TypeOK /\ Marks /\ Cleared /\ Own /\ Holding(c) /\ pc[c] = "read"
  BY DEF IInv, CloseRelease, Close, Holding
<1>2. old \in InstanceRecord /\ handle[c] \in Instance /\ old.status = "C_BUSY"
  BY <1>1 DEF TypeOK, Marks, InstanceRecord
<1> PICK s : s = [old EXCEPT !.curl = "null", !.body = Nothing,
                             !.fresh = NoSession, !.status = "C_CLOSE"]
  OBVIOUS
<1>3. /\ pc' = [pc EXCEPT ![c] = "released"]
      /\ curlhandler' = [curlhandler EXCEPT ![handle[c]] = s]
      /\ UNCHANGED <<session, handle, request, served, result, mode>>
  BY DEF CloseRelease, Close
<1>4. ~old.post
  BY <1>1 DEF Own, Mine
<1>5. s \in InstanceRecord /\ s.status = "C_CLOSE" /\ s.curl = "null" /\ Clean(s)
  BY <1>2, <1>4 DEF InstanceRecord, Cookie, Bodies, Clean
<1>6. /\ curlhandler'[handle[c]] = s
      /\ \A j \in Instance : j # handle[c] => curlhandler'[j] = curlhandler[j]
      /\ pc'[c] = "released"
      /\ \A d \in Client : d # c => pc'[d] = pc[d]
  BY <1>1, <1>2, <1>3 DEF TypeOK
<1>7. ~Holding(c)' /\ \A d \in Client : d # c => Holding(d)' = Holding(d)
  BY <1>6 DEF Holding
<1>8. \A d \in Client : d # c /\ (Holding(d) \/ pc[d] = "writing") =>
        handle[d] \in Instance /\ handle[d] # handle[c]
  BY <1>1, <1>2 DEF Marks
<1>9. TypeOK'
  BY <1>1, <1>3, <1>5 DEF TypeOK, InstanceRecord
<1>10. Marks'
  <2>1. \A d \in Client : Holding(d)' =>
          /\ handle[d] \in Instance
          /\ curlhandler'[handle[d]].status = "C_BUSY" /\ curlhandler'[handle[d]].curl = "easy"
    BY <1>1, <1>6, <1>7, <1>8 DEF Marks
  <2>2. \A d \in Client : pc'[d] = "writing" =>
          /\ d \in FileClient /\ handle[d] \in Instance
          /\ curlhandler'[handle[d]].status = "C_CLOSE"
          /\ curlhandler'[handle[d]].curl = "file"
    BY <1>1, <1>6, <1>8 DEF Marks
  <2>3. QED
    BY <1>1, <1>3, <1>7, <2>1, <2>2 DEF Marks
<1>11. Cleared'
  BY <1>1, <1>5, <1>6 DEF Cleared
<1>12. Own'
  <2>1. Mine(c, curlhandler[handle[c]])'
    BY <1>1, <1>3, <1>6 DEF Own, Mine
  <2>2. ASSUME NEW d \in Client, d # c
        PROVE  Mine(d, curlhandler[handle[d]])'
    <3>1. Holding(d) => curlhandler'[handle[d]] = curlhandler[handle[d]]
      BY <1>6, <1>8, <2>2
    <3>2. QED
      BY <1>1, <1>3, <1>6, <2>2, <3>1 DEF Own, Mine, Holding
  <2>3. QED
    BY <2>1, <2>2 DEF Own
<1>13. Lent => Lent'
  <2> SUFFICES ASSUME Lent, http' PROVE Lent'
    BY DEF Lent
  <2>1. ASSUME NEW j \in Instance, curlhandler'[j].status = "C_BUSY"
        PROVE  \E d \in Client : Holding(d)' /\ handle'[d] = j
    <3>1. j # handle[c] /\ curlhandler[j].status = "C_BUSY"
      BY <2>1, <1>5, <1>6
    <3>2. PICK d \in Client : Holding(d) /\ handle[d] = j
      BY <3>1, <1>3 DEF Lent
    <3>3. QED
      BY <3>1, <3>2, <1>3, <1>7
  <2>2. /\ \A d \in Client : pc'[d] \notin {"writing", "down"}
        /\ \A j \in Instance : curlhandler'[j].curl # "file"
    BY <1>3, <1>5, <1>6 DEF Lent
  <2>3. QED
    BY <2>1, <2>2 DEF Lent
<1>14. QED
  BY <1>1, <1>3, <1>9, <1>10, <1>11, <1>12, <1>13 DEF IInv

\* A thread without an instance goes on without one.
LEMMA AwayStep ==
  ASSUME IInv, NEW c \in Client, ~Holding(c),
         NEW to \in {"idle", "refused", "returned"}, pc' = [pc EXCEPT ![c] = to],
         pc[c] # "writing", mode' = mode, handle' = handle,
         session' \in Cookie,
         NEW q \in Requests, request' = [request EXCEPT ![c] = q],
         NEW a \in Answers \cup {Nothing}, served' = [served EXCEPT ![c] = a],
         NEW r \in Results, result' = [result EXCEPT ![c] = r],
         curlhandler' \in [Instance -> InstanceRecord],
         \A i \in Instance :
           /\ curlhandler'[i].cookie \in {curlhandler[i].cookie, NoSession}
           /\ curlhandler'[i].status = curlhandler[i].status
           /\ curlhandler'[i].curl = curlhandler[i].curl
           /\ curlhandler'[i].post = curlhandler[i].post
           /\ curlhandler'[i].proto = curlhandler[i].proto
           /\ curlhandler'[i].fresh = curlhandler[i].fresh
           /\ curlhandler'[i].body = curlhandler[i].body,
         \A s : Mine(c, s)'
  PROVE  IInv' /\ (Lent => Lent') /\ \A d \in Client : Holding(d)' = Holding(d)
<1>1. TypeOK /\ Marks /\ Cleared /\ Own
  BY DEF IInv
<1>2. /\ pc'[c] = to
      /\ \A d \in Client : d # c => /\ pc'[d] = pc[d] /\ request'[d] = request[d]
                                    /\ served'[d] = served[d] /\ result'[d] = result[d]
  BY <1>1 DEF TypeOK
<1>3. \A d \in Client : Holding(d)' = Holding(d)
  BY <1>2 DEF Holding
<1>4. TypeOK'
  BY <1>1 DEF TypeOK, InstanceRecord, Results
<1>5. Marks'
  BY <1>1, <1>2, <1>3 DEF Marks
<1>6. Cleared'
  BY <1>1 DEF Cleared, Clean
<1>7. Own'
  <2>1. ASSUME NEW d \in Client, d # c
        PROVE  Mine(d, curlhandler[handle[d]])'
    <3>1. CASE Holding(d)
      <4>1. handle[d] \in Instance
        BY <1>1, <3>1 DEF Marks
      <4>2. QED
        BY <1>1, <1>2, <2>1, <4>1 DEF Own, Mine, Clean
    <3>2. CASE ~Holding(d)
      BY <1>1, <1>2, <2>1, <3>2 DEF Own, Mine, Holding
    <3>3. QED
      BY <3>1, <3>2
  <2>2. QED
    BY <2>1 DEF Own
<1>8. Lent => Lent'
  BY <1>2, <1>3 DEF Lent
<1>9. QED
  BY <1>3, <1>4, <1>5, <1>6, <1>7, <1>8 DEF IInv

\* The last assignment of close_file() takes at most a cookie away.
LEMMA CloseCookieStep ==
  ASSUME IInv, NEW c \in Client, CloseCookie(c)
  PROVE  IInv' /\ (Lent => Lent') /\ Quiet
<1>1. TypeOK /\ Own /\ ~Holding(c) /\ pc[c] = "released"
  BY DEF IInv, CloseCookie, Close, Holding
<1>2. /\ pc' = [pc EXCEPT ![c] = "returned"]
      /\ curlhandler' = [curlhandler EXCEPT ![handle[c]] =
                           [curlhandler[handle[c]] EXCEPT !.cookie = NoSession]]
      /\ UNCHANGED <<session, handle, request, served, result, mode>>
  BY DEF CloseCookie, Close
<1>3. \A i \in Instance : curlhandler[i] \in InstanceRecord
  BY <1>1 DEF TypeOK, InstanceRecord
<1>4. ASSUME NEW i \in Instance
      PROVE  /\ curlhandler'[i] \in InstanceRecord
             /\ curlhandler'[i].cookie \in {curlhandler[i].cookie, NoSession}
             /\ curlhandler'[i].status = curlhandler[i].status
             /\ curlhandler'[i].curl = curlhandler[i].curl
             /\ curlhandler'[i].post = curlhandler[i].post
             /\ curlhandler'[i].proto = curlhandler[i].proto
             /\ curlhandler'[i].fresh = curlhandler[i].fresh
             /\ curlhandler'[i].body = curlhandler[i].body
  <2>1. CASE i = handle[c]
    <3>1. curlhandler'[i] = [curlhandler[i] EXCEPT !.cookie = NoSession]
      BY <2>1, <1>1, <1>2 DEF TypeOK
    <3>2. QED
      BY <3>1, <1>3 DEF InstanceRecord, Cookie
  <2>2. CASE i # handle[c]
    <3>1. curlhandler'[i] = curlhandler[i]
      BY <2>2, <1>1, <1>2 DEF TypeOK
    <3>2. QED
      BY <3>1, <1>3
  <2>3. QED
    BY <2>1, <2>2
<1>5. curlhandler' \in [Instance -> InstanceRecord]
  BY <1>1, <1>2, <1>4 DEF TypeOK
<1>6. /\ request' = [request EXCEPT ![c] = request[c]] /\ request[c] \in Requests
      /\ served' = [served EXCEPT ![c] = served[c]] /\ served[c] \in Answers \cup {Nothing}
      /\ result' = [result EXCEPT ![c] = result[c]] /\ result[c] \in Results
      /\ session' \in Cookie
  BY <1>1, <1>2 DEF TypeOK, Results
<1>7. pc'[c] = "returned"
  BY <1>1, <1>2 DEF TypeOK
<1>8. \A s : Mine(c, s)'
  BY <1>1, <1>2, <1>7 DEF Own, Mine
<1>9. IInv' /\ (Lent => Lent') /\ \A d \in Client : Holding(d)' = Holding(d)
  BY <1>1, <1>2, <1>4, <1>5, <1>6, <1>8, AwayStep
<1>10. QED
  BY <1>1, <1>2, <1>9 DEF Quiet, TypeOK

\* HttpRequest() returns.
LEMMA ReturnStep ==
  ASSUME IInv, NEW c \in Client, Return(c)
  PROVE  IInv' /\ (Lent => Lent') /\ Quiet
<1>1. TypeOK /\ Own /\ ~Holding(c) /\ pc[c] = "returned"
  BY DEF IInv, Return, Holding
<1>2. /\ pc' = [pc EXCEPT ![c] = "idle"]
      /\ request' = [request EXCEPT ![c] = NoRequest]
      /\ served' = [served EXCEPT ![c] = Nothing]
      /\ result' = [result EXCEPT ![c] = NoResult]
      /\ UNCHANGED <<curlhandler, handle, mode>>
  BY DEF Return
<1>3. session' \in Cookie
  BY <1>1 DEF Return, TypeOK
<1>4. NoRequest \in Requests /\ NoResult \in Results
  BY DEF NoRequest, NoResult, Requests, Results, Cookie, Code, Bodies
<1>5. curlhandler' \in [Instance -> InstanceRecord]
  BY <1>1, <1>2 DEF TypeOK, InstanceRecord
<1>6. pc'[c] = "idle" /\ served'[c] = Nothing
  BY <1>1, <1>2 DEF TypeOK
<1>7. \A s : Mine(c, s)'
  BY <1>6 DEF Mine
<1>8. IInv' /\ (Lent => Lent') /\ \A d \in Client : Holding(d)' = Holding(d)
  BY <1>1, <1>2, <1>3, <1>4, <1>5, <1>7, AwayStep
<1>9. QED
  BY <1>1, <1>2, <1>8 DEF Quiet, TypeOK

\* A thread that is turned away while all instances are busy.
LEMMA RefuseStep ==
  ASSUME IInv, NEW c \in Client, Refuse(c)
  PROVE  /\ IInv' /\ (Lent => Lent')
         /\ Closed = {} /\ pc[c] \in {"idle", "refused"}
         /\ pc' = [pc EXCEPT ![c] = "refused"]
         /\ handle' = handle /\ mode' = mode
         /\ \A d \in Client : Holding(d)' = Holding(d)
<1>1. TypeOK /\ Own /\ ~Holding(c) /\ pc[c] \in {"idle", "refused"} /\ Closed = {}
  BY DEF IInv, Refuse, Free, Holding
<1>2. /\ pc' = [pc EXCEPT ![c] = "refused"]
      /\ UNCHANGED <<curlhandler, session, handle, request, served, result, mode>>
  BY DEF Refuse
<1>3. curlhandler' \in [Instance -> InstanceRecord]
  BY <1>1, <1>2 DEF TypeOK, InstanceRecord
<1>4. /\ request' = [request EXCEPT ![c] = request[c]] /\ request[c] \in Requests
      /\ served' = [served EXCEPT ![c] = served[c]] /\ served[c] \in Answers \cup {Nothing}
      /\ result' = [result EXCEPT ![c] = result[c]] /\ result[c] \in Results
      /\ session' \in Cookie
  BY <1>1, <1>2 DEF TypeOK, Results
<1>5. pc'[c] = "refused" /\ served'[c] = Nothing
  BY <1>1, <1>2 DEF TypeOK, Own, Mine
<1>6. \A s : Mine(c, s)'
  BY <1>5 DEF Mine
<1>7. IInv' /\ (Lent => Lent') /\ \A d \in Client : Holding(d)' = Holding(d)
  BY <1>1, <1>2, <1>3, <1>4, <1>6, AwayStep
<1>8. QED
  BY <1>1, <1>2, <1>7

-----------------------------------------------------------------------------
(* Files.                                                                  *)

\* The end of the process leaves nothing to keep.
LEMMA DieStep ==
  ASSUME IInv, Die
  PROVE  IInv' /\ mode' = mode
<1>1. /\ pc' = [d \in Client |-> "down"]
      /\ UNCHANGED <<curlhandler, session, handle, request, served, result, mode>>
  BY DEF Die
<1>2. \A d \in Client : ~Holding(d)' /\ pc'[d] = "down"
  BY <1>1 DEF Holding
<1>3. QED
  BY <1>1, <1>2 DEF IInv, TypeOK, Marks, Cleared, Own, Mine

\* A file is opened in an instance that stays available.
LEMMA OpenFileStep ==
  ASSUME IInv, NEW c \in Client, OpenFileForWrite(c)
  PROVE  IInv' /\ ~http /\ ~http'
<1>1. TypeOK /\ Marks /\ Cleared /\ Own /\ ~Holding(c)
  BY DEF IInv, OpenFileForWrite, Free, Holding
<1>2. PICK i \in Instance, opened \in BOOLEAN :
        /\ Got(i)
        /\ handle' = [handle EXCEPT ![c] = i]
        /\ curlhandler' = [curlhandler EXCEPT ![i].curl = "file", ![i].fp = opened]
  BY DEF OpenFileForWrite
<1>3. /\ pc' = [pc EXCEPT ![c] = "writing"]
      /\ ~http /\ c \in FileClient /\ pc[c] \in {"idle", "refused"}
      /\ UNCHANGED <<session, request, served, result, mode>>
  BY DEF OpenFileForWrite, Free
<1> PICK s : s = [curlhandler[i] EXCEPT !.curl = "file", !.fp = opened]
  OBVIOUS
<1>4. curlhandler[i] \in InstanceRecord /\ curlhandler[i].status = "C_CLOSE"
  BY <1>1, <1>2 DEF TypeOK, InstanceRecord, Got, Closed
<1>5. s \in InstanceRecord /\ s.status = "C_CLOSE" /\ s.curl = "file" /\ Clean(s)
  BY <1>1, <1>4 DEF InstanceRecord, Cleared, Clean
<1>6. curlhandler' = [curlhandler EXCEPT ![i] = s]
  BY <1>1, <1>2 DEF TypeOK
<1>7. /\ curlhandler'[i] = s
      /\ \A j \in Instance : j # i => curlhandler'[j] = curlhandler[j]
      /\ pc'[c] = "writing" /\ handle'[c] = i
      /\ \A d \in Client : d # c => pc'[d] = pc[d] /\ handle'[d] = handle[d]
  BY <1>1, <1>2, <1>3, <1>6 DEF TypeOK
<1>8. /\ \A d \in Client : Holding(d)' = Holding(d)
      /\ \A d \in Client : Holding(d) => handle[d] \in Instance /\ handle[d] # i /\ d # c
      /\ \A d \in Client : pc'[d] = "writing" => d = c
  BY <1>1, <1>3, <1>4, <1>7, OneFileClient DEF Holding, Marks
<1>9. TypeOK'
  BY <1>1, <1>2, <1>3, <1>5, <1>6 DEF TypeOK, InstanceRecord
<1>10. Marks'
  <2>1. \A d \in Client : Holding(d)' =>
          /\ handle'[d] \in Instance
          /\ curlhandler'[handle'[d]].status = "C_BUSY" /\ curlhandler'[handle'[d]].curl = "easy"
    BY <1>1, <1>7, <1>8 DEF Marks
  <2>2. \A d, e \in Client :
          Holding(d)' /\ Holding(e)' /\ handle'[d] = handle'[e] => d = e
    BY <1>1, <1>7, <1>8 DEF Marks
  <2>3. \A d \in Client : pc'[d] = "writing" =>
          /\ d \in FileClient /\ handle'[d] \in Instance
          /\ curlhandler'[handle'[d]].status = "C_CLOSE"
          /\ curlhandler'[handle'[d]].curl = "file"
    BY <1>3, <1>5, <1>7, <1>8
  <2>4. QED
    BY <2>1, <2>2, <2>3 DEF Marks
<1>11. Cleared'
  BY <1>1, <1>5, <1>7 DEF Cleared
<1>12. Own'
  <2>1. Mine(c, curlhandler[handle[c]])'
    BY <1>1, <1>3, <1>7 DEF Own, Mine
  <2>2. ASSUME NEW d \in Client, d # c
        PROVE  Mine(d, curlhandler[handle[d]])'
    <3>1. Holding(d) => curlhandler'[handle'[d]] = curlhandler[handle[d]]
      BY <1>7, <1>8, <2>2
    <3>2. QED
      BY <1>1, <1>3, <1>7, <2>2, <3>1 DEF Own, Mine, Holding
  <2>3. QED
    BY <2>1, <2>2 DEF Own
<1>13. QED
  BY <1>3, <1>9, <1>10, <1>11, <1>12 DEF IInv

\* A file is closed.
LEMMA CloseFileStep ==
  ASSUME IInv, NEW c \in Client, CloseFile(c)
  PROVE  IInv' /\ mode' = mode /\ pc[c] = "writing"
<1>1. TypeOK /\ Marks /\ Cleared /\ Own /\ pc[c] = "writing"
  BY DEF IInv, CloseFile
<1> DEFINE old == curlhandler[handle[c]]
<1>2. old \in InstanceRecord /\ handle[c] \in Instance /\ old.status = "C_CLOSE" /\ Clean(old)
  BY <1>1 DEF TypeOK, Marks, InstanceRecord, Cleared
<1> PICK s : s = [old EXCEPT !.fp = FALSE, !.curl = "null"]
  OBVIOUS
<1>3. /\ curlhandler' = [curlhandler EXCEPT ![handle[c]] = s]
      /\ pc' = [pc EXCEPT ![c] = "idle"]
      /\ UNCHANGED <<session, handle, request, served, result, mode>>
  BY DEF CloseFile
<1>4. s \in InstanceRecord /\ s.status = "C_CLOSE" /\ Clean(s)
  BY <1>2 DEF InstanceRecord, Clean
<1>5. /\ curlhandler'[handle[c]] = s
      /\ \A j \in Instance : j # handle[c] => curlhandler'[j] = curlhandler[j]
      /\ pc'[c] = "idle"
      /\ \A d \in Client : d # c => pc'[d] = pc[d]
  BY <1>1, <1>2, <1>3 DEF TypeOK
<1>6. /\ \A d \in Client : Holding(d)' = Holding(d)
      /\ \A d \in Client : Holding(d) => handle[d] \in Instance /\ handle[d] # handle[c] /\ d # c
      /\ \A d \in Client : pc'[d] # "writing"
  BY <1>1, <1>2, <1>5, OneFileClient DEF Holding, Marks
<1>7. TypeOK'
  BY <1>1, <1>3, <1>4 DEF TypeOK, InstanceRecord
<1>8. Marks'
  BY <1>1, <1>3, <1>5, <1>6 DEF Marks
<1>9. Cleared'
  BY <1>1, <1>4, <1>5 DEF Cleared
<1>10. Own'
  <2>1. Mine(c, curlhandler[handle[c]])'
    BY <1>1, <1>3, <1>5 DEF Own, Mine
  <2>2. ASSUME NEW d \in Client, d # c
        PROVE  Mine(d, curlhandler[handle[d]])'
    <3>1. Holding(d) => curlhandler'[handle[d]] = curlhandler[handle[d]]
      BY <1>5, <1>6, <2>2
    <3>2. QED
      BY <1>1, <1>3, <1>5, <2>2, <3>1 DEF Own, Mine, Holding
  <2>3. QED
    BY <2>1, <2>2 DEF Own
<1>11. QED
  BY <1>1, <1>3, <1>7, <1>8, <1>9, <1>10 DEF IInv

-----------------------------------------------------------------------------
(* The lease of each thread.                                               *)

LeaseOf(c) == IF http /\ Holding(c) THEN {handle[c]} ELSE {}
RefusedClients == {c \in Client : http /\ pc[c] = "refused"}

LeaseStutters ==
  /\ \A d \in Client : LeaseOf(d)' = LeaseOf(d)
  /\ RefusedClients' = RefusedClients

\* An instance is free when its status says so, and only then.
LEMMA HeldIs ==
  ASSUME http, IInv, Lent
  PROVE  /\ \A i \in Instance :
              i \in UNION {LeaseOf(c) : c \in Client}
                <=> curlhandler[i].status = "C_BUSY"
         /\ UNION {LeaseOf(c) : c \in Client} \subseteq Instance
<1>1. ASSUME NEW i \in Instance, curlhandler[i].status = "C_BUSY"
      PROVE  i \in UNION {LeaseOf(c) : c \in Client}
  BY <1>1 DEF Lent, LeaseOf
<1>2. ASSUME NEW i \in Instance, NEW c \in Client, i \in LeaseOf(c)
      PROVE  curlhandler[i].status = "C_BUSY"
  BY <1>2 DEF IInv, Marks, LeaseOf
<1>3. \A c \in Client : LeaseOf(c) \subseteq Instance
  BY DEF IInv, Marks, LeaseOf
<1>4. QED
  BY <1>1, <1>2, <1>3

\* curl_create() begins a lease.
LEMMA AcquireStep ==
  ASSUME http, IInv, Lent, NEW c \in Client, NEW page \in Page, CurlCreate(c, page)
  PROVE  \E i \in Instance : Lease!Acquire(c, i)
<1>1. TypeOK
  BY DEF IInv
<1>2. PICK i \in Closed : /\ handle' = [handle EXCEPT ![c] = i]
                          /\ pc' = [pc EXCEPT ![c] = "created"]
                          /\ mode' = mode
  BY CurlCreateStep
<1>3. i \in Instance /\ curlhandler[i].status # "C_BUSY"
  BY DEF Closed
<1>4. pc[c] \in {"idle", "refused"}
  BY DEF CurlCreate, Free
<1>5. LeaseOf(c) = {} /\ i \notin UNION {LeaseOf(d) : d \in Client}
  BY <1>3, <1>4, HeldIs DEF LeaseOf, Holding
<1>6. \A d \in Client : LeaseOf(d)' = IF d = c THEN {i} ELSE LeaseOf(d)
  BY <1>1, <1>2, <1>4 DEF TypeOK, LeaseOf, Holding
<1>7. [d \in Client |-> LeaseOf(d)'] = [[d \in Client |-> LeaseOf(d)] EXCEPT ![c] = {i}]
  BY <1>6
<1>8. RefusedClients' = RefusedClients \ {c}
  BY <1>1, <1>2, <1>4 DEF TypeOK, RefusedClients
<1>9. QED
  BY <1>3, <1>5, <1>7, <1>8
  DEF Lease!Acquire, Lease!Held, LeaseOf, RefusedClients

\* close_file() ends it.
LEMMA ReleaseStep ==
  ASSUME http, IInv, NEW c \in Client, CloseRelease(c)
  PROVE  Lease!Release(c)
<1>1. TypeOK
  BY DEF IInv
<1>2. /\ Holding(c) /\ pc' = [pc EXCEPT ![c] = "released"]
      /\ handle' = handle /\ mode' = mode
  BY CloseReleaseStep
<1>3. LeaseOf(c) # {}
  BY <1>2 DEF LeaseOf
<1>4. \A d \in Client : LeaseOf(d)' = IF d = c THEN {} ELSE LeaseOf(d)
  BY <1>1, <1>2 DEF TypeOK, LeaseOf, Holding
<1>5. [d \in Client |-> LeaseOf(d)'] = [[d \in Client |-> LeaseOf(d)] EXCEPT ![c] = {}]
  BY <1>4
<1>6. RefusedClients' = RefusedClients
  BY <1>1, <1>2 DEF TypeOK, RefusedClients, Holding
<1>7. QED
  BY <1>3, <1>5, <1>6 DEF Lease!Release, LeaseOf, RefusedClients

\* A thread is turned away only while all instances are lent.
LEMMA TurnedAway ==
  ASSUME http, IInv, Lent, NEW c \in Client, Refuse(c)
  PROVE  Lease!Refuse(c)
<1>1. TypeOK
  BY DEF IInv
<1>2. /\ Closed = {} /\ pc[c] \in {"idle", "refused"}
      /\ pc' = [pc EXCEPT ![c] = "refused"]
      /\ handle' = handle /\ mode' = mode
      /\ \A d \in Client : Holding(d)' = Holding(d)
  BY RefuseStep
<1>3. \A i \in Instance : curlhandler[i].status = "C_BUSY"
  BY <1>1, <1>2 DEF TypeOK, Closed
<1>4. UNION {LeaseOf(d) : d \in Client} = Instance
  BY <1>3, HeldIs
<1>5. LeaseOf(c) = {}
  BY <1>2 DEF LeaseOf, Holding
<1>6. [d \in Client |-> LeaseOf(d)'] = [d \in Client |-> LeaseOf(d)]
  BY <1>2 DEF LeaseOf
<1>7. RefusedClients' = RefusedClients \cup {c}
  BY <1>1, <1>2 DEF TypeOK, RefusedClients
<1>8. QED
  BY <1>4, <1>5, <1>6, <1>7 DEF Lease!Refuse, Lease!Held, LeaseOf, RefusedClients

-----------------------------------------------------------------------------
(* Every step.                                                             *)

\* No step changes whether there are files and memory.
LEMMA SameMode == [Next]_vars => mode' = mode
BY DEF Next, Step, vars, CurlCreate, CurlCreateOnFile, Refuse, OpenFileForWrite,
       CurlAddOptions, CurlOpen, ReadResponse, CloseRelease, CloseCookie, Close,
       Return, CloseFile, CloseNoFile, Die

\* Every step keeps the invariant.
LEMMA NextStep ==
  ASSUME IInv, Lent, [Next]_vars
  PROVE  IInv' /\ Lent' /\ (http => Lease!Next \/ LeaseStutters)
<1>1. ASSUME Quiet PROVE LeaseStutters
  BY <1>1 DEF Quiet, LeaseStutters, LeaseOf, RefusedClients
<1>2. ASSUME NEW c \in Client, NEW page \in Page, CurlCreate(c, page)
      PROVE  IInv' /\ Lent' /\ (http => Lease!Next)
  BY <1>2, CurlCreateStep, AcquireStep DEF Lease!Next
<1>3. ASSUME NEW c \in Client, Refuse(c)
      PROVE  IInv' /\ Lent' /\ (http => Lease!Next)
  BY <1>3, RefuseStep, TurnedAway DEF Lease!Next
<1>4. ASSUME NEW c \in Client, CurlCreateOnFile(c) \/ CloseNoFile(c)
      PROVE  IInv' /\ Lent' /\ ~http
  <2>1. Die
    BY <1>4 DEF CurlCreateOnFile, CloseNoFile
  <2>2. ~http
    BY <1>4 DEF CurlCreateOnFile, CloseNoFile, Lent
  <2>3. QED
    BY <2>1, <2>2, DieStep DEF Lent
<1>5. ASSUME NEW c \in Client, OpenFileForWrite(c)
      PROVE  IInv' /\ Lent' /\ ~http
  BY <1>5, OpenFileStep DEF Lent
<1>6. ASSUME NEW c \in Client, CloseFile(c)
      PROVE  IInv' /\ Lent' /\ ~http
  BY <1>6, CloseFileStep DEF Lent
<1>7. ASSUME NEW c \in Client,
             CurlAddOptions(c) \/ CurlOpen(c) \/ ReadResponse(c)
               \/ CloseCookie(c) \/ Return(c)
      PROVE  IInv' /\ Lent' /\ LeaseStutters
  BY <1>1, <1>7, CurlAddOptionsStep, CurlOpenStep, ReadResponseStep,
     CloseCookieStep, ReturnStep
<1>8. ASSUME NEW c \in Client, CloseRelease(c)
      PROVE  IInv' /\ Lent' /\ (http => Lease!Next)
  BY <1>8, CloseReleaseStep, ReleaseStep DEF Lease!Next
<1>9. ASSUME UNCHANGED vars
      PROVE  IInv' /\ Lent' /\ LeaseStutters
  <2>1. UNCHANGED <<curlhandler, session, pc, handle, request, served, result, mode>>
    BY <1>9 DEF vars, threadVars
  <2>2. IInv'
    BY <2>1 DEF IInv, TypeOK, Marks, Cleared, Clean, Own, Mine, Holding
  <2>3. Lent' /\ LeaseStutters
    BY <2>1 DEF Lent, LeaseStutters, LeaseOf, RefusedClients, Holding
  <2>4. QED
    BY <2>2, <2>3
<1>10. QED
  BY <1>2, <1>3, <1>4, <1>5, <1>6, <1>7, <1>8, <1>9 DEF Next, Step

(* At all times the status of every instance agrees with who was given it, *)
(* no two threads were given the same, an instance that is available is    *)
(* clean, and what is in the others is of the request that has them.       *)
THEOREM HttpInvariant == Spec => [](mode # "scarce" => IInv /\ Lent)
<1>1. Init => (mode # "scarce" => IInv /\ Lent)
  BY InitIInv
<1>2. (mode # "scarce" => IInv /\ Lent) /\ [Next]_vars => (mode # "scarce" => IInv /\ Lent)'
  BY NextStep, SameMode
<1>3. QED
  BY <1>1, <1>2, PTL DEF Spec

\* A thread that is at work works on one of the instances.
AtWork(c) ==
  pc[c] \in {"created", "performing", "opened", "read", "released", "writing"}
TInv == TypeOK /\ \A c \in Client : AtWork(c) => handle[c] \in Instance

\* A step of a thread that works on its instance, and what may be in that.
LEMMA WorkTyped ==
  ASSUME TInv, NEW c \in Client, handle[c] \in Instance,
         NEW s \in InstanceRecord, curlhandler' = [curlhandler EXCEPT ![handle[c]] = s],
         NEW to \in {"idle", "performing", "opened", "read", "released", "returned"},
         pc' = [pc EXCEPT ![c] = to],
         NEW a \in Answers \cup {Nothing}, served' = [served EXCEPT ![c] = a],
         NEW r \in Results, result' = [result EXCEPT ![c] = r],
         UNCHANGED <<session, handle, request, mode>>
  PROVE  TInv'
BY DEF TInv, TypeOK, InstanceRecord, Results, AtWork

\* curl_create() and open_file_for_write() give a thread an instance.
LEMMA GivenTyped ==
  ASSUME TInv, NEW c \in Client, NEW i \in Instance, handle' = [handle EXCEPT ![c] = i],
         NEW s \in InstanceRecord, curlhandler' = [curlhandler EXCEPT ![i] = s],
         NEW to \in {"created", "writing"}, pc' = [pc EXCEPT ![c] = to],
         NEW q \in Requests, request' = [request EXCEPT ![c] = q],
         UNCHANGED <<session, served, result, mode>>
  PROVE  TInv'
BY DEF TInv, TypeOK, InstanceRecord, AtWork

\* Whether memory is scarce or not.
LEMMA NextTyped ==
  ASSUME TInv, [Next]_vars
  PROVE  TInv'
<1>1. /\ \A i \in Instance : curlhandler[i] \in InstanceRecord
      /\ \A c \in Client : /\ request[c] \in Requests /\ result[c] \in Results
                           /\ served[c] \in Answers \cup {Nothing}
  BY DEF TInv, TypeOK, InstanceRecord, Results
<1>2. \A c \in Client :
        /\ request' = request => request' = [request EXCEPT ![c] = request[c]]
        /\ result' = result => result' = [result EXCEPT ![c] = result[c]]
        /\ served' = served => served' = [served EXCEPT ![c] = served[c]]
  BY DEF TInv, TypeOK
<1>3. ASSUME NEW c \in Client, NEW page \in Page, CurlCreate(c, page) PROVE TInv'
  <2>1. PICK i \in Instance :
          /\ handle' = [handle EXCEPT ![c] = i]
          /\ \/ curlhandler' = [curlhandler EXCEPT ![i].curl = "easy", ![i].body = Nothing,
                                   ![i].fp = FALSE, ![i].status = "C_BUSY"]
             \/ UNCHANGED curlhandler
    BY <1>3 DEF CurlCreate
  <2>2. \E s \in InstanceRecord : curlhandler' = [curlhandler EXCEPT ![i] = s]
    <3>1. CASE UNCHANGED curlhandler
      BY <1>1, <3>1 DEF TInv, TypeOK
    <3>2. CASE curlhandler' = [curlhandler EXCEPT ![i].curl = "easy", ![i].body = Nothing,
                                 ![i].fp = FALSE, ![i].status = "C_BUSY"]
      <4> DEFINE s == [curlhandler[i] EXCEPT !.curl = "easy", !.body = Nothing,
                                             !.fp = FALSE, !.status = "C_BUSY"]
      <4>1. s \in InstanceRecord
        BY <1>1 DEF InstanceRecord, Bodies
      <4>2. curlhandler' = [curlhandler EXCEPT ![i] = s]
        BY <3>2 DEF TInv, TypeOK
      <4> HIDE DEF s
      <4>3. QED
        BY <4>1, <4>2
    <3>3. QED
      BY <2>1, <3>1, <3>2
  <2>3. [page |-> page, cookie |-> session] \in Requests
    BY DEF TInv, TypeOK, Requests, Bodies
  <2>4. /\ pc' = [pc EXCEPT ![c] = "created"]
        /\ request' = [request EXCEPT ![c] = [page |-> page, cookie |-> session]]
        /\ UNCHANGED <<session, served, result, mode>>
    BY <1>3 DEF CurlCreate, Ask
  <2>5. QED
    BY <2>1, <2>2, <2>3, <2>4, GivenTyped
<1>4. ASSUME NEW c \in Client, OpenFileForWrite(c) PROVE TInv'
  <2>1. PICK i \in Instance, opened \in BOOLEAN :
          /\ handle' = [handle EXCEPT ![c] = i]
          /\ curlhandler' = [curlhandler EXCEPT ![i].curl = "file", ![i].fp = opened]
    BY <1>4 DEF OpenFileForWrite
  <2> PICK s : s = [curlhandler[i] EXCEPT !.curl = "file", !.fp = opened]
    OBVIOUS
  <2>2. s \in InstanceRecord
    BY <1>1 DEF InstanceRecord
  <2>3. curlhandler' = [curlhandler EXCEPT ![i] = s]
    BY <2>1 DEF TInv, TypeOK
  <2>4. /\ pc' = [pc EXCEPT ![c] = "writing"]
        /\ UNCHANGED <<session, request, served, result, mode>>
    BY <1>4 DEF OpenFileForWrite
  <2>5. request' = [request EXCEPT ![c] = request[c]] /\ request[c] \in Requests
    BY <1>1, <1>2, <2>4
  <2>6. pc' = [pc EXCEPT ![c] = "writing"] /\ UNCHANGED <<session, served, result, mode>>
    BY <2>4
  <2> PICK q \in Requests : q = request[c]
    BY <2>5
  <2>7. request' = [request EXCEPT ![c] = q]
    BY <2>5
  <2>8. handle' = [handle EXCEPT ![c] = i]
    BY <2>1
  <2>9. QED
    BY <2>2, <2>3, <2>6, <2>7, <2>8, GivenTyped
<1>5. ASSUME NEW c \in Client, CurlAddOptions(c) PROVE TInv'
  <2> DEFINE old == curlhandler[handle[c]]
  <2>1. handle[c] \in Instance /\ old \in InstanceRecord /\ request[c].cookie \in Cookie
    BY <1>1, <1>5 DEF CurlAddOptions, TInv, AtWork, Requests
  <2> PICK posts \in BOOLEAN : posts = (old.post \/ request[c].page \in Posted)
    OBVIOUS
  <2> PICK s : s = [old EXCEPT !.post = posts, !.cookie = request[c].cookie]
    OBVIOUS
  <2>2. s \in InstanceRecord
    BY <2>1 DEF InstanceRecord
  <2>3. /\ curlhandler' = [curlhandler EXCEPT ![handle[c]] = s]
        /\ pc' = [pc EXCEPT ![c] = "performing"]
        /\ UNCHANGED <<session, handle, request, served, result, mode>>
    BY <1>5, <2>1 DEF CurlAddOptions, TInv, TypeOK
  <2>4. QED
    BY <1>1, <1>2, <2>1, <2>2, <2>3, WorkTyped
<1>6. ASSUME NEW c \in Client, CurlOpen(c) PROVE TInv'
  <2> DEFINE old == curlhandler[handle[c]]
  <2>1. handle[c] \in Instance /\ old \in InstanceRecord /\ request[c].page \in Bodies
    BY <1>1, <1>6 DEF CurlOpen, TInv, AtWork, Requests
  <2>2. /\ pc' = [pc EXCEPT ![c] = "opened"]
        /\ UNCHANGED <<session, handle, request, result, mode>>
    BY <1>6 DEF CurlOpen
  <2>3. \E s \in InstanceRecord, a \in Answers \cup {Nothing} :
          /\ curlhandler' = [curlhandler EXCEPT ![handle[c]] = s]
          /\ served' = [served EXCEPT ![c] = a]
    <3>1. CASE UNCHANGED <<curlhandler, served>>
      BY <1>1, <1>2, <2>1, <3>1 DEF TInv, TypeOK
    <3>2. CASE curlhandler' = [curlhandler EXCEPT ![handle[c]].post = FALSE] /\ UNCHANGED served
      <4> PICK s : s = [old EXCEPT !.post = FALSE]
        OBVIOUS
      <4>1. s \in InstanceRecord /\ curlhandler' = [curlhandler EXCEPT ![handle[c]] = s]
        BY <2>1, <3>2 DEF InstanceRecord, TInv, TypeOK
      <4>2. QED
        BY <1>1, <1>2, <3>2, <4>1
    <3>3. ASSUME NEW code \in {"ok", "denied"}, NEW fresh \in Cookie,
                 NEW body \in {Nothing, request[c].page},
                 curlhandler' = [curlhandler EXCEPT ![handle[c]] =
                   [old EXCEPT !.post = FALSE, !.proto = code, !.fresh = fresh,
                               !.body = body]],
                 served' = [served EXCEPT ![c] =
                   [code |-> code, fresh |-> fresh, post |-> old.post,
                    cookie |-> old.cookie]]
          PROVE  \E s \in InstanceRecord, a \in Answers \cup {Nothing} :
                   /\ curlhandler' = [curlhandler EXCEPT ![handle[c]] = s]
                   /\ served' = [served EXCEPT ![c] = a]
      <4> PICK s, a :
            /\ s = [old EXCEPT !.post = FALSE, !.proto = code, !.fresh = fresh,
                               !.body = body]
            /\ a = [code |-> code, fresh |-> fresh, post |-> old.post,
                    cookie |-> old.cookie]
        OBVIOUS
      <4>1. s \in InstanceRecord
        BY <2>1 DEF InstanceRecord, Code, Bodies
      <4>2. a \in Answers
        BY <2>1 DEF Answers, InstanceRecord
      <4>3. QED
        BY <3>3, <4>1, <4>2
    <3>4. QED
      BY <1>6, <3>1, <3>2, <3>3 DEF CurlOpen
  <2>4. QED
    BY <1>1, <1>2, <2>1, <2>2, <2>3, WorkTyped
<1>7. ASSUME NEW c \in Client, ReadResponse(c) PROVE TInv'
  <2> DEFINE old == curlhandler[handle[c]]
  <2>1. handle[c] \in Instance /\ old \in InstanceRecord
    BY <1>1, <1>7 DEF ReadResponse, TInv, AtWork
  <2>2. PICK code \in IF old.proto = "none" THEN Code ELSE {old.proto} :
          result' = [result EXCEPT ![c] =
            IF code = "ok" THEN [status |-> code, fresh |-> old.fresh, body |-> old.body]
            ELSE [status |-> code, fresh |-> NoSession, body |-> Nothing]]
    BY <1>7 DEF ReadResponse
  <2> PICK r :
        r = IF code = "ok" THEN [status |-> code, fresh |-> old.fresh, body |-> old.body]
            ELSE [status |-> code, fresh |-> NoSession, body |-> Nothing]
    OBVIOUS
  <2>3. r \in Results
    BY <2>1 DEF Results, InstanceRecord, Code, Cookie, Bodies
  <2>4. /\ pc' = [pc EXCEPT ![c] = "read"] /\ result' = [result EXCEPT ![c] = r]
        /\ UNCHANGED <<curlhandler, session, handle, request, served, mode>>
    BY <1>7, <2>2 DEF ReadResponse
  <2> PICK s : s = old
    OBVIOUS
  <2>5. curlhandler' = [curlhandler EXCEPT ![handle[c]] = s]
    BY <2>1, <2>4 DEF TInv, TypeOK
  <2>6. QED
    BY <1>1, <1>2, <2>1, <2>3, <2>4, <2>5, WorkTyped
<1>8. ASSUME NEW c \in Client, CloseRelease(c) PROVE TInv'
  <2> DEFINE old == curlhandler[handle[c]]
  <2>1. handle[c] \in Instance /\ old \in InstanceRecord
    BY <1>1, <1>8 DEF CloseRelease, Close, TInv, AtWork
  <2> PICK s : s = [old EXCEPT !.curl = "null", !.body = Nothing,
                               !.fresh = NoSession, !.status = "C_CLOSE"]
    OBVIOUS
  <2>2. s \in InstanceRecord
    BY <2>1 DEF InstanceRecord, Cookie, Bodies
  <2>3. /\ curlhandler' = [curlhandler EXCEPT ![handle[c]] = s]
        /\ pc' = [pc EXCEPT ![c] = "released"]
        /\ UNCHANGED <<session, handle, request, served, result, mode>>
    BY <1>8 DEF CloseRelease, Close
  <2>4. QED
    BY <1>1, <1>2, <2>1, <2>2, <2>3, WorkTyped
<1>9. ASSUME NEW c \in Client, CloseCookie(c) PROVE TInv'
  <2> DEFINE old == curlhandler[handle[c]]
  <2>1. handle[c] \in Instance /\ old \in InstanceRecord
    BY <1>1, <1>9 DEF CloseCookie, Close, TInv, AtWork
  <2> PICK s : s = [old EXCEPT !.cookie = NoSession]
    OBVIOUS
  <2>2. s \in InstanceRecord
    BY <2>1 DEF InstanceRecord, Cookie
  <2>3. /\ curlhandler' = [curlhandler EXCEPT ![handle[c]] = s]
        /\ pc' = [pc EXCEPT ![c] = "returned"]
        /\ UNCHANGED <<session, handle, request, served, result, mode>>
    BY <1>9 DEF CloseCookie, Close
  <2>4. QED
    BY <1>1, <1>2, <2>1, <2>2, <2>3, WorkTyped
<1>10. ASSUME NEW c \in Client, CloseFile(c) PROVE TInv'
  <2> DEFINE old == curlhandler[handle[c]]
  <2>1. handle[c] \in Instance /\ old \in InstanceRecord
    BY <1>1, <1>10 DEF CloseFile, TInv, AtWork
  <2> PICK s : s = [old EXCEPT !.fp = FALSE, !.curl = "null"]
    OBVIOUS
  <2>2. s \in InstanceRecord
    BY <2>1 DEF InstanceRecord
  <2>3. /\ curlhandler' = [curlhandler EXCEPT ![handle[c]] = s]
        /\ pc' = [pc EXCEPT ![c] = "idle"]
        /\ UNCHANGED <<session, handle, request, served, result, mode>>
    BY <1>10 DEF CloseFile
  <2>4. QED
    BY <1>1, <1>2, <2>1, <2>2, <2>3, WorkTyped
<1>11. ASSUME NEW c \in Client, Return(c) PROVE TInv'
  <2>1. NoRequest \in Requests /\ NoResult \in Results
    BY DEF NoRequest, NoResult, Requests, Results, Cookie, Code, Bodies
  <2>2. session' \in Cookie
    BY <1>1, <1>11 DEF Return, TInv, TypeOK, Results
  <2>3. QED
    BY <1>11, <2>1, <2>2 DEF Return, TInv, TypeOK, Results, AtWork
<1>12. ASSUME NEW c \in Client, Refuse(c) PROVE TInv'
  BY <1>12 DEF Refuse, TInv, TypeOK, AtWork
<1>13. ASSUME Die PROVE TInv'
  BY <1>13 DEF Die, TInv, TypeOK, AtWork
<1>14. CASE UNCHANGED vars
  BY <1>14 DEF vars, threadVars, TInv, TypeOK, AtWork
<1>15. QED
  BY <1>3, <1>4, <1>5, <1>6, <1>7, <1>8, <1>9, <1>10, <1>11, <1>12, <1>13, <1>14
  DEF Next, Step, CurlCreateOnFile, CloseNoFile

(* The variables have their types, also while curl_easy_init() fails and   *)
(* threads share an instance: every handle is one of curlhandler[].        *)
THEOREM TypeCorrect == Spec => []TypeOK
<1>1. Init => TInv
  <2>1. NewInstance \in InstanceRecord
    BY DEF NewInstance, InstanceRecord, Cookie, Code, Bodies
  <2>2. NoRequest \in Requests /\ NoResult \in Results
    BY DEF NoRequest, NoResult, Requests, Results, Cookie, Code, Bodies
  <2>3. QED
    BY <2>1, <2>2 DEF Init, TInv, TypeOK, InstanceRecord, Results, AtWork
<1>2. TInv /\ [Next]_vars => TInv'
  BY NextTyped
<1>3. TInv => TypeOK
  BY DEF TInv
<1>4. QED
  BY <1>1, <1>2, <1>3, PTL DEF Spec

(* A thread gets the answer to its own request, although the first line of *)
(* an answer stays in the instance for the next one.                       *)
THEOREM AnswersAreOwn == Spec => []OwnAnswer
<1>1. (mode # "scarce" => IInv /\ Lent) => OwnAnswer
  BY DEF IInv, Own, Mine, OwnAnswer
<1>2. QED
  BY <1>1, HttpInvariant, PTL

(* The servers see what was meant, although a late close_file() writes to  *)
(* an instance that another thread has by then.                            *)
THEOREM RequestsAreOwn == Spec => []SeenAsMeant
<1>1. (mode # "scarce" => IInv /\ Lent) => SeenAsMeant
  BY DEF IInv, Own, Mine, SeenAsMeant
<1>2. QED
  BY <1>1, HttpInvariant, PTL

(* The session is changed only to one that the servers gave in the answer  *)
(* to the request that returns.                                            *)
THEOREM SessionsAreGiven == Spec => SessionWasGiven
<1>1. (mode # "scarce" => IInv /\ Lent) /\ [Next]_vars =>
        [mode # "scarce" /\ session' # session =>
           \E c \in Client : /\ pc[c] = "returned" /\ served[c] # Nothing
                             /\ served[c].code = "ok"
                             /\ served[c].fresh = session']_vars
  <2> SUFFICES ASSUME IInv, Next, session' # session
               PROVE  \E c \in Client : /\ pc[c] = "returned" /\ served[c] # Nothing
                                        /\ served[c].code = "ok"
                                        /\ served[c].fresh = session'
    BY DEF vars
  <2>1. PICK c \in Client : Return(c)
    BY DEF Next, Step, CurlCreate, CurlCreateOnFile, Refuse, OpenFileForWrite,
           CurlAddOptions, CurlOpen, ReadResponse, CloseRelease, CloseCookie,
           Close, CloseFile, CloseNoFile, Die
  <2>2. pc[c] = "returned" /\ result[c].fresh # NoSession /\ session' = result[c].fresh
    BY <2>1 DEF Return
  <2>3. Mine(c, curlhandler[handle[c]])
    BY DEF IInv, Own
  <2>4. QED
    BY <2>2, <2>3 DEF Mine
<1>2. QED
  BY <1>1, HttpInvariant, PTL DEF Spec, SessionWasGiven

(* While no files are written, curl_create() and close_file() implement a  *)
(* pool that lends each instance to one thread at a time and refuses only  *)
(* when all are lent.                                                      *)
THEOREM LeasePoolRefinement == Spec => IsLeasePool
<1>1. Init => Lease!Init
  BY DEF Init, Lease!Init, Holding
<1>2. (mode # "scarce" => IInv /\ Lent) /\ [Next]_vars => [Lease!Next]_(Lease!vars)
  <2> SUFFICES ASSUME mode # "scarce" => IInv /\ Lent, [Next]_vars
               PROVE  [Lease!Next]_(Lease!vars)
    OBVIOUS
  <2>1. ASSUME LeaseStutters
        PROVE  UNCHANGED Lease!vars
    <3>1. [d \in Client |-> LeaseOf(d)'] = [d \in Client |-> LeaseOf(d)]
      BY <2>1 DEF LeaseStutters
    <3>2. RefusedClients' = RefusedClients
      BY <2>1 DEF LeaseStutters
    <3>3. QED
      BY <3>1, <3>2 DEF Lease!vars, LeaseOf, RefusedClients
  <2>2. CASE http
    BY <2>1, <2>2, NextStep
  <2>3. CASE ~http
    <3>1. LeaseStutters
      BY <2>3, SameMode DEF LeaseStutters, LeaseOf, RefusedClients
    <3>2. QED
      BY <2>1, <3>1
  <2>4. QED
    BY <2>2, <2>3
<1>3. QED
  BY <1>1, <1>2, HttpInvariant, PTL DEF Spec, IsLeasePool, Lease!Spec

\* A step of the pool lends no instance twice.
LEMMA ExclusiveStep ==
  Lease!Exclusive /\ [Lease!Next]_(Lease!vars) => Lease!Exclusive'
<1> DEFINE lease == [c \in Client |-> IF http /\ Holding(c) THEN {handle[c]} ELSE {}]
<1> SUFFICES ASSUME Lease!Exclusive, [Lease!Next]_(Lease!vars)
             PROVE  Lease!Exclusive'
  OBVIOUS
<1>1. DOMAIN lease = Client
  OBVIOUS
<1>2. \A c, d \in Client : c # d => lease[c] \cap lease[d] = {}
  BY DEF Lease!Exclusive
<1>3. SUFFICES \A c, d \in Client : c # d => lease'[c] \cap lease'[d] = {}
  BY DEF Lease!Exclusive
<1>4. ASSUME NEW c \in Client, NEW i \in Instance, Lease!Acquire(c, i)
      PROVE  \A d, e \in Client : d # e => lease'[d] \cap lease'[e] = {}
  <2>1. lease' = [lease EXCEPT ![c] = {i}] /\ i \notin UNION {lease[d] : d \in Client}
    BY <1>4 DEF Lease!Acquire, Lease!Held
  <2> HIDE DEF lease
  <2>2. \A d \in Client : i \notin lease[d]
    BY <2>1
  <2>3. QED
    BY <1>1, <1>2, <2>1, <2>2
<1>5. ASSUME NEW c \in Client, Lease!Release(c)
      PROVE  \A d, e \in Client : d # e => lease'[d] \cap lease'[e] = {}
  <2>1. lease' = [lease EXCEPT ![c] = {}]
    BY <1>5 DEF Lease!Release
  <2> HIDE DEF lease
  <2>2. QED
    BY <1>1, <1>2, <2>1
<1>6. ASSUME lease' = lease
      PROVE  \A d, e \in Client : d # e => lease'[d] \cap lease'[e] = {}
  <2> HIDE DEF lease
  <2>1. QED
    BY <1>2, <1>6
<1>7. QED
  BY <1>4, <1>5, <1>6 DEF Lease!Next, Lease!Refuse, Lease!vars

(* No two threads hold the same instance of curlhandler[], however many    *)
(* they are, while none writes files.                                      *)
THEOREM LentOnce == Spec => []Lease!Exclusive
<1>1. Lease!Init => Lease!Exclusive
  BY DEF Lease!Init, Lease!Exclusive
<1>2. IsLeasePool => []Lease!Exclusive
  BY <1>1, ExclusiveStep, PTL DEF IsLeasePool, Lease!Spec
<1>3. QED
  BY <1>2, LeasePoolRefinement, PTL
=============================================================================
