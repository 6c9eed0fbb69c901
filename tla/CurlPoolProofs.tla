--------------------------- MODULE CurlPoolProofs ---------------------------
(***************************************************************************)
(* The pool lends every instance to one client at a time, for any number   *)
(* of instances, clients and hosts, if no client writes files and          *)
(* curl_easy_init() succeeds.  What holds without these conditions is said *)
(* where it is stated: the types, and that busy instances are left alone.  *)
(***************************************************************************)
EXTENDS CurlPool, TLAPS

-----------------------------------------------------------------------------
(* The inductive invariant.                                                *)

\* The mark of an instance agrees with who holds it.
Marks ==
  /\ \A c \in Client : Holding(c) => curlhandler[handle[c]].status = "C_BUSY"
  /\ \A c, d \in Client :
       Holding(c) /\ Holding(d) /\ handle[c] = handle[d] => c = d
  /\ \A i \in Instance : curlhandler[i].status = "C_BUSY" =>
       \E c \in Client : Holding(c) /\ handle[c] = i

\* An instance that is not closed has an easy handle, and there are no files.
Handles ==
  \A i \in Instance :
    /\ curlhandler[i].curl \in {"null", "easy"}
    /\ curlhandler[i].status # "C_CLOSE" => curlhandler[i].curl = "easy"

\* What is in an instance belongs to the client that holds it.
Contents ==
  /\ \A i \in Instance : curlhandler[i].status # "C_BUSY" =>
       /\ curlhandler[i].header = {} /\ curlhandler[i].response = {}
       /\ curlhandler[i].protoLine \in {Earlier, Nobody}
  /\ \A c \in Client : Holding(c) =>
       /\ HeadersSent(c) \subseteq {c}
       /\ ReadFile(c) \subseteq {c}
       /\ StatusLine(c) \in {c, Earlier, Nobody}
       /\ pc[c] = "opened" /\ ok[c] => ReadFile(c) = {c} /\ StatusLine(c) = c
       /\ pc[c] = "closing" => HeadersSent(c) = {} /\ ReadFile(c) = {}

IInv == http /\ TypeOK /\ Marks /\ Handles /\ Contents

-----------------------------------------------------------------------------
(* The records.                                                            *)

\* What the constructor of an instance makes is of its type.
LEMMA NewInstanceType ==
  /\ NewInstance \in InstanceRecord
  /\ NewInstance.status = "C_CLOSE" /\ NewInstance.curl = "null"
  /\ NewInstance.header = {} /\ NewInstance.response = {}
  /\ NewInstance.protoLine = Nobody
BY DEF NewInstance, InstanceRecord

\* What get_curl_instance() chooses, and what it leaves alone in it.
LEMMA GotIs ==
  ASSUME TypeOK, NEW host \in Host, NEW i \in Instance, Got(i, host)
  PROVE  /\ Gotten(i, host) \in InstanceRecord
         /\ curlhandler[i] \in InstanceRecord
         /\ curlhandler[i].status # "C_BUSY"
         /\ Gotten(i, host).header = curlhandler[i].header
         /\ Gotten(i, host).response = curlhandler[i].response
         /\ Gotten(i, host).protoLine = curlhandler[i].protoLine
         /\ Gotten(i, host).curl \in {"null", curlhandler[i].curl}
<1> USE PoolAssumption
<1>1. curlhandler[i] \in InstanceRecord
  BY DEF TypeOK
<1>2. /\ Renamed(curlhandler[i], host) \in InstanceRecord
      /\ Renamed(curlhandler[i], host).header = curlhandler[i].header
      /\ Renamed(curlhandler[i], host).response = curlhandler[i].response
      /\ Renamed(curlhandler[i], host).protoLine = curlhandler[i].protoLine
      /\ Renamed(curlhandler[i], host).curl = curlhandler[i].curl
  BY <1>1 DEF Renamed, InstanceRecord
<1>3. /\ Evicted(curlhandler[i], host) \in InstanceRecord
      /\ Evicted(curlhandler[i], host).header = curlhandler[i].header
      /\ Evicted(curlhandler[i], host).response = curlhandler[i].response
      /\ Evicted(curlhandler[i], host).protoLine = curlhandler[i].protoLine
      /\ Evicted(curlhandler[i], host).curl = "null"
  BY <1>2 DEF Evicted, InstanceRecord
<1>4. curlhandler[i].status # "C_BUSY"
  BY DEF Got, Candidates, Reusable, Closed, Open
<1>5. QED
  BY <1>1, <1>2, <1>3, <1>4 DEF Gotten

\* All instances unused and nobody holding one.
LEMMA InitIInv == Init /\ http => IInv
<1> SUFFICES ASSUME Init, http PROVE IInv
  OBVIOUS
<1>1. \A c \in Client : ~Holding(c)
  BY DEF Init, Holding
<1>2. \A i \in Instance : curlhandler[i] = NewInstance
  BY DEF Init
<1>3. TypeOK
  BY <1>1, NewInstanceType DEF Init, TypeOK
<1>4. Marks /\ Handles /\ Contents
  BY <1>1, <1>2, NewInstanceType DEF Marks, Handles, Contents
<1>5. QED
  BY <1>3, <1>4 DEF IInv

-----------------------------------------------------------------------------
(* The lease a client holds in a state.                                    *)

LeaseOf(c) == IF http /\ Holding(c) THEN {handle[c]} ELSE {}
RefusedClients == {c \in Client : http /\ pc[c] = "refused"}

\* An instance is free when its mark says so, and only then.
LEMMA HeldIs ==
  ASSUME http, TypeOK, Marks
  PROVE  /\ \A i \in Instance :
              i \in UNION {LeaseOf(c) : c \in Client}
                <=> curlhandler[i].status = "C_BUSY"
         /\ UNION {LeaseOf(c) : c \in Client} \subseteq Instance
<1>1. ASSUME NEW i \in Instance, curlhandler[i].status = "C_BUSY"
      PROVE  i \in UNION {LeaseOf(c) : c \in Client}
  BY <1>1 DEF Marks, LeaseOf
<1>2. ASSUME NEW i \in Instance, NEW c \in Client, i \in LeaseOf(c)
      PROVE  curlhandler[i].status = "C_BUSY"
  BY <1>2 DEF Marks, LeaseOf
<1>3. \A c \in Client : LeaseOf(c) \subseteq Instance
  BY DEF TypeOK, LeaseOf
<1>4. QED
  BY <1>1, <1>2, <1>3

-----------------------------------------------------------------------------
(* A client is given an instance that is not busy.                         *)

\* An instance that was not lent may be given to a thread that holds none.
LEMMA GivenStep ==
  ASSUME IInv, NEW c \in Client, Free(c), NEW i \in Instance,
         curlhandler[i].status # "C_BUSY",
         NEW host \in Host, NEW s \in InstanceRecord,
         s.status = "C_BUSY", s.curl = "easy", s.header = {}, s.response = {},
         s.protoLine \in {Earlier, Nobody},
         Given(c, i, s, host, "created"), UNCHANGED <<ok, http>>
  PROVE  IInv'
<1>1. /\ curlhandler' = [curlhandler EXCEPT ![i] = s]
      /\ pc' = [pc EXCEPT ![c] = "created"]
      /\ handle' = [handle EXCEPT ![c] = i]
      /\ target' = [target EXCEPT ![c] = host]
      /\ asked' = [asked EXCEPT ![c] = {}]
      /\ fault' \in BOOLEAN
  BY DEF Given
<1>2. http /\ TypeOK /\ Marks /\ Handles /\ Contents /\ ~Holding(c)
  BY DEF IInv, Free, Holding
<1>3. /\ \A d \in Client : d # c => pc'[d] = pc[d] /\ handle'[d] = handle[d]
      /\ \A j \in Instance : j # i => curlhandler'[j] = curlhandler[j]
      /\ curlhandler'[i] = s /\ pc'[c] = "created" /\ handle'[c] = i
  BY <1>1, <1>2 DEF TypeOK
<1>4. /\ \A d \in Client : d # c => Holding(d)' = Holding(d)
      /\ Holding(c)'
  BY <1>3 DEF Holding
<1>5. \A d \in Client : Holding(d) => handle[d] \in Instance /\ handle[d] # i
  BY <1>2 DEF TypeOK, Marks
<1>6. TypeOK'
  <2>1. i \in Nat
    BY DEF Instance
  <2>2. \A d \in Client : Holding(d)' => handle'[d] \in Instance
    BY <1>3, <1>4, <1>5
  <2>3. QED
    BY <1>1, <1>2, <2>1, <2>2 DEF TypeOK
<1>7. Marks'
  <2>1. \A d \in Client : Holding(d)' => curlhandler'[handle'[d]].status = "C_BUSY"
    BY <1>2, <1>3, <1>4, <1>5 DEF Marks
  <2>2. \A d, e \in Client :
          Holding(d)' /\ Holding(e)' /\ handle'[d] = handle'[e] => d = e
    BY <1>2, <1>3, <1>4, <1>5 DEF Marks
  <2>3. \A j \in Instance : curlhandler'[j].status = "C_BUSY" =>
          \E d \in Client : Holding(d)' /\ handle'[d] = j
    <3> SUFFICES ASSUME NEW j \in Instance, curlhandler'[j].status = "C_BUSY"
                 PROVE  \E d \in Client : Holding(d)' /\ handle'[d] = j
      OBVIOUS
    <3>1. CASE j = i
      BY <3>1, <1>3, <1>4
    <3>2. CASE j # i
      <4>1. PICK d \in Client : Holding(d) /\ handle[d] = j
        BY <3>2, <1>2, <1>3 DEF Marks
      <4>2. QED
        BY <4>1, <1>2, <1>3, <1>4
    <3>3. QED
      BY <3>1, <3>2
  <2>4. QED
    BY <2>1, <2>2, <2>3 DEF Marks
<1>8. Handles'
  BY <1>2, <1>3 DEF Handles
<1>9. Contents'
  <2>1. \A j \in Instance : curlhandler'[j].status # "C_BUSY" =>
          /\ curlhandler'[j].header = {} /\ curlhandler'[j].response = {}
          /\ curlhandler'[j].protoLine \in {Earlier, Nobody}
    BY <1>2, <1>3 DEF Contents
  <2>2. \A d \in Client : d # c /\ Holding(d)' =>
          /\ HeadersSent(d)' = HeadersSent(d) /\ ReadFile(d)' = ReadFile(d)
          /\ StatusLine(d)' = StatusLine(d) /\ Holding(d)
    BY <1>3, <1>4, <1>5 DEF HeadersSent, ReadFile, StatusLine
  <2>3. /\ HeadersSent(c)' = {} /\ ReadFile(c)' = {}
        /\ StatusLine(c)' \in {Earlier, Nobody} /\ pc'[c] = "created"
    BY <1>3 DEF HeadersSent, ReadFile, StatusLine
  <2>4. QED
    BY <1>2, <1>3, <2>1, <2>2, <2>3 DEF Contents
<1>10. QED
  BY <1>6, <1>7, <1>8, <1>9 DEF IInv

\* An instance as curl_create() hands it out.
Lent(s) == [s EXCEPT !.curl = IF @ = "null" THEN "easy" ELSE @,
                     !.fp = Nobody, !.status = "C_BUSY"]

\* What curl_create() makes of the instance it lends.
LEMMA LentType ==
  ASSUME NEW s \in InstanceRecord, s.curl \in {"null", "easy"},
         s.header = {}, s.response = {}, s.protoLine \in {Earlier, Nobody}
  PROVE  /\ Lent(s) \in InstanceRecord
         /\ Lent(s).status = "C_BUSY" /\ Lent(s).curl = "easy"
         /\ Lent(s).header = {} /\ Lent(s).response = {}
         /\ Lent(s).protoLine \in {Earlier, Nobody}
<1>1. Lent(s) = [s EXCEPT !.curl = "easy", !.fp = Nobody, !.status = "C_BUSY"]
  <2>1. CASE s.curl = "null"
    BY <2>1 DEF Lent, InstanceRecord
  <2>2. CASE s.curl = "easy"
    BY <2>2 DEF Lent, InstanceRecord
  <2>3. QED
    BY <2>1, <2>2
<1>2. QED
  BY <1>1 DEF InstanceRecord

\* curl_create() lends an instance nobody has.
LEMMA CurlCreateStep ==
  ASSUME IInv, NEW c \in Client, NEW host \in Host, CurlCreate(c, host)
  PROVE  IInv' /\ \E i \in Instance : Lease!Acquire(c, i)
<1>1. PICK i \in Instance : /\ Got(i, host)
                            /\ Given(c, i, Lent(Gotten(i, host)), host, "created")
  BY DEF CurlCreate, IInv, Lent
<1>2. http /\ TypeOK /\ Marks /\ Handles /\ Contents
  BY DEF IInv
<1>3. /\ Gotten(i, host) \in InstanceRecord
      /\ curlhandler[i].status # "C_BUSY"
      /\ Gotten(i, host).header = {}
      /\ Gotten(i, host).response = {}
      /\ Gotten(i, host).protoLine \in {Earlier, Nobody}
      /\ Gotten(i, host).curl \in {"null", "easy"}
  BY <1>1, <1>2, GotIs DEF Contents, Handles
<1>4. /\ Lent(Gotten(i, host)) \in InstanceRecord
      /\ Lent(Gotten(i, host)).status = "C_BUSY"
      /\ Lent(Gotten(i, host)).curl = "easy"
      /\ Lent(Gotten(i, host)).header = {}
      /\ Lent(Gotten(i, host)).response = {}
      /\ Lent(Gotten(i, host)).protoLine \in {Earlier, Nobody}
  BY <1>3, LentType
<1>5. Free(c) /\ UNCHANGED <<ok, http>>
  BY DEF CurlCreate
<1>6. IInv'
  BY <1>1, <1>3, <1>4, <1>5, GivenStep
<1>7. /\ pc' = [pc EXCEPT ![c] = "created"]
      /\ handle' = [handle EXCEPT ![c] = i]
      /\ pc \in [Client -> {"idle", "refused", "created", "performing", "opened", "closing"}]
      /\ handle \in [Client -> Nat]
  BY <1>1, <1>2 DEF Given, TypeOK
<1>8. Lease!Acquire(c, i)
  <2>1. LeaseOf(c) = {}
    BY <1>5 DEF Free, LeaseOf, Holding
  <2>2. i \notin UNION {LeaseOf(d) : d \in Client}
    BY <1>2, <1>3, HeldIs
  <2>3. \A d \in Client : LeaseOf(d)' = IF d = c THEN {i} ELSE LeaseOf(d)
    BY <1>2, <1>5, <1>7 DEF LeaseOf, Holding
  <2>4. [d \in Client |-> LeaseOf(d)'] = [[d \in Client |-> LeaseOf(d)] EXCEPT ![c] = {i}]
    BY <2>3
  <2>5. RefusedClients' = RefusedClients \ {c}
    BY <1>5, <1>7 DEF RefusedClients
  <2>6. QED
    BY <2>1, <2>2, <2>4, <2>5
    DEF Lease!Acquire, Lease!Held, LeaseOf, RefusedClients
<1>9. QED
  BY <1>6, <1>8

-----------------------------------------------------------------------------
(* A client works on the instance it holds.                                *)

HoldingPc == {"created", "performing", "opened", "closing"}

\* Nothing that LeasePool can see happens.
LeaseStutters ==
  /\ \A d \in Client : LeaseOf(d)' = LeaseOf(d)
  /\ RefusedClients' = RefusedClients

\* A thread may change the instance it holds; no other lease is disturbed.
LEMMA OwnStep ==
  ASSUME IInv, NEW c \in Client, Holding(c),
         NEW s \in InstanceRecord, s.status = "C_BUSY", s.curl = "easy",
         s.header \subseteq {c}, s.response \subseteq {c},
         s.protoLine \in {c, Earlier, Nobody},
         NEW next \in HoldingPc,
         curlhandler' = [curlhandler EXCEPT ![handle[c]] = s],
         pc' = [pc EXCEPT ![c] = next],
         UNCHANGED <<handle, target, http>>,
         asked' \in [Client -> SUBSET Options],
         ok' \in [Client -> BOOLEAN],
         \A d \in Client \ {c} : ok'[d] = ok[d],
         fault' \in BOOLEAN,
         next = "opened" /\ ok'[c] => s.response = {c} /\ s.protoLine = c,
         next = "closing" => s.header = {} /\ s.response = {}
  PROVE  IInv' /\ LeaseStutters
<1>1. http /\ TypeOK /\ Marks /\ Handles /\ Contents
  BY DEF IInv
<1>2. handle[c] \in Instance
  BY <1>1 DEF TypeOK
<1>3. /\ \A d \in Client : d # c => pc'[d] = pc[d]
      /\ \A j \in Instance : j # handle[c] => curlhandler'[j] = curlhandler[j]
      /\ curlhandler'[handle[c]] = s /\ pc'[c] = next
  BY <1>1, <1>2 DEF TypeOK
<1>4. \A d \in Client : Holding(d)' = Holding(d)
  BY <1>3 DEF Holding, HoldingPc
<1>5. \A d \in Client : Holding(d) =>
        handle[d] \in Instance /\ (d # c => handle[d] # handle[c])
  BY <1>1 DEF TypeOK, Marks
<1>6. TypeOK'
  <2>1. \A d \in Client : Holding(d)' => handle'[d] \in Instance
    BY <1>4, <1>5
  <2>2. curlhandler' \in [Instance -> InstanceRecord]
    BY <1>1, <1>2 DEF TypeOK
  <2>3. pc' \in [Client -> {"idle", "refused", "created", "performing", "opened", "closing"}]
    BY <1>1 DEF TypeOK, HoldingPc
  <2>4. QED
    BY <1>1, <2>1, <2>2, <2>3 DEF TypeOK
<1>7. Marks'
  <2>1. \A d \in Client : Holding(d)' => curlhandler'[handle'[d]].status = "C_BUSY"
    BY <1>1, <1>3, <1>4, <1>5 DEF Marks
  <2>2. \A d, e \in Client :
          Holding(d)' /\ Holding(e)' /\ handle'[d] = handle'[e] => d = e
    BY <1>1, <1>4 DEF Marks
  <2>3. \A j \in Instance : curlhandler'[j].status = "C_BUSY" =>
          \E d \in Client : Holding(d)' /\ handle'[d] = j
    <3> SUFFICES ASSUME NEW j \in Instance, curlhandler'[j].status = "C_BUSY"
                 PROVE  \E d \in Client : Holding(d)' /\ handle'[d] = j
      OBVIOUS
    <3>1. curlhandler[j].status = "C_BUSY"
      BY <1>1, <1>3 DEF Marks
    <3>2. PICK d \in Client : Holding(d) /\ handle[d] = j
      BY <3>1, <1>1 DEF Marks
    <3>3. QED
      BY <3>2, <1>4
  <2>4. QED
    BY <2>1, <2>2, <2>3 DEF Marks
<1>8. Handles'
  BY <1>1, <1>3 DEF Handles
<1>9. Contents'
  <2>1. \A j \in Instance : curlhandler'[j].status # "C_BUSY" =>
          /\ curlhandler'[j].header = {} /\ curlhandler'[j].response = {}
          /\ curlhandler'[j].protoLine \in {Earlier, Nobody}
    BY <1>1, <1>3 DEF Contents
  <2>2. \A d \in Client : d # c /\ Holding(d)' =>
          /\ HeadersSent(d)' = HeadersSent(d) /\ ReadFile(d)' = ReadFile(d)
          /\ StatusLine(d)' = StatusLine(d) /\ Holding(d) /\ pc'[d] = pc[d]
    BY <1>3, <1>4, <1>5 DEF HeadersSent, ReadFile, StatusLine
  <2>3. /\ HeadersSent(c)' = s.header /\ ReadFile(c)' = s.response
        /\ StatusLine(c)' = s.protoLine
    BY <1>3 DEF HeadersSent, ReadFile, StatusLine
  <2>4. ASSUME NEW d \in Client, Holding(d)'
        PROVE  /\ HeadersSent(d)' \subseteq {d}
               /\ ReadFile(d)' \subseteq {d}
               /\ StatusLine(d)' \in {d, Earlier, Nobody}
               /\ pc'[d] = "opened" /\ ok'[d] =>
                    ReadFile(d)' = {d} /\ StatusLine(d)' = d
               /\ pc'[d] = "closing" => HeadersSent(d)' = {} /\ ReadFile(d)' = {}
    <3>1. CASE d = c
      BY <3>1, <2>3, <1>3
    <3>2. CASE d # c
      BY <3>2, <2>2, <2>4, <1>1 DEF Contents
    <3>3. QED
      BY <3>1, <3>2
  <2>5. QED
    BY <2>1, <2>4 DEF Contents
<1>10. LeaseStutters
  <2>1. \A d \in Client : LeaseOf(d)' = LeaseOf(d)
    BY <1>4 DEF LeaseOf
  <2>2. \A d \in Client : pc'[d] = "refused" <=> pc[d] = "refused"
    BY <1>3 DEF Holding, HoldingPc
  <2>3. RefusedClients' = RefusedClients
    BY <2>2 DEF RefusedClients
  <2>4. QED
    BY <2>1, <2>3 DEF LeaseStutters
<1>11. QED
  BY <1>6, <1>7, <1>8, <1>9, <1>10 DEF IInv

\* What a client that holds an instance finds in it.
LEMMA HeldInstance ==
  ASSUME IInv, NEW c \in Client, Holding(c)
  PROVE  /\ curlhandler[handle[c]] \in InstanceRecord
         /\ curlhandler[handle[c]].status = "C_BUSY"
         /\ curlhandler[handle[c]].curl = "easy"
         /\ curlhandler[handle[c]].header \subseteq {c}
         /\ curlhandler[handle[c]].response \subseteq {c}
         /\ curlhandler[handle[c]].protoLine \in {c, Earlier, Nobody}
BY DEF IInv, TypeOK, Marks, Handles, Contents, HeadersSent, ReadFile, StatusLine

\* curl_add_option() works on the instance of the caller.
LEMMA CurlAddOptionStep ==
  ASSUME IInv, NEW c \in Client, NEW option \in Options, CurlAddOption(c, option)
  PROVE  IInv' /\ LeaseStutters
<1> DEFINE old == curlhandler[handle[c]]
           new == CASE option = "postdata" -> [old EXCEPT !.post = c]
                    [] option = "User-Agent" -> [old EXCEPT !.useragent = "allocated"]
                    [] option = "header" -> [old EXCEPT !.header = @ \cup {c}]
<1>1. Holding(c) /\ pc[c] = "created"
  BY DEF CurlAddOption, Holding
<1>2. TypeOK
  BY DEF IInv
<1>3. /\ old \in InstanceRecord /\ old.status = "C_BUSY" /\ old.curl = "easy"
      /\ old.header \subseteq {c} /\ old.response \subseteq {c}
      /\ old.protoLine \in {c, Earlier, Nobody}
  BY <1>1, HeldInstance
<1>4. /\ new \in InstanceRecord /\ new.status = "C_BUSY" /\ new.curl = "easy"
      /\ new.header \subseteq {c} /\ new.response \subseteq {c}
      /\ new.protoLine \in {c, Earlier, Nobody}
  <2>1. CASE option = "postdata"
    <3>1. new = [old EXCEPT !.post = c]
      BY <2>1
    <3> HIDE DEF new, old
    <3>2. QED
      BY <1>3, <3>1 DEF InstanceRecord, Origin
  <2>2. CASE option = "User-Agent"
    <3>1. new = [old EXCEPT !.useragent = "allocated"]
      BY <2>2
    <3> HIDE DEF new, old
    <3>2. QED
      BY <1>3, <3>1 DEF InstanceRecord
  <2>3. CASE option = "header"
    <3>1. new = [old EXCEPT !.header = old.header \cup {c}]
      BY <2>3
    <3>2. old.header \cup {c} \in SUBSET Origin
      BY <1>3 DEF InstanceRecord, Origin
    <3> HIDE DEF new, old
    <3>3. QED
      BY <1>3, <3>1, <3>2 DEF InstanceRecord
  <2>4. QED
    BY <2>1, <2>2, <2>3 DEF Options
<1>5. curlhandler' = [curlhandler EXCEPT ![handle[c]] = new]
  BY DEF CurlAddOption
<1>6. /\ pc' = [pc EXCEPT ![c] = "created"]
      /\ UNCHANGED <<handle, target, ok, fault, http>>
      /\ asked' \in [Client -> SUBSET Options]
  BY <1>1, <1>2 DEF CurlAddOption, TypeOK
<1>7. ok' \in [Client -> BOOLEAN] /\ fault' \in BOOLEAN
  BY <1>2, <1>6 DEF TypeOK
<1> HIDE DEF new
<1>8. QED
  BY <1>1, <1>4, <1>5, <1>6, <1>7, OwnStep DEF HoldingPc

\* The first half of curl_open() works on the instance of the caller.
LEMMA CurlOpenStep ==
  ASSUME IInv, NEW c \in Client, CurlOpen(c)
  PROVE  IInv' /\ LeaseStutters
<1> DEFINE old == curlhandler[handle[c]]
<1>1. Holding(c)
  BY DEF CurlOpen, Holding
<1>2. TypeOK
  BY DEF IInv
<1>3. /\ old \in InstanceRecord /\ old.status = "C_BUSY" /\ old.curl = "easy"
      /\ old.header \subseteq {c} /\ old.response \subseteq {c}
      /\ old.protoLine \in {c, Earlier, Nobody}
  BY <1>1, HeldInstance
<1>4. curlhandler' = [curlhandler EXCEPT ![handle[c]] = old]
  BY <1>2 DEF CurlOpen, TypeOK
<1>5. /\ pc' = [pc EXCEPT ![c] = "performing"]
      /\ UNCHANGED <<handle, target, asked, ok, http>>
  BY <1>3 DEF CurlOpen
<1>6. fault' \in BOOLEAN
  BY <1>3 DEF CurlOpen
<1>7. /\ asked' \in [Client -> SUBSET Options]
      /\ ok' \in [Client -> BOOLEAN]
  BY <1>2, <1>5 DEF TypeOK
<1> HIDE DEF old
<1>8. QED
  BY <1>1, <1>3, <1>4, <1>5, <1>6, <1>7, OwnStep DEF HoldingPc

\* What a client has after a transfer that reached some hosts.
Received(s, c, reached) ==
  [s EXCEPT !.conn = @ \cup ({target[c]} \X reached),
            !.protoLine = c, !.response = @ \cup {c}]

\* A transfer changes only the connections and what is received.
LEMMA ReceivedIs ==
  ASSUME TypeOK, NEW c \in Client, NEW s \in InstanceRecord,
         NEW reached \in SUBSET Host
  PROVE  /\ Received(s, c, reached) \in InstanceRecord
         /\ Received(s, c, reached).status = s.status
         /\ Received(s, c, reached).curl = s.curl
         /\ Received(s, c, reached).url = s.url
         /\ Received(s, c, reached).header = s.header
         /\ Received(s, c, reached).useragent = s.useragent
         /\ Received(s, c, reached).protoLine = c
         /\ Received(s, c, reached).response = s.response \cup {c}
         /\ Received(s, c, reached).conn = s.conn \cup ({target[c]} \X reached)
<1> DEFINE links == s.conn \cup ({target[c]} \X reached)
           origins == s.response \cup {c}
<1>1. links \in SUBSET ((Host \cup {NoHost}) \X Host)
  BY DEF TypeOK, InstanceRecord
<1>2. origins \in SUBSET Origin /\ c \in Origin \cup {Nobody}
  BY DEF InstanceRecord, Origin
<1>3. Received(s, c, reached) =
        [s EXCEPT !.conn = links, !.protoLine = c, !.response = origins]
  BY DEF Received, InstanceRecord
<1> HIDE DEF links, origins
<1>4. /\ Received(s, c, reached) \in InstanceRecord
      /\ Received(s, c, reached).status = s.status
      /\ Received(s, c, reached).curl = s.curl
      /\ Received(s, c, reached).url = s.url
      /\ Received(s, c, reached).header = s.header
      /\ Received(s, c, reached).useragent = s.useragent
      /\ Received(s, c, reached).protoLine = c
      /\ Received(s, c, reached).response = origins
      /\ Received(s, c, reached).conn = links
  BY <1>1, <1>2, <1>3 DEF InstanceRecord
<1>5. QED
  BY <1>4 DEF links, origins

\* The two ways a transfer ends.
LEMMA PerformIs ==
  ASSUME TypeOK, NEW c \in Client, Perform(c)
  PROVE  /\ pc[c] = "performing" /\ pc' = [pc EXCEPT ![c] = "opened"]
         /\ UNCHANGED <<handle, target, asked, fault, http>>
         /\ ok' \in [Client -> BOOLEAN]
         /\ \A d \in Client \ {c} : ok'[d] = ok[d]
         /\ \/ /\ curlhandler' =
                    [curlhandler EXCEPT ![handle[c]] = curlhandler[handle[c]]]
               /\ ~ok'[c]
            \/ \E reached \in SUBSET Host :
                 /\ target[c] \in reached
                 /\ curlhandler' = [curlhandler EXCEPT ![handle[c]] =
                      Received(curlhandler[handle[c]], c, reached)]
<1>1. curlhandler = [curlhandler EXCEPT ![handle[c]] = curlhandler[handle[c]]]
  BY DEF TypeOK
<1>2. CASE UNCHANGED curlhandler /\ ok' = [ok EXCEPT ![c] = FALSE]
  BY <1>1, <1>2 DEF Perform, TypeOK
<1>3. ASSUME NEW reached \in SUBSET Host, NEW success \in BOOLEAN,
             target[c] \in reached,
             curlhandler' = [curlhandler EXCEPT ![handle[c]] =
               Received(curlhandler[handle[c]], c, reached)],
             ok' = [ok EXCEPT ![c] = success]
      PROVE  /\ ok' \in [Client -> BOOLEAN]
             /\ \A d \in Client \ {c} : ok'[d] = ok[d]
  BY <1>3 DEF TypeOK
<1>4. /\ pc[c] = "performing" /\ pc' = [pc EXCEPT ![c] = "opened"]
      /\ UNCHANGED <<handle, target, asked, fault, http>>
      /\ \/ UNCHANGED curlhandler /\ ok' = [ok EXCEPT ![c] = FALSE]
         \/ \E reached \in SUBSET Host, success \in BOOLEAN :
              /\ target[c] \in reached
              /\ curlhandler' = [curlhandler EXCEPT ![handle[c]] =
                   Received(curlhandler[handle[c]], c, reached)]
              /\ ok' = [ok EXCEPT ![c] = success]
  BY DEF Perform, Received
<1>5. QED
  BY <1>2, <1>3, <1>4

\* The transfer leaves only what belongs to the caller.
LEMMA PerformStep ==
  ASSUME IInv, NEW c \in Client, Perform(c)
  PROVE  IInv' /\ LeaseStutters
<1> DEFINE old == curlhandler[handle[c]]
<1>1. Holding(c) /\ TypeOK
  BY DEF Perform, Holding, IInv
<1>2. /\ old \in InstanceRecord /\ old.status = "C_BUSY" /\ old.curl = "easy"
      /\ old.header \subseteq {c} /\ old.response \subseteq {c}
      /\ old.protoLine \in {c, Earlier, Nobody}
  BY <1>1, HeldInstance
<1>3. /\ pc' = [pc EXCEPT ![c] = "opened"]
      /\ UNCHANGED <<handle, target, asked, fault, http>>
      /\ asked' \in [Client -> SUBSET Options] /\ fault' \in BOOLEAN
      /\ ok' \in [Client -> BOOLEAN]
      /\ \A d \in Client \ {c} : ok'[d] = ok[d]
  BY <1>1, PerformIs DEF TypeOK
<1>4. ASSUME curlhandler' = [curlhandler EXCEPT ![handle[c]] = old], ~ok'[c]
      PROVE  IInv' /\ LeaseStutters
  <2> HIDE DEF old
  <2>1. QED
    BY <1>1, <1>2, <1>3, <1>4, OwnStep DEF HoldingPc
<1>5. ASSUME NEW reached \in SUBSET Host,
             curlhandler' = [curlhandler EXCEPT ![handle[c]] = Received(old, c, reached)]
      PROVE  IInv' /\ LeaseStutters
  <2> DEFINE s == Received(old, c, reached)
  <2>1. /\ s \in InstanceRecord /\ s.status = "C_BUSY" /\ s.curl = "easy"
        /\ s.header \subseteq {c} /\ s.response = {c} /\ s.protoLine = c
    BY <1>1, <1>2, ReceivedIs
  <2> HIDE DEF s, old
  <2>2. curlhandler' = [curlhandler EXCEPT ![handle[c]] = s]
    BY <1>5 DEF s
  <2>3. QED
    BY <1>1, <1>3, <2>1, <2>2, OwnStep DEF HoldingPc
<1>6. QED
  BY <1>1, <1>4, <1>5, PerformIs

\* The clearing half of close_file() keeps the instance lent.
LEMMA CloseClearStep ==
  ASSUME IInv, NEW c \in Client, CloseClear(c)
  PROVE  IInv' /\ LeaseStutters
<1> DEFINE old == curlhandler[handle[c]]
           agent == IF old.useragent = "null" THEN "null" ELSE "freed"
           new == [old EXCEPT !.header = {}, !.response = {},
                              !.useragent = IF @ = "null" THEN "null" ELSE "freed"]
<1>1. Holding(c)
  BY DEF CloseClear, Holding
<1>2. TypeOK
  BY DEF IInv
<1>3. /\ old \in InstanceRecord /\ old.status = "C_BUSY" /\ old.curl = "easy"
      /\ old.header \subseteq {c} /\ old.response \subseteq {c}
      /\ old.protoLine \in {c, Earlier, Nobody}
  BY <1>1, HeldInstance
<1>4. /\ new \in InstanceRecord /\ new.status = "C_BUSY" /\ new.curl = "easy"
      /\ new.header = {} /\ new.response = {}
      /\ new.protoLine \in {c, Earlier, Nobody}
  <2>1. agent \in {"null", "freed"}
    OBVIOUS
  <2>2. new = [old EXCEPT !.header = {}, !.response = {}, !.useragent = agent]
    BY <1>3 DEF InstanceRecord
  <2> HIDE DEF agent, new, old
  <2>3. QED
    BY <1>3, <2>1, <2>2 DEF InstanceRecord
<1>5. curlhandler' = [curlhandler EXCEPT ![handle[c]] = new]
  BY DEF CloseClear
<1>6. /\ pc' = [pc EXCEPT ![c] = "closing"]
      /\ UNCHANGED <<handle, target, asked, ok, http>>
      /\ fault' \in BOOLEAN
  BY <1>2 DEF CloseClear, TypeOK
<1>7. /\ asked' \in [Client -> SUBSET Options]
      /\ ok' \in [Client -> BOOLEAN]
  BY <1>2, <1>6 DEF TypeOK
<1> HIDE DEF new
<1>8. QED
  BY <1>1, <1>4, <1>5, <1>6, <1>7, OwnStep DEF HoldingPc

-----------------------------------------------------------------------------
(* A client gives its instance back.                                       *)

\* Growing old changes nothing that another client reads or sends.
LEMMA AgedType ==
  ASSUME NEW c \in Client, NEW s \in InstanceRecord,
         c \notin s.header, c \notin s.response
  PROVE  /\ Aged(s, c) \in InstanceRecord
         /\ Aged(s, c).status = s.status /\ Aged(s, c).curl = s.curl
         /\ Aged(s, c).header = s.header /\ Aged(s, c).response = s.response
         /\ Aged(s, c).protoLine = IF s.protoLine = c THEN Earlier ELSE s.protoLine
<1> DEFINE Old(x) == IF x = c THEN Earlier ELSE x
           H == {Old(x) : x \in s.header}
           R == {Old(x) : x \in s.response}
           l == Old(s.protoLine)
           p == Old(s.post)
           f == Old(s.fp)
<1>1. Aged(s, c) = [s EXCEPT !.header = H, !.response = R, !.protoLine = l,
                             !.post = p, !.fp = f]
  BY DEF Aged, InstanceRecord
<1>2. H = s.header /\ R = s.response
  OBVIOUS
<1>3. {l, p, f} \subseteq Origin \cup {Nobody}
  BY DEF InstanceRecord, Origin
<1>4. l = IF s.protoLine = c THEN Earlier ELSE s.protoLine
  OBVIOUS
<1> HIDE DEF H, R, l, p, f
<1>5. QED
  BY <1>1, <1>2, <1>3, <1>4 DEF InstanceRecord

\* The second half of close_file() ends the lease.
LEMMA CloseReleaseStep ==
  ASSUME IInv, NEW c \in Client, CloseRelease(c)
  PROVE  IInv' /\ Lease!Release(c)
<1> DEFINE old == curlhandler[handle[c]]
           s == [old EXCEPT !.status = "C_OPEN"]
           kept(i) == IF i = handle[c] THEN s ELSE curlhandler[i]
<1>1. http /\ TypeOK /\ Marks /\ Handles /\ Contents
  BY DEF IInv
<1>2. Holding(c) /\ pc[c] = "closing"
  BY DEF CloseRelease, Holding
<1>3. /\ old \in InstanceRecord /\ old.status = "C_BUSY" /\ old.curl = "easy"
      /\ old.header = {} /\ old.response = {} /\ handle[c] \in Instance
      /\ old.protoLine \in {c, Earlier, Nobody}
  BY <1>1, <1>2, HeldInstance DEF TypeOK, Contents, HeadersSent, ReadFile
<1>4. /\ s \in InstanceRecord /\ s.status = "C_OPEN" /\ s.curl = "easy"
      /\ s.header = {} /\ s.response = {} /\ s.protoLine \in {c, Earlier, Nobody}
  BY <1>3 DEF InstanceRecord
<1>5. /\ curlhandler' = [i \in Instance |-> Aged(kept(i), c)]
      /\ pc' = [pc EXCEPT ![c] = "idle"]
      /\ handle' = [handle EXCEPT ![c] = 0]
      /\ target' = [target EXCEPT ![c] = NoHost]
      /\ asked' = [asked EXCEPT ![c] = {}]
      /\ ok' = [ok EXCEPT ![c] = FALSE]
      /\ UNCHANGED <<fault, http>>
  BY DEF CloseRelease, Returned
<1>6. /\ \A d \in Client : d # c =>
           pc'[d] = pc[d] /\ handle'[d] = handle[d] /\ ok'[d] = ok[d]
      /\ pc'[c] = "idle"
  BY <1>1, <1>5 DEF TypeOK
<1>7. /\ \A d \in Client : d # c => Holding(d)' = Holding(d)
      /\ ~Holding(c)'
  BY <1>6 DEF Holding
<1>8. \A d \in Client : d # c /\ Holding(d) =>
        handle[d] \in Instance /\ handle[d] # handle[c]
  BY <1>1, <1>2 DEF TypeOK, Marks
<1>9. \A i \in Instance : /\ kept(i) \in InstanceRecord
                          /\ c \notin kept(i).header /\ c \notin kept(i).response
                          /\ i # handle[c] => kept(i).protoLine # c
  <2> SUFFICES ASSUME NEW i \in Instance
               PROVE  /\ kept(i) \in InstanceRecord
                      /\ c \notin kept(i).header /\ c \notin kept(i).response
                      /\ i # handle[c] => kept(i).protoLine # c
    OBVIOUS
  <2>1. CASE i = handle[c]
    BY <2>1, <1>4
  <2>2. CASE i # handle[c] /\ curlhandler[i].status # "C_BUSY"
    BY <2>2, <1>1, PoolAssumption DEF TypeOK, Contents
  <2>3. CASE i # handle[c] /\ curlhandler[i].status = "C_BUSY"
    <3>1. PICK d \in Client : Holding(d) /\ handle[d] = i
      BY <2>3, <1>1 DEF Marks
    <3>2. d # c
      BY <2>3, <3>1
    <3>3. /\ curlhandler[i] \in InstanceRecord
          /\ curlhandler[i].header \subseteq {d} /\ curlhandler[i].response \subseteq {d}
          /\ curlhandler[i].protoLine \in {d, Earlier, Nobody}
      BY <3>1, HeldInstance
    <3>4. QED
      BY <2>3, <3>2, <3>3, PoolAssumption
  <2>4. QED
    BY <2>1, <2>2, <2>3
<1>10. \A i \in Instance :
         /\ curlhandler'[i] \in InstanceRecord
         /\ curlhandler'[i].status = kept(i).status
         /\ curlhandler'[i].curl = kept(i).curl
         /\ curlhandler'[i].header = kept(i).header
         /\ curlhandler'[i].response = kept(i).response
         /\ curlhandler'[i].protoLine =
              IF kept(i).protoLine = c THEN Earlier ELSE kept(i).protoLine
  <2> HIDE DEF kept
  <2>1. \A i \in Instance : curlhandler'[i] = Aged(kept(i), c)
    BY <1>5
  <2>2. QED
    BY <1>9, <2>1, AgedType
<1> HIDE DEF s
<1>11. TypeOK'
  <2>1. curlhandler' \in [Instance -> InstanceRecord]
    BY <1>5, <1>10
  <2>2. \A d \in Client : Holding(d)' => handle'[d] \in Instance
    BY <1>6, <1>7, <1>8
  <2>3. QED
    BY <1>1, <1>5, <2>1, <2>2 DEF TypeOK
<1>12. Marks'
  <2>1. \A d \in Client : Holding(d)' => curlhandler'[handle'[d]].status = "C_BUSY"
    BY <1>1, <1>6, <1>7, <1>8, <1>10 DEF Marks
  <2>2. \A d, e \in Client :
          Holding(d)' /\ Holding(e)' /\ handle'[d] = handle'[e] => d = e
    BY <1>1, <1>6, <1>7 DEF Marks
  <2>3. \A j \in Instance : curlhandler'[j].status = "C_BUSY" =>
          \E d \in Client : Holding(d)' /\ handle'[d] = j
    <3> SUFFICES ASSUME NEW j \in Instance, curlhandler'[j].status = "C_BUSY"
                 PROVE  \E d \in Client : Holding(d)' /\ handle'[d] = j
      OBVIOUS
    <3>1. j # handle[c] /\ curlhandler[j].status = "C_BUSY"
      BY <1>4, <1>10
    <3>2. PICK d \in Client : Holding(d) /\ handle[d] = j
      BY <3>1, <1>1 DEF Marks
    <3>3. d # c
      BY <3>1, <3>2
    <3>4. QED
      BY <3>2, <3>3, <1>6, <1>7
  <2>4. QED
    BY <2>1, <2>2, <2>3 DEF Marks
<1>13. Handles'
  BY <1>1, <1>4, <1>10 DEF Handles
<1>14. Contents'
  <2>1. \A j \in Instance : curlhandler'[j].status # "C_BUSY" =>
          /\ curlhandler'[j].header = {} /\ curlhandler'[j].response = {}
          /\ curlhandler'[j].protoLine \in {Earlier, Nobody}
    BY <1>1, <1>4, <1>10 DEF Contents
  <2>2. \A d \in Client : Holding(d)' =>
          /\ HeadersSent(d)' = HeadersSent(d) /\ ReadFile(d)' = ReadFile(d)
          /\ StatusLine(d)' = StatusLine(d) /\ Holding(d) /\ d # c
    BY <1>6, <1>7, <1>8, <1>9, <1>10 DEF HeadersSent, ReadFile, StatusLine
  <2>3. QED
    BY <1>1, <1>6, <2>1, <2>2 DEF Contents
<1>15. Lease!Release(c)
  <2>1. LeaseOf(c) # {}
    BY <1>1, <1>2 DEF LeaseOf
  <2>2. \A d \in Client : LeaseOf(d)' = IF d = c THEN {} ELSE LeaseOf(d)
    BY <1>1, <1>5, <1>6, <1>7 DEF LeaseOf
  <2>3. [d \in Client |-> LeaseOf(d)'] = [[d \in Client |-> LeaseOf(d)] EXCEPT ![c] = {}]
    BY <2>2
  <2>4. RefusedClients' = RefusedClients
    BY <1>2, <1>5, <1>6 DEF RefusedClients
  <2>5. QED
    BY <2>1, <2>3, <2>4 DEF Lease!Release, LeaseOf, RefusedClients
<1>16. QED
  BY <1>1, <1>5, <1>11, <1>12, <1>13, <1>14, <1>15 DEF IInv

-----------------------------------------------------------------------------
(* A client is turned away.                                                *)

\* A refused request changes no instance.
LEMMA RefuseStep ==
  ASSUME IInv, NEW c \in Client, NEW host \in Host, Refuse(c, host)
  PROVE  IInv' /\ Lease!Refuse(c)
<1>1. http /\ TypeOK /\ Marks /\ Handles /\ Contents /\ ~Holding(c)
  BY DEF IInv, Refuse, Free, Holding
<1>2. /\ pc' = [pc EXCEPT ![c] = "refused"]
      /\ UNCHANGED <<curlhandler, handle, target, asked, ok, fault, http>>
  BY DEF Refuse
<1>3. /\ \A d \in Client : d # c => pc'[d] = pc[d]
      /\ pc'[c] = "refused"
  BY <1>1, <1>2 DEF TypeOK
<1>4. \A d \in Client : Holding(d)' = Holding(d)
  BY <1>1, <1>3 DEF Holding
<1>5. TypeOK'
  BY <1>1, <1>2, <1>4 DEF TypeOK
<1>6. Marks'
  BY <1>1, <1>2, <1>4 DEF Marks
<1>7. Handles'
  BY <1>1, <1>2 DEF Handles
<1>8. Contents'
  BY <1>1, <1>2, <1>3, <1>4 DEF Contents, HeadersSent, ReadFile, StatusLine, Holding
<1>9. Lease!Refuse(c)
  <2>1. \A i \in Instance : curlhandler[i].status = "C_BUSY"
    BY <1>1 DEF Refuse, Candidates, Closed, Open, TypeOK, InstanceRecord
  <2>2. UNION {LeaseOf(d) : d \in Client} = Instance
    BY <1>1, <2>1, HeldIs
  <2>3. LeaseOf(c) = {}
    BY <1>1 DEF LeaseOf
  <2>4. \A d \in Client : LeaseOf(d)' = LeaseOf(d)
    BY <1>2, <1>4 DEF LeaseOf
  <2>5. [d \in Client |-> LeaseOf(d)'] = [d \in Client |-> LeaseOf(d)]
    BY <2>4
  <2>6. RefusedClients' = RefusedClients \cup {c}
    BY <1>1, <1>2, <1>3 DEF RefusedClients
  <2>7. QED
    BY <2>2, <2>3, <2>5, <2>6
    DEF Lease!Refuse, Lease!Held, LeaseOf, RefusedClients
<1>10. QED
  BY <1>1, <1>2, <1>5, <1>6, <1>7, <1>8, <1>9 DEF IInv

-----------------------------------------------------------------------------
(* Every step.                                                             *)

\* Every step keeps the invariant.
LEMMA NextStep ==
  ASSUME IInv, [Next]_vars
  PROVE  IInv' /\ (Lease!Next \/ LeaseStutters)
<1>1. ASSUME NEW c \in Client, NEW host \in Host, CurlCreate(c, host)
      PROVE  IInv' /\ Lease!Next
  BY <1>1, CurlCreateStep DEF Lease!Next
<1>2. ASSUME NEW c \in Client, NEW host \in Host, Refuse(c, host)
      PROVE  IInv' /\ Lease!Next
  BY <1>2, RefuseStep DEF Lease!Next
<1>3. ASSUME NEW c \in Client, NEW option \in Options, CurlAddOption(c, option)
      PROVE  IInv' /\ LeaseStutters
  BY <1>3, CurlAddOptionStep
<1>4. ASSUME NEW c \in Client, CurlOpen(c)
      PROVE  IInv' /\ LeaseStutters
  BY <1>4, CurlOpenStep
<1>5. ASSUME NEW c \in Client, Perform(c)
      PROVE  IInv' /\ LeaseStutters
  BY <1>5, PerformStep
<1>6. ASSUME NEW c \in Client, CloseClear(c)
      PROVE  IInv' /\ LeaseStutters
  BY <1>6, CloseClearStep
<1>7. ASSUME NEW c \in Client, CloseRelease(c)
      PROVE  IInv' /\ Lease!Next
  BY <1>7, CloseReleaseStep DEF Lease!Next
<1>8. ASSUME NEW c \in Client, CloseFile(c)
      PROVE  FALSE
  <2>1. Holding(c)
    BY <1>8 DEF CloseFile, Holding
  <2>2. QED
    BY <1>8, <2>1, HeldInstance DEF CloseFile
<1>9. ASSUME UNCHANGED vars
      PROVE  IInv' /\ LeaseStutters
  <2>1. UNCHANGED <<curlhandler, pc, handle, target, asked, ok, fault, http>>
    BY <1>9 DEF vars, clientVars
  <2>2. IInv'
    BY <2>1 DEF IInv, TypeOK, Marks, Handles, Contents, Holding, HeadersSent, ReadFile, StatusLine
  <2>3. LeaseStutters
    BY <2>1 DEF LeaseStutters, LeaseOf, RefusedClients, Holding
  <2>4. QED
    BY <2>2, <2>3
<1>10. QED
  BY <1>1, <1>2, <1>3, <1>4, <1>5, <1>6, <1>7, <1>8, <1>9
  DEF Next, IInv, Writes, OpenFileForWrite

\* Nothing in a step changes what the clients are.
LEMMA SameClients == [Next]_vars => http' = http
BY DEF Next, vars, CurlCreate, Refuse, CurlAddOption, CurlOpen, Perform,
       OpenFileForWrite, CloseFile, CloseClear, CloseRelease, Returned

(* At all times, if no thread writes files, the mark of every instance of  *)
(* curlhandler[] agrees with who was given it, no two clients were given   *)
(* the same, and what is in it belongs to the one that was.                *)
THEOREM PoolInvariant == Spec => [](http => IInv)
<1>1. Init => (http => IInv)
  BY InitIInv
<1>2. (http => IInv) /\ [Next]_vars => (http => IInv)'
  <2> SUFFICES ASSUME http => IInv, [Next]_vars, http' PROVE IInv'
    OBVIOUS
  <2>1. IInv
    BY SameClients
  <2>2. QED
    BY <2>1, NextStep
<1>3. QED
  BY <1>1, <1>2, PTL DEF Spec

(* The bodies, header fields and status lines of successful transfers that *)
(* a client of curl_open() and read_file() reads, and the header options   *)
(* that are sent for it, are its own, whatever the other threads do, if no *)
(* thread writes files.  Post data is not: m_postdata stays.               *)
THEOREM Separation == Spec => []ResponsesAreSeparate
<1>1. (http => IInv) => ResponsesAreSeparate
  BY DEF IInv, Contents, ResponsesAreSeparate, Holding
<1>2. QED
  BY <1>1, PoolInvariant, PTL

(* curl_create() and close_file() implement a pool that lends each         *)
(* instance to one client at a time and refuses only when all are lent, if *)
(* no thread writes files.                                                 *)
THEOREM LeasePoolRefinement == Spec => IsLeasePool
<1>1. Init => Lease!Init
  BY DEF Init, Lease!Init, Holding
<1>2. (http => IInv) /\ [Next]_vars => [Lease!Next]_(Lease!vars)
  <2> SUFFICES ASSUME http => IInv, [Next]_vars
               PROVE  [Lease!Next]_(Lease!vars)
    OBVIOUS
  <2>1. ASSUME LeaseStutters
        PROVE  UNCHANGED Lease!vars
    <3>1. [d \in Client |-> LeaseOf(d)'] = [d \in Client |-> LeaseOf(d)]
      BY <2>1 DEF LeaseStutters
    <3>2. RefusedClients' = RefusedClients
      BY <2>1 DEF LeaseStutters
    <3>3. QED
      BY <3>1, <3>2 DEF Lease!vars, LeaseOf, RefusedClients
  <2>2. CASE http
    <3>1. Lease!Next \/ LeaseStutters
      BY <2>2, NextStep
    <3>2. QED
      BY <2>1, <3>1
  <2>3. CASE ~http
    <3>1. \A d \in Client : LeaseOf(d)' = LeaseOf(d)
      BY <2>3, SameClients DEF LeaseOf
    <3>2. RefusedClients' = RefusedClients
      BY <2>3, SameClients DEF RefusedClients
    <3>3. LeaseStutters
      BY <3>1, <3>2 DEF LeaseStutters
    <3>4. QED
      BY <2>1, <3>3
  <2>4. QED
    BY <2>2, <2>3
<1>3. QED
  BY <1>1, <1>2, PoolInvariant, PTL DEF Spec, IsLeasePool, Lease!Spec

-----------------------------------------------------------------------------
(* With files or without: the types, and what a search leaves alone.       *)

\* get_curl_instance() takes no instance that is marked as busy.
LEMMA GotAny ==
  ASSUME TypeOK, NEW host \in Host \cup {NoHost}, NEW i \in Instance, Got(i, host)
  PROVE  Gotten(i, host) \in InstanceRecord /\ curlhandler[i].status # "C_BUSY"
<1>1. curlhandler[i] \in InstanceRecord
  BY DEF TypeOK
<1>2. Renamed(curlhandler[i], host) \in InstanceRecord
  <2>1. \A u \in Host \cup {NoHost, "freed"} :
          [curlhandler[i] EXCEPT !.url = u] \in InstanceRecord
    BY <1>1 DEF InstanceRecord
  <2>2. (IF host # NoHost THEN host
         ELSE IF curlhandler[i].url = NoHost THEN NoHost ELSE "freed")
          \in Host \cup {NoHost, "freed"}
    OBVIOUS
  <2>3. QED
    BY <2>1, <2>2 DEF Renamed
<1>3. Evicted(curlhandler[i], host) \in InstanceRecord
  BY <1>2 DEF Evicted, InstanceRecord
<1>4. QED
  BY <1>1, <1>2, <1>3 DEF Gotten, Got, Candidates, Reusable, Closed, Open

\* Whoever is given an instance, the variables keep their types.
LEMMA GivenAny ==
  ASSUME TypeOK, NEW c \in Client, NEW i \in Instance, NEW s \in InstanceRecord,
         NEW host \in Host \cup {NoHost}, NEW next \in {"created", "opened"},
         Given(c, i, s, host, next), ok' \in [Client -> BOOLEAN], UNCHANGED http
  PROVE  /\ TypeOK'
         /\ \A j \in Instance \ {i} : curlhandler'[j] = curlhandler[j]
<1>1. /\ curlhandler' = [curlhandler EXCEPT ![i] = s]
      /\ pc' = [pc EXCEPT ![c] = next]
      /\ handle' = [handle EXCEPT ![c] = i]
      /\ target' = [target EXCEPT ![c] = host]
      /\ asked' = [asked EXCEPT ![c] = {}]
      /\ fault' \in BOOLEAN
  BY DEF Given
<1>2. \A d \in Client : Holding(d)' => handle'[d] \in Instance
  BY <1>1 DEF TypeOK, Holding
<1>3. i \in Nat
  BY DEF Instance
<1>4. QED
  BY <1>1, <1>2, <1>3 DEF TypeOK

\* No step of a thread is a request of another, nor does one change a busy
\* instance when it is a request.
OnlyToTakers(c) ==
  /\ \A d \in Client \ {c} : Free(d)' = Free(d)
  /\ Free(c) /\ ~Free(c)' =>
       \A i \in Instance : curlhandler[i].status = "C_BUSY" =>
         curlhandler'[i] = curlhandler[i]

\* A request for a connection.
LEMMA CurlCreateAny ==
  ASSUME TypeOK, NEW c \in Client, NEW host \in Host, CurlCreate(c, host)
  PROVE  TypeOK' /\ OnlyToTakers(c)
<1>1. PICK i \in Instance :
        /\ Got(i, host)
        /\ \/ Given(c, i, Lent(Gotten(i, host)), host, "created")
           \/ Given(c, i, Gotten(i, host), host, "created")
  BY DEF CurlCreate, Lent
<1>2. Gotten(i, host) \in InstanceRecord /\ curlhandler[i].status # "C_BUSY"
  BY <1>1, GotAny
<1>3. Lent(Gotten(i, host)) \in InstanceRecord
  <2> DEFINE s == Gotten(i, host)
             used == IF s.curl = "null" THEN "easy" ELSE s.curl
  <2>1. Lent(s) = [s EXCEPT !.curl = used, !.fp = Nobody, !.status = "C_BUSY"]
    BY <1>2 DEF Lent, InstanceRecord
  <2>2. used \in {"null", "easy", "file"}
    BY <1>2 DEF InstanceRecord
  <2> HIDE DEF used, s
  <2>3. QED
    BY <1>2, <2>1, <2>2 DEF InstanceRecord, s
<1>4. UNCHANGED <<ok, http>> /\ ok' \in [Client -> BOOLEAN]
  BY DEF CurlCreate, TypeOK
<1>5. pc' = [pc EXCEPT ![c] = "created"]
  BY <1>1 DEF Given
<1>6. \A d \in Client \ {c} : Free(d)' = Free(d)
  BY <1>5 DEF TypeOK, Free
<1>7. TypeOK' /\ \A j \in Instance \ {i} : curlhandler'[j] = curlhandler[j]
  BY <1>1, <1>2, <1>3, <1>4, GivenAny
<1>8. QED
  BY <1>2, <1>6, <1>7 DEF OnlyToTakers

\* A request for a file that is written.
LEMMA OpenFileForWriteAny ==
  ASSUME TypeOK, NEW c \in Client, OpenFileForWrite(c)
  PROVE  TypeOK' /\ OnlyToTakers(c)
<1>1. PICK i \in Instance, success \in BOOLEAN :
        /\ Got(i, NoHost)
        /\ Given(c, i, [Gotten(i, NoHost) EXCEPT
                          !.fp = IF success THEN c ELSE Nobody,
                          !.curl = "file"], NoHost, "opened")
        /\ ok' = [ok EXCEPT ![c] = success]
  BY DEF OpenFileForWrite
<1>2. Gotten(i, NoHost) \in InstanceRecord /\ curlhandler[i].status # "C_BUSY"
  BY <1>1, GotAny
<1>3. [Gotten(i, NoHost) EXCEPT !.fp = IF success THEN c ELSE Nobody,
                                !.curl = "file"] \in InstanceRecord
  <2>1. (IF success THEN c ELSE Nobody) \in Origin \cup {Nobody}
    BY DEF Origin
  <2>2. QED
    BY <1>2, <2>1 DEF InstanceRecord
<1>4. UNCHANGED http /\ ok' \in [Client -> BOOLEAN]
  BY <1>1 DEF OpenFileForWrite, TypeOK
<1>5. pc' = [pc EXCEPT ![c] = "opened"]
  BY <1>1 DEF Given
<1>6. \A d \in Client \ {c} : Free(d)' = Free(d)
  BY <1>5 DEF TypeOK, Free
<1>7. TypeOK' /\ \A j \in Instance \ {i} : curlhandler'[j] = curlhandler[j]
  BY <1>1, <1>2, <1>3, <1>4, GivenAny
<1>8. QED
  BY <1>2, <1>6, <1>7 DEF OnlyToTakers

\* A thread works on the instance it was given, whoever has it too.
LEMMA WorkAny ==
  ASSUME TypeOK, NEW c \in Client, Holding(c), NEW s \in InstanceRecord,
         NEW next \in HoldingPc,
         curlhandler' = [curlhandler EXCEPT ![handle[c]] = s],
         pc' = [pc EXCEPT ![c] = next],
         UNCHANGED <<handle, target, http>>,
         asked' \in [Client -> SUBSET Options],
         ok' \in [Client -> BOOLEAN], fault' \in BOOLEAN
  PROVE  TypeOK' /\ OnlyToTakers(c)
<1>1. handle[c] \in Instance /\ ~Free(c)
  BY DEF TypeOK, Holding, Free
<1>2. \A d \in Client : Holding(d)' = Holding(d) /\ Free(d)' = Free(d)
  BY <1>1 DEF TypeOK, Holding, Free, HoldingPc
<1>3. pc' \in [Client -> {"idle", "refused", "created", "performing", "opened", "closing"}]
  BY DEF TypeOK, HoldingPc
<1>4. QED
  BY <1>1, <1>2, <1>3 DEF TypeOK, OnlyToTakers

\* An option is given.
LEMMA CurlAddOptionAny ==
  ASSUME TypeOK, NEW c \in Client, NEW option \in Options, CurlAddOption(c, option)
  PROVE  TypeOK' /\ OnlyToTakers(c)
<1> DEFINE old == curlhandler[handle[c]]
           new == CASE option = "postdata" -> [old EXCEPT !.post = c]
                    [] option = "User-Agent" -> [old EXCEPT !.useragent = "allocated"]
                    [] option = "header" -> [old EXCEPT !.header = @ \cup {c}]
<1>1. Holding(c) /\ pc[c] = "created"
  BY DEF CurlAddOption, Holding
<1>2. old \in InstanceRecord
  BY <1>1 DEF TypeOK
<1>3. new \in InstanceRecord
  <2>1. CASE option = "postdata"
    <3>1. new = [old EXCEPT !.post = c]
      BY <2>1
    <3> HIDE DEF new, old
    <3>2. QED
      BY <1>2, <3>1 DEF InstanceRecord, Origin
  <2>2. CASE option = "User-Agent"
    <3>1. new = [old EXCEPT !.useragent = "allocated"]
      BY <2>2
    <3> HIDE DEF new, old
    <3>2. QED
      BY <1>2, <3>1 DEF InstanceRecord
  <2>3. CASE option = "header"
    <3>1. new = [old EXCEPT !.header = old.header \cup {c}]
      BY <2>3
    <3>2. old.header \cup {c} \in SUBSET Origin
      BY <1>2 DEF InstanceRecord, Origin
    <3> HIDE DEF new, old
    <3>3. QED
      BY <1>2, <3>1, <3>2 DEF InstanceRecord
  <2>4. QED
    BY <2>1, <2>2, <2>3 DEF Options
<1>4. /\ curlhandler' = [curlhandler EXCEPT ![handle[c]] = new]
      /\ pc' = [pc EXCEPT ![c] = "created"]
      /\ UNCHANGED <<handle, target, http>>
      /\ asked' \in [Client -> SUBSET Options]
      /\ ok' \in [Client -> BOOLEAN] /\ fault' \in BOOLEAN
  BY <1>1 DEF CurlAddOption, TypeOK
<1> HIDE DEF new
<1>5. QED
  BY <1>1, <1>3, <1>4, WorkAny DEF HoldingPc

\* The options are set, or there is no handle to set them on.
LEMMA CurlOpenAny ==
  ASSUME TypeOK, NEW c \in Client, CurlOpen(c)
  PROVE  TypeOK' /\ OnlyToTakers(c)
<1>1. Holding(c) /\ curlhandler[handle[c]] \in InstanceRecord
  BY DEF CurlOpen, Holding, TypeOK
<1>2. /\ curlhandler' = [curlhandler EXCEPT ![handle[c]] = curlhandler[handle[c]]]
      /\ UNCHANGED <<handle, target, asked, http>>
      /\ asked' \in [Client -> SUBSET Options]
      /\ ok' \in [Client -> BOOLEAN] /\ fault' \in BOOLEAN
  BY DEF CurlOpen, TypeOK
<1>3. \/ pc' = [pc EXCEPT ![c] = "opened"]
      \/ pc' = [pc EXCEPT ![c] = "performing"]
  BY DEF CurlOpen
<1>4. CASE pc' = [pc EXCEPT ![c] = "opened"]
  BY <1>1, <1>2, <1>4, WorkAny DEF HoldingPc
<1>5. CASE pc' = [pc EXCEPT ![c] = "performing"]
  BY <1>1, <1>2, <1>5, WorkAny DEF HoldingPc
<1>6. QED
  BY <1>3, <1>4, <1>5

\* A transfer ends.
LEMMA PerformAny ==
  ASSUME TypeOK, NEW c \in Client, Perform(c)
  PROVE  TypeOK' /\ OnlyToTakers(c)
<1> DEFINE old == curlhandler[handle[c]]
<1>1. Holding(c) /\ old \in InstanceRecord
  BY DEF Perform, Holding, TypeOK
<1>2. /\ pc' = [pc EXCEPT ![c] = "opened"]
      /\ UNCHANGED <<handle, target, asked, http>>
      /\ asked' \in [Client -> SUBSET Options]
      /\ ok' \in [Client -> BOOLEAN] /\ fault' \in BOOLEAN
  BY PerformIs DEF TypeOK
<1>3. PICK s \in InstanceRecord : curlhandler' = [curlhandler EXCEPT ![handle[c]] = s]
  BY <1>1, PerformIs, ReceivedIs
<1> HIDE DEF old
<1>4. QED
  BY <1>1, <1>2, <1>3, WorkAny DEF HoldingPc

\* A file is closed, as far as the instance is cleared.
LEMMA CloseClearAny ==
  ASSUME TypeOK, NEW c \in Client, CloseClear(c)
  PROVE  TypeOK' /\ OnlyToTakers(c)
<1> DEFINE old == curlhandler[handle[c]]
           agent == IF old.useragent = "null" THEN "null" ELSE "freed"
           new == [old EXCEPT !.header = {}, !.response = {},
                              !.useragent = IF @ = "null" THEN "null" ELSE "freed"]
<1>1. Holding(c) /\ old \in InstanceRecord
  BY DEF CloseClear, Holding, TypeOK
<1>2. new \in InstanceRecord
  <2>1. agent \in {"null", "freed"}
    OBVIOUS
  <2>2. new = [old EXCEPT !.header = {}, !.response = {}, !.useragent = agent]
    BY <1>1 DEF InstanceRecord
  <2> HIDE DEF agent, new, old
  <2>3. QED
    BY <1>1, <2>1, <2>2 DEF InstanceRecord
<1>3. /\ curlhandler' = [curlhandler EXCEPT ![handle[c]] = new]
      /\ pc' = [pc EXCEPT ![c] = "closing"]
      /\ UNCHANGED <<handle, target, asked, ok, http>>
      /\ asked' \in [Client -> SUBSET Options]
      /\ ok' \in [Client -> BOOLEAN] /\ fault' \in BOOLEAN
  BY DEF CloseClear, TypeOK
<1> HIDE DEF new
<1>4. QED
  BY <1>1, <1>2, <1>3, WorkAny DEF HoldingPc

\* What is left of a closed request keeps its type.
LEMMA AgedAny ==
  ASSUME NEW c \in Client, NEW s \in InstanceRecord
  PROVE  /\ Aged(s, c) \in InstanceRecord
         /\ Aged(s, c).status = s.status /\ Aged(s, c).curl = s.curl
         /\ Aged(s, c).url = s.url /\ Aged(s, c).conn = s.conn
         /\ Aged(s, c).useragent = s.useragent
<1> DEFINE Old(x) == IF x = c THEN Earlier ELSE x
           H == {Old(x) : x \in s.header}
           R == {Old(x) : x \in s.response}
           l == Old(s.protoLine)
           p == Old(s.post)
           f == Old(s.fp)
<1>1. Aged(s, c) = [s EXCEPT !.header = H, !.response = R, !.protoLine = l,
                             !.post = p, !.fp = f]
  BY DEF Aged, InstanceRecord
<1>2. H \in SUBSET Origin /\ R \in SUBSET Origin
  BY DEF InstanceRecord, Origin
<1>3. {l, p, f} \subseteq Origin \cup {Nobody}
  BY DEF InstanceRecord, Origin
<1> HIDE DEF H, R, l, p, f
<1>4. QED
  BY <1>1, <1>2, <1>3 DEF InstanceRecord

\* A thread that gives its instance back holds none.
LEMMA ReturnedAny ==
  ASSUME TypeOK, NEW c \in Client, Holding(c), NEW s \in InstanceRecord,
         Returned(c, s)
  PROVE  TypeOK' /\ OnlyToTakers(c)
<1> DEFINE kept(i) == IF i = handle[c] THEN s ELSE curlhandler[i]
<1>1. /\ curlhandler' = [i \in Instance |-> Aged(kept(i), c)]
      /\ pc' = [pc EXCEPT ![c] = "idle"]
      /\ handle' = [handle EXCEPT ![c] = 0]
      /\ target' = [target EXCEPT ![c] = NoHost]
      /\ asked' = [asked EXCEPT ![c] = {}]
      /\ ok' = [ok EXCEPT ![c] = FALSE]
      /\ UNCHANGED <<fault, http>>
  BY DEF Returned
<1>2. \A i \in Instance : kept(i) \in InstanceRecord
  BY DEF TypeOK
<1> HIDE DEF kept
<1>3. curlhandler' \in [Instance -> InstanceRecord]
  BY <1>1, <1>2, AgedAny
<1>4. /\ \A d \in Client : Holding(d)' => Holding(d) /\ d # c
      /\ \A d \in Client \ {c} : Free(d)' = Free(d)
      /\ Free(c)'
  BY <1>1 DEF TypeOK, Holding, Free
<1>5. \A d \in Client : Holding(d)' => handle'[d] \in Instance
  BY <1>1, <1>4 DEF TypeOK
<1>6. TypeOK'
  BY <1>1, <1>3, <1>5 DEF TypeOK
<1>7. QED
  BY <1>4, <1>6 DEF OnlyToTakers

\* The two ways a handle is closed.
LEMMA CloseAny ==
  ASSUME TypeOK, NEW c \in Client, CloseFile(c) \/ CloseRelease(c)
  PROVE  TypeOK' /\ OnlyToTakers(c)
<1> DEFINE old == curlhandler[handle[c]]
<1>1. Holding(c) /\ old \in InstanceRecord
  BY DEF CloseFile, CloseRelease, Holding, TypeOK
<1>2. CASE CloseFile(c)
  <2>1. [old EXCEPT !.fp = Nobody, !.curl = "null", !.status = "C_CLOSE"]
          \in InstanceRecord
    BY <1>1 DEF InstanceRecord
  <2>2. QED
    BY <1>1, <1>2, <2>1, ReturnedAny DEF CloseFile
<1>3. CASE CloseRelease(c)
  <2>1. [old EXCEPT !.status = "C_OPEN"] \in InstanceRecord
    BY <1>1 DEF InstanceRecord
  <2>2. QED
    BY <1>1, <1>3, <2>1, ReturnedAny DEF CloseRelease
<1>4. QED
  BY <1>2, <1>3

\* A request is turned away.
LEMMA RefuseAny ==
  ASSUME TypeOK, NEW c \in Client, NEW host, Refuse(c, host)
  PROVE  TypeOK' /\ OnlyToTakers(c)
<1>1. /\ pc' = [pc EXCEPT ![c] = "refused"]
      /\ UNCHANGED <<curlhandler, handle, target, asked, ok, fault, http>>
  BY DEF Refuse
<1>2. /\ \A d \in Client : Holding(d)' => Holding(d)
      /\ \A d \in Client \ {c} : Free(d)' = Free(d)
      /\ Free(c)'
  BY <1>1 DEF TypeOK, Holding, Free
<1>3. TypeOK'
  BY <1>1, <1>2 DEF TypeOK
<1>4. QED
  BY <1>2, <1>3 DEF OnlyToTakers

\* Every step of a thread, whatever it does.
LEMMA NextAny ==
  ASSUME TypeOK, Next
  PROVE  TypeOK' /\ \E c \in Client : OnlyToTakers(c)
BY CurlCreateAny, RefuseAny, CurlAddOptionAny, CurlOpenAny, PerformAny,
   OpenFileForWriteAny, CloseAny, CloseClearAny DEF Next

(* The variables have their types, with threads that write files and with  *)
(* curl_easy_init() failing, and so every handle that the add-on holds is  *)
(* one of the instances of curlhandler[].                                  *)
THEOREM TypeCorrect == Spec => []TypeOK
<1>1. Init => TypeOK
  <2> SUFFICES ASSUME Init PROVE TypeOK
    OBVIOUS
  <2>1. \A c \in Client : ~Holding(c)
    BY DEF Init, Holding
  <2>2. QED
    BY <2>1, NewInstanceType DEF Init, TypeOK
<1>2. TypeOK /\ UNCHANGED vars => TypeOK'
  BY DEF TypeOK, vars, clientVars, Holding
<1>3. TypeOK /\ [Next]_vars => TypeOK'
  BY <1>2, NextAny
<1>4. QED
  BY <1>1, <1>3, PTL DEF Spec

(* curl_create() and open_file_for_write() change no instance that is      *)
(* marked as busy, also beside threads that write files: the shared        *)
(* instances those leave behind are not marked.                            *)
THEOREM BusyUntouched == Spec => BusyIsLeftAlone
<1> DEFINE Step == \A c \in Client, i \in Instance :
                     Free(c) /\ ~Free(c)' /\ curlhandler[i].status = "C_BUSY" =>
                       curlhandler'[i] = curlhandler[i]
<1>1. TypeOK /\ [Next]_vars => [Step]_vars
  <2> SUFFICES ASSUME TypeOK, Next PROVE Step
    OBVIOUS
  <2>1. PICK c \in Client : OnlyToTakers(c)
    BY NextAny
  <2>2. QED
    BY <2>1 DEF OnlyToTakers
<1>2. QED
  BY <1>1, TypeCorrect, PTL DEF Spec, BusyIsLeftAlone

-----------------------------------------------------------------------------
(* Connections, and memory that is not used again.                         *)

\* The connections were opened by requests for the host of the name.
OfTheHost(s) ==
  /\ \A link \in s.conn : link[1] = s.url
  /\ s.conn # {} => <<s.url, s.url>> \in s.conn /\ s.curl = "easy"

\* A name is the host of whoever has the instance.
Links ==
  /\ \A i \in Instance :
       /\ curlhandler[i].url # "freed"
       /\ OfTheHost(curlhandler[i])
       /\ curlhandler[i].status = "C_CLOSE" => curlhandler[i].conn = {}
  /\ \A c \in Client : Holding(c) =>
       /\ target[c] \in Host
       /\ curlhandler[handle[c]].url = target[c]

\* A thread that gave the User-Agent option finds the memory of it.
AgentIsThere(c) ==
  pc[c] \in {"created", "performing", "opened"} /\ "User-Agent" \in asked[c] =>
    curlhandler[handle[c]].useragent = "allocated"

Memory == ~fault /\ \A c \in Client : AgentIsThere(c)

\* They are inductive with IInv.
LInv == IInv /\ Links /\ Memory

\* The names and connections of the instance that is lent.
LEMMA CreateLinks ==
  ASSUME LInv, NEW c \in Client, NEW host \in Host, CurlCreate(c, host)
  PROVE  Links' /\ Memory'
<1>1. PICK i \in Instance : /\ Got(i, host)
                            /\ Given(c, i, Lent(Gotten(i, host)), host, "created")
  BY DEF CurlCreate, LInv, IInv, Lent
<1> DEFINE old == curlhandler[i]
           got == Gotten(i, host)
           s == Lent(got)
<1>2. /\ http /\ TypeOK /\ Marks /\ Handles /\ Links /\ Memory /\ ~Holding(c)
      /\ host # NoHost /\ host # "freed"
  BY PoolAssumption DEF LInv, IInv, CurlCreate, Free, Holding
<1>3. /\ old \in InstanceRecord /\ got \in InstanceRecord
      /\ old.status # "C_BUSY" /\ got.curl \in {"null", old.curl}
  BY <1>1, <1>2, GotIs
<1>4. got.url = host /\ OfTheHost(got)
  <2>1. CASE i \in Reusable(host)
    BY <2>1, <1>2 DEF Gotten, Reusable, Links
  <2>2. CASE i \notin Reusable(host) /\ i \in Closed
    <3>1. got.url = host /\ got.conn = old.conn
      BY <2>2, <1>2, <1>3 DEF Gotten, Renamed, InstanceRecord
    <3>2. old.conn = {}
      BY <2>2, <1>2 DEF Closed, Links
    <3>3. QED
      BY <3>1, <3>2 DEF OfTheHost
  <2>3. CASE i \notin Reusable(host) /\ i \notin Closed
    <3>1. got.url = host /\ got.conn = {}
      BY <2>3, <1>2, <1>3 DEF Gotten, Evicted, Renamed, InstanceRecord
    <3>2. QED
      BY <3>1 DEF OfTheHost
  <2>4. QED
    BY <2>1, <2>2, <2>3
<1>5. ~GotFault(i, host)
  BY <1>2 DEF GotFault, Links, Handles, Open
<1>6. s.url = host /\ s.status = "C_BUSY" /\ OfTheHost(s)
  <2>1. /\ s.url = got.url /\ s.conn = got.conn /\ s.status = "C_BUSY"
        /\ got.curl = "easy" => s.curl = "easy"
    BY <1>3 DEF Lent, InstanceRecord
  <2> HIDE DEF s, got
  <2>2. QED
    BY <1>4, <2>1 DEF OfTheHost
<1> HIDE DEF s, got
<1>7. /\ curlhandler' = [curlhandler EXCEPT ![i] = s]
      /\ pc' = [pc EXCEPT ![c] = "created"]
      /\ handle' = [handle EXCEPT ![c] = i]
      /\ target' = [target EXCEPT ![c] = host]
      /\ asked' = [asked EXCEPT ![c] = {}]
      /\ fault' = fault
  BY <1>1, <1>2, <1>5 DEF Given, s, got, TypeOK
<1>8. /\ \A j \in Instance : j # i => curlhandler'[j] = curlhandler[j]
      /\ curlhandler'[i] = s
      /\ \A d \in Client \ {c} :
           /\ pc'[d] = pc[d] /\ handle'[d] = handle[d]
           /\ target'[d] = target[d] /\ asked'[d] = asked[d]
           /\ Holding(d)' = Holding(d)
      /\ handle'[c] = i /\ target'[c] = host /\ asked'[c] = {}
  BY <1>2, <1>7 DEF TypeOK, Holding
<1>9. \A d \in Client : Holding(d) => handle[d] \in Instance /\ handle[d] # i
  BY <1>2, <1>3 DEF TypeOK, Marks
<1>10. Links'
  <2>1. \A j \in Instance :
          /\ curlhandler'[j].url # "freed"
          /\ OfTheHost(curlhandler'[j])
          /\ curlhandler'[j].status = "C_CLOSE" => curlhandler'[j].conn = {}
    BY <1>2, <1>6, <1>8 DEF Links
  <2>2. \A d \in Client : Holding(d)' =>
          target'[d] \in Host /\ curlhandler'[handle'[d]].url = target'[d]
    BY <1>2, <1>6, <1>8, <1>9 DEF Links
  <2>3. QED
    BY <2>1, <2>2 DEF Links, OfTheHost
<1>11. Memory'
  <2>1. \A d \in Client \ {c} : AgentIsThere(d)'
    BY <1>2, <1>8, <1>9 DEF Memory, AgentIsThere, Holding
  <2>2. AgentIsThere(c)'
    BY <1>8 DEF AgentIsThere
  <2>3. QED
    BY <1>2, <1>7, <2>1, <2>2 DEF Memory
<1>12. QED
  BY <1>10, <1>11

\* The names and connections when a thread works on its instance.
LEMMA OwnLinks ==
  ASSUME LInv, NEW c \in Client, Holding(c),
         NEW s \in InstanceRecord,
         s.url = curlhandler[handle[c]].url, s.status = "C_BUSY", s.curl = "easy",
         NEW reached \in SUBSET Host,
         \/ s.conn = curlhandler[handle[c]].conn
         \/ /\ target[c] \in reached
            /\ s.conn = curlhandler[handle[c]].conn \cup ({target[c]} \X reached),
         NEW next \in HoldingPc,
         curlhandler' = [curlhandler EXCEPT ![handle[c]] = s],
         pc' = [pc EXCEPT ![c] = next],
         UNCHANGED <<handle, target>>,
         \A d \in Client \ {c} : asked'[d] = asked[d],
         ~fault',
         next # "closing" /\ "User-Agent" \in asked'[c] => s.useragent = "allocated"
  PROVE  Links' /\ Memory'
<1> DEFINE old == curlhandler[handle[c]]
<1>1. TypeOK /\ Marks /\ Links /\ Memory /\ handle[c] \in Instance
  BY DEF LInv, IInv, TypeOK
<1>2. /\ \A j \in Instance : j # handle[c] => curlhandler'[j] = curlhandler[j]
      /\ curlhandler'[handle[c]] = s
      /\ \A d \in Client : Holding(d)' = Holding(d)
      /\ \A d \in Client \ {c} : pc'[d] = pc[d]
      /\ pc'[c] = next
  BY <1>1 DEF TypeOK, Holding, HoldingPc
<1>3. \A d \in Client : Holding(d) =>
        handle[d] \in Instance /\ (d # c => handle[d] # handle[c])
  BY <1>1 DEF TypeOK, Marks
<1>4. s.url # "freed" /\ s.url = target[c] /\ OfTheHost(old) /\ old.url = s.url
  BY <1>1 DEF Links
<1>5. OfTheHost(s)
  <2> HIDE DEF old
  <2>1. CASE s.conn = old.conn
    BY <2>1, <1>4 DEF OfTheHost
  <2>2. CASE target[c] \in reached /\ s.conn = old.conn \cup ({target[c]} \X reached)
    BY <2>2, <1>4 DEF OfTheHost
  <2>3. QED
    BY <2>1, <2>2 DEF old
<1>6. Links'
  <2>1. \A j \in Instance :
          /\ curlhandler'[j].url # "freed"
          /\ OfTheHost(curlhandler'[j])
          /\ curlhandler'[j].status = "C_CLOSE" => curlhandler'[j].conn = {}
    BY <1>1, <1>2, <1>4, <1>5 DEF Links
  <2>2. \A d \in Client : Holding(d)' =>
          target'[d] \in Host /\ curlhandler'[handle'[d]].url = target'[d]
    BY <1>1, <1>2, <1>3, <1>4 DEF Links
  <2>3. QED
    BY <2>1, <2>2 DEF Links, OfTheHost
<1>7. Memory'
  <2>1. \A d \in Client \ {c} : AgentIsThere(d)'
    BY <1>1, <1>2, <1>3 DEF Memory, AgentIsThere, Holding
  <2>2. AgentIsThere(c)'
    BY <1>2 DEF AgentIsThere
  <2>3. QED
    BY <2>1, <2>2 DEF Memory
<1>8. QED
  BY <1>6, <1>7

\* The steps of a thread that works on its instance.
LEMMA WorkLinks ==
  ASSUME LInv, NEW c \in Client,
         \/ \E option \in Options : CurlAddOption(c, option)
         \/ CurlOpen(c)
         \/ Perform(c)
         \/ CloseClear(c)
  PROVE  Links' /\ Memory'
<1> DEFINE old == curlhandler[handle[c]]
<1>1. IInv /\ http /\ TypeOK /\ Memory /\ Holding(c)
  BY DEF LInv, IInv, Holding, CurlAddOption, CurlOpen, Perform, CloseClear
<1>2. old \in InstanceRecord /\ old.status = "C_BUSY" /\ old.curl = "easy"
  BY <1>1, HeldInstance
<1>3. curlhandler = [curlhandler EXCEPT ![handle[c]] = old]
  BY <1>1 DEF TypeOK
<1>4. /\ ~fault
      /\ pc[c] \in {"created", "performing", "opened"} /\ "User-Agent" \in asked[c]
           => old.useragent = "allocated"
  BY <1>1 DEF Memory, AgentIsThere
<1>5. {} \in SUBSET Host
  OBVIOUS
<1> HIDE DEF old
<1>6. ASSUME NEW option \in Options, CurlAddOption(c, option)
      PROVE  Links' /\ Memory'
  <2> DEFINE new == CASE option = "postdata" -> [old EXCEPT !.post = c]
                      [] option = "User-Agent" -> [old EXCEPT !.useragent = "allocated"]
                      [] option = "header" -> [old EXCEPT !.header = @ \cup {c}]
  <2>1. /\ new \in InstanceRecord
        /\ new.url = old.url /\ new.status = "C_BUSY" /\ new.curl = "easy"
        /\ new.conn = old.conn
        /\ option = "User-Agent" => new.useragent = "allocated"
        /\ option # "User-Agent" => new.useragent = old.useragent
    <3>1. CASE option = "postdata"
      BY <3>1, <1>2 DEF InstanceRecord, Origin
    <3>2. CASE option = "User-Agent"
      BY <3>2, <1>2 DEF InstanceRecord
    <3>3. CASE option = "header"
      BY <3>3, <1>2 DEF InstanceRecord, Origin
    <3>4. QED
      BY <3>1, <3>2, <3>3 DEF Options
  <2>2. /\ curlhandler' = [curlhandler EXCEPT ![handle[c]] = new]
        /\ pc[c] = "created" /\ pc' = [pc EXCEPT ![c] = "created"]
        /\ UNCHANGED <<handle, target, fault>>
        /\ asked' = [asked EXCEPT ![c] = @ \cup {option}]
    BY <1>1, <1>6 DEF CurlAddOption, TypeOK, old
  <2> HIDE DEF new
  <2>3. /\ \A d \in Client \ {c} : asked'[d] = asked[d]
        /\ asked'[c] = asked[c] \cup {option}
    BY <1>1, <2>2 DEF TypeOK
  <2>4. "User-Agent" \in asked'[c] => new.useragent = "allocated"
    BY <1>4, <2>1, <2>2, <2>3
  <2>5. QED
    BY <1>1, <1>4, <1>5, <2>1, <2>2, <2>3, <2>4, OwnLinks DEF HoldingPc, old
<1>7. ASSUME CurlOpen(c)
      PROVE  Links' /\ Memory'
  <2>1. /\ pc[c] = "created" /\ pc' = [pc EXCEPT ![c] = "performing"]
        /\ UNCHANGED <<curlhandler, handle, target, asked>>
        /\ fault' = fault
    BY <1>1, <1>2, <1>4, <1>7 DEF CurlOpen, old, TypeOK
  <2>2. curlhandler' = [curlhandler EXCEPT ![handle[c]] = old]
    BY <1>3, <2>1
  <2>3. QED
    BY <1>1, <1>2, <1>4, <1>5, <2>1, <2>2, OwnLinks DEF HoldingPc, old
<1>8. ASSUME Perform(c)
      PROVE  Links' /\ Memory'
  <2>1. /\ pc[c] = "performing" /\ pc' = [pc EXCEPT ![c] = "opened"]
        /\ UNCHANGED <<handle, target, asked, fault>>
    BY <1>1, <1>8, PerformIs
  <2>2. ASSUME curlhandler' = [curlhandler EXCEPT ![handle[c]] = old]
        PROVE  Links' /\ Memory'
    BY <1>1, <1>2, <1>4, <1>5, <2>1, <2>2, OwnLinks DEF HoldingPc, old
  <2>3. ASSUME NEW reached \in SUBSET Host, target[c] \in reached,
               curlhandler' = [curlhandler EXCEPT ![handle[c]] = Received(old, c, reached)]
        PROVE  Links' /\ Memory'
    <3> DEFINE s == Received(old, c, reached)
    <3>1. /\ s \in InstanceRecord /\ s.status = "C_BUSY" /\ s.curl = "easy"
          /\ s.url = old.url /\ s.useragent = old.useragent
          /\ s.conn = old.conn \cup ({target[c]} \X reached)
      BY <1>1, <1>2, ReceivedIs
    <3> HIDE DEF s
    <3>2. curlhandler' = [curlhandler EXCEPT ![handle[c]] = s]
      BY <2>3 DEF s
    <3>3. QED
      BY <1>1, <1>4, <2>1, <2>3, <3>1, <3>2, OwnLinks DEF HoldingPc, old
  <2>4. QED
    BY <1>1, <1>8, <2>2, <2>3, PerformIs DEF old
<1>9. ASSUME CloseClear(c)
      PROVE  Links' /\ Memory'
  <2> DEFINE new == [old EXCEPT !.header = {}, !.response = {},
                                !.useragent = IF @ = "null" THEN "null" ELSE "freed"]
  <2>1. /\ pc' = [pc EXCEPT ![c] = "closing"]
        /\ UNCHANGED <<handle, target, asked, fault>>
        /\ curlhandler' = [curlhandler EXCEPT ![handle[c]] = new]
    BY <1>9 DEF CloseClear, old
  <2>2. /\ new \in InstanceRecord
        /\ new.url = old.url /\ new.status = "C_BUSY" /\ new.curl = "easy"
        /\ new.conn = old.conn
    BY <1>2 DEF InstanceRecord
  <2> HIDE DEF new
  <2>3. QED
    BY <1>1, <1>4, <1>5, <2>1, <2>2, OwnLinks DEF HoldingPc, old
<1>10. QED
  BY <1>6, <1>7, <1>8, <1>9

\* An instance that is given back keeps its name and its connections.
LEMMA ReleaseLinks ==
  ASSUME LInv, NEW c \in Client, CloseRelease(c)
  PROVE  Links' /\ Memory'
<1> DEFINE old == curlhandler[handle[c]]
           s == [old EXCEPT !.status = "C_OPEN"]
           kept(i) == IF i = handle[c] THEN s ELSE curlhandler[i]
<1>1. /\ TypeOK /\ Marks /\ Links /\ Memory /\ Holding(c)
      /\ old \in InstanceRecord /\ handle[c] \in Instance
  BY DEF LInv, IInv, CloseRelease, Holding, TypeOK
<1>2. /\ curlhandler' = [i \in Instance |-> Aged(kept(i), c)]
      /\ pc' = [pc EXCEPT ![c] = "idle"]
      /\ handle' = [handle EXCEPT ![c] = 0]
      /\ target' = [target EXCEPT ![c] = NoHost]
      /\ asked' = [asked EXCEPT ![c] = {}]
      /\ fault' = fault
  BY DEF CloseRelease, Returned
<1>3. /\ s \in InstanceRecord /\ s.url = old.url /\ s.conn = old.conn
      /\ s.curl = old.curl /\ s.status = "C_OPEN"
  BY <1>1 DEF InstanceRecord
<1> HIDE DEF s
<1>4. \A i \in Instance : kept(i) \in InstanceRecord
  BY <1>1, <1>3 DEF TypeOK
<1>5. \A i \in Instance :
        /\ curlhandler'[i].url = kept(i).url /\ curlhandler'[i].conn = kept(i).conn
        /\ curlhandler'[i].curl = kept(i).curl
        /\ curlhandler'[i].status = kept(i).status
        /\ curlhandler'[i].useragent = kept(i).useragent
  <2> HIDE DEF kept
  <2>1. \A i \in Instance : curlhandler'[i] = Aged(kept(i), c)
    BY <1>2
  <2>2. QED
    BY <1>4, <2>1, AgedAny
<1>6. /\ \A d \in Client \ {c} :
           /\ pc'[d] = pc[d] /\ handle'[d] = handle[d]
           /\ target'[d] = target[d] /\ asked'[d] = asked[d]
      /\ pc'[c] = "idle"
  BY <1>1, <1>2 DEF TypeOK
<1>7. \A d \in Client : Holding(d)' =>
        /\ d # c /\ Holding(d)
        /\ handle[d] \in Instance /\ handle[d] # handle[c]
  BY <1>1, <1>6 DEF Holding, TypeOK, Marks
<1>8. Links'
  <2>1. \A i \in Instance :
          /\ curlhandler'[i].url # "freed"
          /\ OfTheHost(curlhandler'[i])
          /\ curlhandler'[i].status = "C_CLOSE" => curlhandler'[i].conn = {}
    BY <1>1, <1>3, <1>5 DEF Links, OfTheHost
  <2>2. \A d \in Client : Holding(d)' =>
          target'[d] \in Host /\ curlhandler'[handle'[d]].url = target'[d]
    BY <1>1, <1>5, <1>6, <1>7 DEF Links
  <2>3. QED
    BY <2>1, <2>2 DEF Links, OfTheHost
<1>9. Memory'
  <2> SUFFICES ASSUME NEW d \in Client PROVE AgentIsThere(d)'
    BY <1>1, <1>2 DEF Memory
  <2>1. CASE d = c
    BY <2>1, <1>6 DEF AgentIsThere
  <2>2. CASE d # c
    BY <2>2, <1>1, <1>5, <1>6, <1>7 DEF Memory, AgentIsThere, Holding
  <2>3. QED
    BY <2>1, <2>2
<1>10. QED
  BY <1>8, <1>9

\* A refusal moves nothing.
LEMMA RefuseLinks ==
  ASSUME LInv, NEW c \in Client, NEW host, Refuse(c, host)
  PROVE  Links' /\ Memory'
<1>1. /\ TypeOK /\ Links /\ Memory /\ pc' = [pc EXCEPT ![c] = "refused"]
      /\ UNCHANGED <<curlhandler, handle, target, asked, fault>>
  BY DEF LInv, IInv, Refuse
<1>2. \A d \in Client : /\ Holding(d)' => Holding(d)
                        /\ pc'[d] \in {pc[d], "refused"}
  BY <1>1 DEF TypeOK, Holding
<1>3. QED
  BY <1>1, <1>2 DEF Links, OfTheHost, Memory, AgentIsThere

\* Every step.
LEMMA NextLinks ==
  ASSUME LInv, [Next]_vars
  PROVE  LInv'
<1>1. IInv' /\ IInv /\ http
  BY NextStep DEF LInv, IInv
<1>2. ASSUME NEW c \in Client, CloseFile(c) \/ OpenFileForWrite(c) \/ Writes(c)
      PROVE  FALSE
  <2>1. CloseFile(c)
    BY <1>1, <1>2 DEF Writes, OpenFileForWrite
  <2>2. Holding(c)
    BY <2>1 DEF CloseFile, Holding
  <2>3. QED
    BY <1>1, <2>1, <2>2, HeldInstance DEF CloseFile
<1>3. CASE UNCHANGED vars
  <2>1. Links' /\ Memory'
    BY <1>3 DEF vars, clientVars, LInv, Links, OfTheHost, Memory, AgentIsThere, Holding
  <2>2. QED
    BY <1>1, <2>1 DEF LInv
<1>4. CASE Next
  <2>1. Links' /\ Memory'
    BY <1>2, <1>4, CreateLinks, WorkLinks, ReleaseLinks, RefuseLinks DEF Next
  <2>2. QED
    BY <1>1, <2>1 DEF LInv
<1>5. QED
  BY <1>3, <1>4

(* At all times, if no thread writes files: the names, the connections and *)
(* the memory of every instance.                                           *)
LEMMA LinksInvariant == Spec => [](http => LInv)
<1>1. Init => (http => LInv)
  <2> SUFFICES ASSUME Init, http PROVE LInv
    OBVIOUS
  <2>1. IInv
    BY InitIInv
  <2>2. \A c \in Client : ~Holding(c) /\ pc[c] = "idle"
    BY DEF Init, Holding
  <2>3. Links
    BY <2>2, PoolAssumption DEF Init, Links, OfTheHost, NewInstance
  <2>4. Memory
    BY <2>2 DEF Init, Memory, AgentIsThere
  <2>5. QED
    BY <2>1, <2>3, <2>4 DEF LInv
<1>2. (http => LInv) /\ [Next]_vars => (http => LInv)'
  BY NextLinks, SameClients
<1>3. QED
  BY <1>1, <1>2, PTL DEF Spec

(* Whoever has an instance finds it named for the host he asked, and every *)
(* connection of its easy handle was opened by requests for that host, to  *)
(* it or along its redirects, however often instances are taken over, if   *)
(* no thread writes files.                                                 *)
THEOREM Connections == Spec => []KeptForItsHost
<1>1. (http => LInv) => KeptForItsHost
  BY DEF LInv, Links, OfTheHost, KeptForItsHost
<1>2. QED
  BY <1>1, LinksInvariant, PTL

(* No url and no easy handle is used or freed after it was freed, and the  *)
(* User-Agent that a request gives is there until it closes its handle, if *)
(* no thread writes files.  Nothing is assumed of the options a request    *)
(* gives, and nothing is claimed for one that gives no User-Agent: it does *)
(* use the freed one of an earlier request.                                *)
THEOREM MemorySafety == Spec => []NoFault
<1>1. (http => LInv) => NoFault
  BY HeldInstance DEF LInv, Memory, AgentIsThere, NoFault, Holding
<1>2. QED
  BY <1>1, LinksInvariant, PTL

\* A step of the pool lends no instance twice.
LEMMA ExclusiveStep ==
  Lease!Exclusive /\ [Lease!Next]_(Lease!vars) => Lease!Exclusive'
<1> DEFINE lease == [c \in Client |-> IF http /\ Holding(c) THEN {handle[c]} ELSE {}]
<1> SUFFICES ASSUME Lease!Exclusive, [Lease!Next]_(Lease!vars)
             PROVE  Lease!Exclusive'
  OBVIOUS
<1>1. DOMAIN lease = Client
  OBVIOUS
<1>2. \A c, d \in Client : c # d => lease[c] \cap lease[d] = {}
  BY DEF Lease!Exclusive
<1>3. SUFFICES \A c, d \in Client : c # d => lease'[c] \cap lease'[d] = {}
  BY DEF Lease!Exclusive
<1>4. ASSUME NEW c \in Client, NEW i \in Instance, Lease!Acquire(c, i)
      PROVE  \A d, e \in Client : d # e => lease'[d] \cap lease'[e] = {}
  <2>1. lease' = [lease EXCEPT ![c] = {i}] /\ i \notin UNION {lease[d] : d \in Client}
    BY <1>4 DEF Lease!Acquire, Lease!Held
  <2> HIDE DEF lease
  <2>2. \A d \in Client : i \notin lease[d]
    BY <2>1
  <2>3. QED
    BY <1>1, <1>2, <2>1, <2>2
<1>5. ASSUME NEW c \in Client, Lease!Release(c)
      PROVE  \A d, e \in Client : d # e => lease'[d] \cap lease'[e] = {}
  <2>1. lease' = [lease EXCEPT ![c] = {}]
    BY <1>5 DEF Lease!Release
  <2> HIDE DEF lease
  <2>2. QED
    BY <1>1, <1>2, <2>1
<1>6. ASSUME lease' = lease
      PROVE  \A d, e \in Client : d # e => lease'[d] \cap lease'[e] = {}
  <2> HIDE DEF lease
  <2>1. QED
    BY <1>2, <1>6
<1>7. QED
  BY <1>4, <1>5, <1>6 DEF Lease!Next, Lease!Refuse, Lease!vars

(* No two threads hold the same instance of curlhandler[], however many    *)
(* they are, while none writes files.                                      *)
THEOREM LentOnce == Spec => []Lease!Exclusive
<1>1. Lease!Init => Lease!Exclusive
  BY DEF Lease!Init, Lease!Exclusive
<1>2. IsLeasePool => []Lease!Exclusive
  BY <1>1, ExclusiveStep, PTL DEF IsLeasePool, Lease!Spec
<1>3. QED
  BY <1>2, LeasePoolRefinement, PTL
=============================================================================
