------------------------- MODULE FifoRequestProofs -------------------------
(***************************************************************************)
(* What holds of the fifo for any number of viewers and channels: the      *)
(* types of what goes through it, who has which end of it open, that a url *)
(* goes out with its own license, when zattood is left waiting, and that   *)
(* viewers which come in turn are answered for what they asked.            *)
(***************************************************************************)
EXTENDS FifoRequest, SequenceTheorems, TLAPS

Ending == [dir : {"none", "rd", "wr"}, open : BOOLEAN]
Number == Channel \cup {Unknown}
ViewerPlace ==
  {"start", "asking", "asked", "waiting", "reading", "read", "done", "killed"}
MainPlace ==
  {"start", "listening", "got", "looking", "answering", "opening", "written", "down"}

Other(dir) == IF dir = "rd" THEN "wr" ELSE "rd"

-----------------------------------------------------------------------------
(* The system calls.                                                       *)

\* open() settles one end, and the other ends that waited for it.
LEMMA OpenIs ==
  ASSUME end \in [Process -> Ending],
         NEW p \in Process, NEW dir \in {"rd", "wr"}, Open(p, dir)
  PROVE  /\ pipe' = pipe
         /\ end' \in [Process -> Ending]
         /\ end'[p].dir = dir
         /\ end'[p].open <=> \E q \in Process : end[q].dir = Other(dir)
         /\ \A q \in Process \ {p} :
              /\ end'[q].dir = end[q].dir
              /\ end'[q].open <=> (end[q].open \/ end[q].dir = Other(dir))
<1> DEFINE partners == {q \in Process : end[q].dir = Other(dir)}
<1>1. pipe' = pipe
  BY DEF Open
<1>2. end' = [q \in Process |->
                IF q = p THEN [dir |-> dir, open |-> partners # {}]
                ELSE IF q \in partners THEN [end[q] EXCEPT !.open = TRUE]
                ELSE end[q]]
  BY DEF Open, Ends, Other
<1>3. partners # {} <=> \E q \in Process : end[q].dir = Other(dir)
  OBVIOUS
<1>4. (partners # {}) \in BOOLEAN
  OBVIOUS
<1>5. \A q \in Process : q \in partners <=> end[q].dir = Other(dir)
  OBVIOUS
<1> HIDE DEF partners
<1>6. end'[p] = [dir |-> dir, open |-> partners # {}]
  BY <1>2
<1>7. ASSUME NEW q \in Process \ {p}
      PROVE  /\ end'[q] \in Ending
             /\ end'[q].dir = end[q].dir
             /\ end'[q].open <=> (end[q].open \/ end[q].dir = Other(dir))
  <2>1. end[q] \in Ending
    OBVIOUS
  <2>2. CASE q \in partners
    <3>1. end'[q] = [end[q] EXCEPT !.open = TRUE]
      BY <1>2, <2>2
    <3>2. QED
      BY <1>5, <2>1, <2>2, <3>1 DEF Ending
  <2>3. CASE q \notin partners
    <3>1. end'[q] = end[q]
      BY <1>2, <2>3
    <3>2. QED
      BY <1>5, <2>1, <2>3, <3>1
  <2>4. QED
    BY <2>2, <2>3
<1>8. end'[p] \in Ending
  BY <1>4, <1>6 DEF Ending
<1>9. end' \in [Process -> Ending]
  <2>1. end' = [q \in Process |-> end'[q]]
    BY <1>2
  <2>2. QED
    BY <1>7, <1>8, <2>1
<1>10. end'[p].dir = dir /\ end'[p].open = (partners # {})
  BY <1>6
<1>11. end'[p].open <=> \E q \in Process : end[q].dir = Other(dir)
  BY <1>3, <1>10, Zenon
<1>12. QED
  BY <1>1, <1>7, <1>9, <1>10, <1>11, Zenon

\* close() gives an end up; what is in the pipe stays while anybody has one.
LEMMA CloseIs ==
  ASSUME end \in [Process -> Ending], NEW p \in Process, Close(p)
  PROVE  /\ end' \in [Process -> Ending]
         /\ end'[p].dir = "none" /\ end'[p].open = FALSE
         /\ \A q \in Process \ {p} : end'[q] = end[q]
         /\ pipe' \in {pipe, <<>>}
         /\ (\E q \in Process \ {p} : end[q].dir # "none") => pipe' = pipe
<1>1. Closed \in Ending /\ Closed.dir = "none" /\ Closed.open = FALSE
  BY DEF Closed, Ending
<1>2. end' = [end EXCEPT ![p] = Closed]
  BY DEF Close
<1>3. end'[p] = Closed
  BY <1>2
<1>4. QED
  BY <1>1, <1>2, <1>3 DEF Close

-----------------------------------------------------------------------------
(* The pipe.                                                               *)

InPipe == {pipe[i] : i \in 1 .. Len(pipe)}

\* The requests that viewers are about to write.
Requests == {Request(wanted[v]) : v \in {u \in Viewer : pc[u] = "asking"}}

\* Append adds one message.
LEMMA Written ==
  ASSUME NEW S, NEW q \in Seq(S), NEW x \in S, pipe = q, pipe' = Append(q, x)
  PROVE  pipe' \in Seq(S) /\ InPipe' = InPipe \cup {x}
<1>1. /\ Append(q, x) \in Seq(S)
      /\ Len(q) \in Nat /\ Len(Append(q, x)) = Len(q) + 1
      /\ \A i \in 1 .. Len(q) : Append(q, x)[i] = q[i]
      /\ Append(q, x)[Len(q) + 1] = x
  BY AppendProperties, LenProperties
<1>2. ASSUME NEW m \in InPipe PROVE m \in InPipe'
  <2>1. PICK i \in 1 .. Len(q) : m = q[i]
    BY DEF InPipe
  <2>2. i \in 1 .. Len(pipe') /\ pipe'[i] = m
    BY <1>1, <2>1
  <2>3. QED
    BY <2>2 DEF InPipe
<1>3. x \in InPipe'
  <2>1. Len(q) + 1 \in 1 .. Len(pipe') /\ pipe'[Len(q) + 1] = x
    BY <1>1
  <2>2. QED
    BY <2>1 DEF InPipe
<1>4. ASSUME NEW m \in InPipe' PROVE m \in InPipe \cup {x}
  <2>1. PICK i \in 1 .. Len(pipe') : m = pipe'[i]
    BY DEF InPipe
  <2>2. i \in 1 .. Len(q) \/ i = Len(q) + 1
    BY <1>1, <2>1
  <2>3. QED
    BY <1>1, <2>1, <2>2 DEF InPipe
<1>5. QED
  BY <1>1, <1>2, <1>3, <1>4

\* What is in one sequence after another is in one of them.
LEMMA Joined ==
  ASSUME NEW S, NEW a \in Seq(S), NEW b \in Seq(S), NEW c, c = a \o b
  PROVE  /\ c \in Seq(S)
         /\ \A j \in 1 .. Len(c) :
              \/ \E k \in 1 .. Len(a) : c[j] = a[k]
              \/ \E k \in 1 .. Len(b) : c[j] = b[k]
<1>1. /\ c \in Seq(S)
      /\ Len(c) = Len(a) + Len(b)
      /\ \A j \in 1 .. Len(a) + Len(b) :
           c[j] = IF j <= Len(a) THEN a[j] ELSE b[j - Len(a)]
  BY ConcatProperties
<1>2. Len(a) \in Nat /\ Len(b) \in Nat
  BY LenProperties
<1>3. ASSUME NEW j \in 1 .. Len(c)
      PROVE  \/ \E k \in 1 .. Len(a) : c[j] = a[k]
             \/ \E k \in 1 .. Len(b) : c[j] = b[k]
  <2>1. CASE j <= Len(a)
    BY <1>1, <1>2, <2>1
  <2>2. CASE ~(j <= Len(a))
    <3>1. j - Len(a) \in 1 .. Len(b) /\ c[j] = b[j - Len(a)]
      BY <1>1, <1>2, <2>2
    <3>2. QED
      BY <3>1
  <2>3. QED
    BY <2>1, <2>2
<1>4. QED
  BY <1>1, <1>3

\* A later part of a sequence.
LEMMA Later ==
  ASSUME NEW S, NEW q \in Seq(S), NEW i \in 1 .. Len(q)
  PROVE  /\ SubSeq(q, i + 1, Len(q)) \in Seq(S)
         /\ \A j \in 1 .. Len(SubSeq(q, i + 1, Len(q))) :
              \E k \in 1 .. Len(q) : SubSeq(q, i + 1, Len(q))[j] = q[k]
<1>1. Len(q) \in Nat /\ i + 1 \in Int /\ Len(q) \in Int
  BY LenProperties
<1> DEFINE r == SubSeq(q, i + 1, Len(q))
<1>2. /\ r \in Seq(S)
      /\ Len(r) = IF i + 1 <= Len(q) THEN Len(q) - (i + 1) + 1 ELSE 0
      /\ \A j \in 1 .. Len(q) - (i + 1) + 1 : r[j] = q[i + 1 + j - 1]
  <2>1. \A j \in i + 1 .. Len(q) : q[j] \in S
    BY <1>1, ElementOfSeq
  <2>2. QED
    BY <1>1, <2>1, SubSeqProperties
<1> HIDE DEF r
<1>3. ASSUME NEW j \in 1 .. Len(r) PROVE \E k \in 1 .. Len(q) : r[j] = q[k]
  <2>1. j + i \in 1 .. Len(q) /\ r[j] = q[j + i]
    BY <1>1, <1>2
  <2>2. QED
    BY <2>1
<1>4. QED
  BY <1>2, <1>3 DEF r

\* What read() leaves in the pipe was there before, but for the rest of a reply.
LEMMA Joins ==
  ASSUME NEW rest \in Seq(Message), NEW tail \in Seq(Message), pipe' = rest \o tail,
         \A j \in 1 .. Len(rest) : rest[j] = Torn,
         \A j \in 1 .. Len(tail) : \E k \in 1 .. Len(pipe) : tail[j] = pipe[k]
  PROVE  pipe' \in Seq(Message) /\ InPipe' \subseteq InPipe \cup {Torn}
<1>1. /\ pipe' \in Seq(Message)
      /\ \A j \in 1 .. Len(pipe') :
           \/ \E k \in 1 .. Len(rest) : pipe'[j] = rest[k]
           \/ \E k \in 1 .. Len(tail) : pipe'[j] = tail[k]
  BY Joined
<1>2. ASSUME NEW m \in InPipe' PROVE m \in InPipe \cup {Torn}
  <2>1. PICK j \in 1 .. Len(pipe') : m = pipe'[j]
    BY DEF InPipe
  <2>2. CASE \E k \in 1 .. Len(rest) : pipe'[j] = rest[k]
    BY <2>1, <2>2
  <2>3. CASE \E k \in 1 .. Len(tail) : pipe'[j] = tail[k]
    <3>1. PICK k \in 1 .. Len(pipe) : m = pipe[k]
      BY <2>1, <2>3
    <3>2. QED
      BY <3>1 DEF InPipe
  <2>4. QED
    BY <1>1, <2>1, <2>2, <2>3
<1>3. QED
  BY <1>1, <1>2

\* The same for the two things that read() may leave of a reply.
LEMMA LeftOver ==
  ASSUME pipe \in Seq(Message), NEW i \in 1 .. Len(pipe),
         NEW rest \in {<<>>, <<Torn>>},
         pipe' = rest \o SubSeq(pipe, i + 1, Len(pipe))
  PROVE  pipe' \in Seq(Message) /\ InPipe' \subseteq InPipe \cup {Torn}
<1> DEFINE tail == SubSeq(pipe, i + 1, Len(pipe))
<1>1. /\ tail \in Seq(Message)
      /\ \A j \in 1 .. Len(tail) : \E k \in 1 .. Len(pipe) : tail[j] = pipe[k]
  BY Later
<1>2. Torn \in Message
  BY DEF Torn, Message, License
<1>3. rest \in Seq(Message) /\ \A j \in 1 .. Len(rest) : rest[j] = Torn
  <2>1. CASE rest = <<>>
    BY <2>1
  <2>2. CASE rest = <<Torn>>
    BY <1>2, <2>2
  <2>3. QED
    BY <2>1, <2>2
<1> HIDE DEF tail
<1>4. pipe' = rest \o tail
  BY DEF tail
<1>5. QED
  BY <1>1, <1>3, <1>4, Joins

\* What a step may put into the pipe.
LEMMA PipeStep ==
  ASSUME TypeOK, [Next]_vars
  PROVE  /\ pipe' \in Seq(Message)
         /\ InPipe' \subseteq InPipe \cup {Torn, Reply(url, license)} \cup Requests
<1> DEFINE Result == /\ pipe' \in Seq(Message)
                     /\ InPipe' \subseteq InPipe \cup {Torn, Reply(url, license)} \cup Requests
<1>1. pipe \in Seq(Message)
  BY DEF TypeOK
<1>2. ASSUME pipe' = pipe PROVE Result
  BY <1>1, <1>2 DEF InPipe
<1>3. ASSUME pipe' = <<>> PROVE Result
  <2>1. InPipe' = {}
    BY <1>3 DEF InPipe
  <2>2. QED
    BY <1>3, <2>1
<1>4. ASSUME NEW p \in Process, Close(p) PROVE Result
  BY <1>2, <1>3, <1>4 DEF Close
<1>5. ASSUME NEW v \in Viewer, Ask(v) PROVE Result
  <2>1. CASE Ends("rd") # {}
    <3>1. pipe' = Append(pipe, Request(wanted[v])) /\ pc[v] = "asking"
      BY <1>5, <2>1 DEF Ask
    <3>2. Request(wanted[v]) \in Message
      BY DEF Request, Message, License, TypeOK
    <3>3. QED
      BY <1>1, <3>1, <3>2, Written DEF Requests
  <2>2. CASE Ends("rd") = {}
    BY <1>4, <1>5, <2>2 DEF Ask, Process
  <2>3. QED
    BY <2>1, <2>2
<1>6. ASSUME WriteAnswer PROVE Result
  <2>1. CASE Ends("rd") # {}
    <3>1. pipe' = Append(pipe, Reply(url, license))
      BY <1>6, <2>1 DEF WriteAnswer
    <3>2. Reply(url, license) \in Message
      BY DEF Reply, Message, TypeOK
    <3>3. QED
      BY <1>1, <3>1, <3>2, Written
  <2>2. CASE Ends("rd") = {}
    BY <1>4, <1>6, <2>2 DEF WriteAnswer, Process
  <2>3. QED
    BY <2>1, <2>2
<1>7. ASSUME ReadRequest PROVE Result
  <2> DEFINE others == {i \in 1 .. Len(pipe) : pipe[i].kind # "request"}
  <2>1. CASE others = {}
    BY <1>3, <1>7, <2>1 DEF ReadRequest
  <2>2. CASE others # {}
    <3>1. PICK i \in 1 .. Len(pipe), rest \in {<<>>, <<Torn>>} :
            pipe' = rest \o SubSeq(pipe, i + 1, Len(pipe))
      BY <1>7, <2>2 DEF ReadRequest
    <3>2. QED
      BY <1>1, <3>1, LeftOver
  <2>3. QED
    BY <2>1, <2>2
<1>8. ASSUME NEW v \in Viewer, ViewerStep(v) \/ Kill(v) \/ \E c \in Number : Start(v, c)
      PROVE  Result
  <2>1. CASE Ask(v)
    BY <1>5, <2>1
  <2>2. CASE CloseRequest(v) \/ CloseReply(v) \/ Kill(v)
    BY <1>4, <2>2 DEF CloseRequest, CloseReply, Kill, Process
  <2>3. CASE OpenReply(v)
    BY <1>2, <2>3 DEF OpenReply, Open
  <2>4. CASE ReadReply(v)
    BY <1>3, <2>4 DEF ReadReply
  <2>5. CASE \E c \in Number : Start(v, c)
    BY <1>2, <2>5 DEF Start, Open
  <2>6. QED
    BY <1>8, <2>1, <2>2, <2>3, <2>4, <2>5 DEF ViewerStep
<1>9. ASSUME MainStep \/ Crash PROVE Result
  <2>1. CASE ReadRequest
    BY <1>7, <2>1
  <2>2. CASE WriteAnswer
    BY <1>6, <2>2
  <2>3. CASE StopListening \/ CloseAnswer \/ Crash
    BY <1>4, <2>3 DEF StopListening, CloseAnswer, Crash, Process
  <2>4. CASE Listen \/ OpenAnswer
    BY <1>2, <2>4 DEF Listen, OpenAnswer, Open
  <2>5. CASE UseSaved \/ (\E l \in License : LookUp(l) \/ Fail(l)) \/ Restart
    BY <1>2, <2>5 DEF UseSaved, LookUp, Fail, Restart
  <2>6. QED
    BY <1>9, <2>1, <2>2, <2>3, <2>4, <2>5 DEF MainStep
<1>10. CASE UNCHANGED vars
  BY <1>2, <1>10 DEF vars
<1>11. QED
  BY <1>8, <1>9, <1>10 DEF Next, Number

-----------------------------------------------------------------------------
(* The types.                                                              *)

\* Requests are for numbers, which read() must find when it takes one.
Asked ==
  /\ \A v \in Viewer : pc[v] = "asking" => wanted[v] \in Number
  /\ \A m \in InPipe : m.kind = "request" => m.url \in Number

TInv == TypeOK /\ pc \in [Process -> ViewerPlace \cup MainPlace] /\ Asked

\* Nothing was asked for at the start.
LEMMA InitTInv == Init => TInv
<1> SUFFICES ASSUME Init PROVE TInv
  OBVIOUS
<1>1. InPipe = {}
  BY DEF Init, InPipe
<1>2. pc \in [Process -> ViewerPlace \cup MainPlace] /\ \A p \in Process : pc[p] = "start"
  BY DEF Init, ViewerPlace
<1>3. Asked
  BY <1>1, <1>2 DEF Asked, Process
<1>4. TypeOK
  <2>1. pipe \in Seq(Message)
    BY DEF Init
  <2>2. end \in [Process -> [dir : {"none", "rd", "wr"}, open : BOOLEAN]]
    BY DEF Init, Closed
  <2>3. /\ \A v \in Viewer : pc[v] = "start"
        /\ pc[Zattood] = "start"
    BY <1>2 DEF Process
  <2>4. /\ wanted \in [Viewer -> Channel \cup {Unknown, Nothing}]
        /\ answer \in [Viewer -> Message \cup {Nothing}]
        /\ saved \in [Channel -> BOOLEAN]
        /\ widevine \in [Channel -> Channel \cup {Plain}]
    BY DEF Init
  <2>5. /\ request \in Channel \cup {Unknown}
        /\ url \in Channel \cup {Error, Nothing}
        /\ license \in License
        /\ crossed \in BOOLEAN /\ turns \in BOOLEAN /\ complete \in BOOLEAN
    BY DEF Init, License
  <2>6. QED
    BY <2>1, <2>2, <2>3, <2>4, <2>5 DEF TypeOK
<1>5. QED
  BY <1>2, <1>3, <1>4 DEF TInv

\* The first message is one of those in the pipe.
LEMMA FirstIs ==
  ASSUME pipe \in Seq(Message), pipe # <<>>
  PROVE  Head(pipe) \in InPipe /\ Head(pipe) \in Message
<1>1. Len(pipe) \in Nat \ {0} /\ Head(pipe) = pipe[1] /\ Head(pipe) \in Message
  BY EmptySeq, HeadTailProperties
<1>2. 1 \in 1 .. Len(pipe)
  BY <1>1
<1>3. QED
  BY <1>1, <1>2 DEF InPipe

\* Ends stay ends.
LEMMA EndingStep ==
  ASSUME end \in [Process -> Ending], [Next]_vars
  PROVE  end' \in [Process -> Ending]
<1>1. ASSUME NEW p \in Process, NEW dir \in {"rd", "wr"}, Open(p, dir)
      PROVE  end' \in [Process -> Ending]
  BY <1>1, OpenIs
<1>2. ASSUME NEW p \in Process, Close(p)
      PROVE  end' \in [Process -> Ending]
  BY <1>2, CloseIs
<1>3. ASSUME end' = end PROVE end' \in [Process -> Ending]
  BY <1>3
<1>4. ASSUME NEW v \in Viewer, ViewerStep(v) \/ Kill(v) \/ \E c \in Number : Start(v, c)
      PROVE  end' \in [Process -> Ending]
  <2>1. CASE Ask(v)
    BY <1>2, <1>3, <2>1 DEF Ask, Process
  <2>2. CASE CloseRequest(v) \/ CloseReply(v) \/ Kill(v)
    BY <1>2, <2>2 DEF CloseRequest, CloseReply, Kill, Process
  <2>3. CASE OpenReply(v) \/ \E c \in Number : Start(v, c)
    BY <1>1, <2>3 DEF OpenReply, Start, Process
  <2>4. CASE ReadReply(v)
    BY <1>3, <2>4 DEF ReadReply
  <2>5. QED
    BY <1>4, <2>1, <2>2, <2>3, <2>4 DEF ViewerStep
<1>5. ASSUME MainStep \/ Crash PROVE end' \in [Process -> Ending]
  <2>1. CASE WriteAnswer
    BY <1>2, <1>3, <2>1 DEF WriteAnswer, Process
  <2>2. CASE StopListening \/ CloseAnswer \/ Crash
    BY <1>2, <2>2 DEF StopListening, CloseAnswer, Crash, Process
  <2>3. CASE Listen \/ OpenAnswer
    BY <1>1, <2>3 DEF Listen, OpenAnswer, Process
  <2>4. CASE ReadRequest \/ UseSaved \/ (\E l \in License : LookUp(l) \/ Fail(l)) \/ Restart
    BY <1>3, <2>4 DEF ReadRequest, UseSaved, LookUp, Fail, Restart
  <2>5. QED
    BY <1>5, <2>1, <2>2, <2>3, <2>4 DEF MainStep
<1>6. CASE UNCHANGED vars
  BY <1>3, <1>6 DEF vars
<1>7. QED
  BY <1>4, <1>5, <1>6 DEF Next, Number

\* A viewer's steps move it and nobody else, and so do those of zattood.
LEMMA PlaceStep ==
  ASSUME TInv, [Next]_vars
  PROVE  /\ pc' \in [Process -> ViewerPlace \cup MainPlace]
         /\ \A v \in Viewer : pc'[v] \in ViewerPlace
         /\ pc'[Zattood] \in MainPlace
<1> DEFINE Result == /\ pc' \in [Process -> ViewerPlace \cup MainPlace]
                     /\ \A v \in Viewer : pc'[v] \in ViewerPlace
                     /\ pc'[Zattood] \in MainPlace
<1>1. /\ pc \in [Process -> ViewerPlace \cup MainPlace]
      /\ \A v \in Viewer : pc[v] \in ViewerPlace /\ v \in Process
      /\ pc[Zattood] \in MainPlace /\ Zattood \in Process /\ Zattood \notin Viewer
  BY FifoAssumption DEF TInv, TypeOK, ViewerPlace, MainPlace, Process
<1>2. ASSUME NEW v \in Viewer, NEW where \in ViewerPlace, Go(v, where) PROVE Result
  BY <1>1, <1>2 DEF Go
<1>3. ASSUME NEW where \in MainPlace, Go(Zattood, where) PROVE Result
  BY <1>1, <1>3 DEF Go
<1>4. ASSUME NEW v \in Viewer, ViewerStep(v) \/ Kill(v) \/ \E c \in Number : Start(v, c)
      PROVE  Result
  <2>1. \E where \in ViewerPlace : Go(v, where)
    BY <1>4 DEF ViewerStep, Ask, CloseRequest, OpenReply, ReadReply, CloseReply, Kill,
                Start, ViewerPlace
  <2>2. QED
    BY <1>2, <2>1
<1>5. ASSUME MainStep \/ Crash PROVE Result
  <2>1. CASE Listen \/ ReadRequest \/ StopListening \/ UseSaved \/ OpenAnswer
    <3>1. \E where \in MainPlace : Go(Zattood, where)
      BY <2>1 DEF Listen, ReadRequest, StopListening, UseSaved, OpenAnswer, MainPlace
    <3>2. QED
      BY <1>3, <3>1
  <2>2. CASE (\E l \in License : LookUp(l) \/ Fail(l)) \/ WriteAnswer \/ CloseAnswer \/ Restart \/ Crash
    <3>1. \E where \in MainPlace : Go(Zattood, where)
      BY <2>2 DEF LookUp, Fail, WriteAnswer, CloseAnswer, Restart, Crash, MainPlace
    <3>2. QED
      BY <1>3, <3>1
  <2>3. QED
    BY <1>5, <2>1, <2>2 DEF MainStep
<1>6. CASE UNCHANGED vars
  BY <1>1, <1>6 DEF vars
<1>7. QED
  BY <1>4, <1>5, <1>6 DEF Next, Number

\* What was asked for and answered keeps to its types.
LEMMA ViewerDataStep ==
  ASSUME TInv, [Next]_vars
  PROVE  /\ wanted' \in [Viewer -> Number \cup {Nothing}]
         /\ answer' \in [Viewer -> Message \cup {Nothing}]
         /\ turns' = turns /\ complete' = complete
<1> DEFINE Result == /\ wanted' \in [Viewer -> Number \cup {Nothing}]
                     /\ answer' \in [Viewer -> Message \cup {Nothing}]
                     /\ turns' = turns /\ complete' = complete
<1>1. /\ wanted \in [Viewer -> Number \cup {Nothing}]
      /\ answer \in [Viewer -> Message \cup {Nothing}]
      /\ pipe \in Seq(Message)
  BY DEF TInv, TypeOK, Number
<1>2. ASSUME UNCHANGED viewerVars, UNCHANGED mode PROVE Result
  BY <1>1, <1>2 DEF viewerVars, mode
<1>3. ASSUME NEW v \in Viewer, ViewerStep(v) \/ Kill(v) \/ \E c \in Number : Start(v, c)
      PROVE  Result
  <2>1. CASE Ask(v) \/ CloseRequest(v) \/ OpenReply(v) \/ CloseReply(v)
    BY <1>2, <2>1 DEF Ask, CloseRequest, OpenReply, CloseReply
  <2>2. CASE ReadReply(v)
    <3> DEFINE reply == IF pipe = <<>> THEN Torn ELSE Head(pipe)
    <3>1. Torn \in Message
      BY DEF Torn, Message, License
    <3>2. reply \in Message
      BY <1>1, <3>1, FirstIs
    <3>3. answer' = [answer EXCEPT ![v] = reply] /\ UNCHANGED <<wanted, turns, complete>>
      BY <2>2 DEF ReadReply, mode
    <3> HIDE DEF reply
    <3>4. QED
      BY <1>1, <3>2, <3>3
  <2>3. CASE Kill(v)
    BY <1>1, <2>3 DEF Kill, mode
  <2>4. CASE \E c \in Number : Start(v, c)
    BY <1>1, <2>4 DEF Start, mode
  <2>5. QED
    BY <1>3, <2>1, <2>2, <2>3, <2>4 DEF ViewerStep
<1>4. ASSUME MainStep \/ Crash PROVE Result
  <2>1. CASE Listen \/ ReadRequest \/ StopListening \/ UseSaved \/ OpenAnswer
    BY <1>2, <2>1 DEF Listen, ReadRequest, StopListening, UseSaved, OpenAnswer
  <2>2. CASE (\E l \in License : LookUp(l) \/ Fail(l)) \/ WriteAnswer \/ CloseAnswer \/ Restart \/ Crash
    BY <1>2, <2>2 DEF LookUp, Fail, WriteAnswer, CloseAnswer, Restart, Crash
  <2>3. QED
    BY <1>4, <2>1, <2>2 DEF MainStep
<1>5. CASE UNCHANGED vars
  BY <1>2, <1>5 DEF vars, mode, viewerVars
<1>6. QED
  BY <1>3, <1>4, <1>5 DEF Next, Number

MainTypes ==
  /\ request \in Number
  /\ url \in Channel \cup {Error, Nothing}
  /\ license \in License
  /\ saved \in [Channel -> BOOLEAN]
  /\ widevine \in [Channel -> Channel \cup {Plain}]
  /\ crossed \in BOOLEAN

\* What zattood keeps to itself keeps to its types.
LEMMA MainDataStep == TInv /\ [Next]_vars => MainTypes'
<1> SUFFICES ASSUME TInv, [Next]_vars PROVE MainTypes'
  OBVIOUS
<1>1. MainTypes
  BY DEF TInv, TypeOK, MainTypes, Number
<1>2. ASSUME UNCHANGED mainVars PROVE MainTypes'
  BY <1>1, <1>2 DEF MainTypes, mainVars
<1>3. ASSUME NEW v \in Viewer, ViewerStep(v) \/ Kill(v) \/ \E c \in Number : Start(v, c)
      PROVE  MainTypes'
  BY <1>2, <1>3
  DEF ViewerStep, Ask, CloseRequest, OpenReply, ReadReply, CloseReply, Kill, Start
<1>4. ASSUME MainStep \/ Crash PROVE MainTypes'
  <2>1. CASE Listen \/ StopListening \/ OpenAnswer \/ CloseAnswer \/ Crash
    BY <1>2, <2>1 DEF Listen, StopListening, OpenAnswer, CloseAnswer, Crash
  <2>2. CASE ReadRequest
    <3>1. request' \in Number
      <4>1. CASE pipe = <<>>
        BY <1>1, <2>2, <4>1 DEF ReadRequest, MainTypes
      <4>2. CASE pipe # <<>>
        <5>1. Head(pipe) \in InPipe
          BY <4>2, FirstIs DEF TInv, TypeOK
        <5>2. CASE Head(pipe).kind = "request"
          <6>1. Head(pipe).url \in Number
            BY <5>1, <5>2 DEF TInv, Asked
          <6>2. request' = Head(pipe).url
            BY <2>2, <4>2, <5>2 DEF ReadRequest
          <6>3. QED
            BY <6>1, <6>2
        <5>3. CASE Head(pipe).kind = "reply"
          <6>1. request' = Unknown
            BY <2>2, <4>2, <5>3 DEF ReadRequest
          <6>2. QED
            BY <6>1 DEF Number
        <5>4. CASE Head(pipe).kind \notin {"request", "reply"}
          <6>1. request' \in Channel \cup {Unknown}
            BY <2>2, <4>2, <5>4 DEF ReadRequest
          <6>2. QED
            BY <6>1 DEF Number
        <5>5. QED
          BY <5>2, <5>3, <5>4
      <4>3. QED
        BY <4>1, <4>2
    <3>2. crossed' \in BOOLEAN
      BY <1>1, <2>2 DEF ReadRequest, MainTypes
    <3>3. UNCHANGED <<url, license, saved, widevine>>
      BY <2>2 DEF ReadRequest
    <3>4. QED
      BY <1>1, <3>1, <3>2, <3>3 DEF MainTypes
  <2>3. CASE UseSaved
    BY <1>1, <2>3 DEF UseSaved, MainTypes, License
  <2>4. ASSUME NEW l \in License, LookUp(l) PROVE MainTypes'
    BY <1>1, <2>4 DEF LookUp, MainTypes, License
  <2>5. ASSUME NEW l \in License, Fail(l) PROVE MainTypes'
    BY <1>1, <2>5 DEF Fail, MainTypes, License
  <2>6. CASE WriteAnswer
    BY <1>1, <1>2, <2>6 DEF WriteAnswer, MainTypes
  <2>7. CASE Restart
    BY <1>1, <2>7 DEF Restart, MainTypes, License, Number
  <2>8. QED
    BY <1>4, <2>1, <2>2, <2>3, <2>4, <2>5, <2>6, <2>7 DEF MainStep
<1>5. CASE UNCHANGED vars
  BY <1>2, <1>5 DEF vars
<1>6. QED
  BY <1>3, <1>4, <1>5 DEF Next, Number

\* A request is for the number its viewer is for.
LEMMA AskedStep == TInv /\ [Next]_vars => Asked'
<1> SUFFICES ASSUME TInv, [Next]_vars PROVE Asked'
  OBVIOUS
<1>1. ASSUME NEW v \in Viewer, pc'[v] = "asking" PROVE wanted'[v] \in Number
  <2>1. /\ pc \in [Process -> ViewerPlace \cup MainPlace]
        /\ wanted \in [Viewer -> Number \cup {Nothing}]
        /\ pc[v] = "asking" => wanted[v] \in Number
        /\ v \in Process /\ Zattood \in Process /\ v # Zattood
    BY FifoAssumption DEF TInv, TypeOK, Asked, Number, Process
  <2>2. ASSUME wanted' = wanted,
               pc' = pc \/ \E p \in Process : \E where : where # "asking" /\ Go(p, where)
        PROVE  wanted'[v] \in Number
    BY <1>1, <2>1, <2>2 DEF Go
  <2>3. ASSUME NEW u \in Viewer, ViewerStep(u) PROVE wanted'[v] \in Number
    BY <2>2, <2>3 DEF ViewerStep, Ask, CloseRequest, OpenReply, ReadReply, CloseReply,
                      viewerVars, Process
  <2>4. ASSUME NEW u \in Viewer, Kill(u) PROVE wanted'[v] \in Number
    BY <1>1, <2>1, <2>4 DEF Kill, Go
  <2>5. ASSUME NEW u \in Viewer, NEW c \in Number, Start(u, c) PROVE wanted'[v] \in Number
    BY <1>1, <2>1, <2>5 DEF Start, Go
  <2>6. CASE MainStep \/ Crash
    <3>1. CASE Listen \/ ReadRequest \/ StopListening \/ UseSaved \/ OpenAnswer
      BY <2>2, <3>1 DEF Listen, ReadRequest, StopListening, UseSaved, OpenAnswer,
                        viewerVars, Process
    <3>2. CASE \/ \E l \in License : LookUp(l) \/ Fail(l)
               \/ WriteAnswer \/ CloseAnswer \/ Restart \/ Crash
      BY <2>2, <3>2 DEF LookUp, Fail, WriteAnswer, CloseAnswer, Restart, Crash,
                        viewerVars, Process
    <3>3. QED
      BY <2>6, <3>1, <3>2 DEF MainStep
  <2>7. CASE UNCHANGED vars
    BY <2>2, <2>7 DEF vars, viewerVars
  <2>8. QED
    BY <2>3, <2>4, <2>5, <2>6, <2>7 DEF Next, Number
<1>2. ASSUME NEW m \in InPipe', m.kind = "request" PROVE m.url \in Number
  <2>1. m \in InPipe \cup {Torn, Reply(url, license)} \cup Requests
    BY PipeStep DEF TInv
  <2>2. m # Torn /\ m # Reply(url, license)
    BY <1>2 DEF Torn, Reply
  <2>3. CASE m \in InPipe
    BY <1>2, <2>3 DEF TInv, Asked
  <2>4. CASE m \in Requests
    BY <2>4 DEF TInv, Asked, Requests, Request
  <2>5. QED
    BY <2>1, <2>2, <2>3, <2>4
<1>3. QED
  BY <1>1, <1>2 DEF Asked

\* Every step keeps the types.
LEMMA TInvStep == TInv /\ [Next]_vars => TInv'
<1> SUFFICES ASSUME TInv, [Next]_vars PROVE TInv'
  OBVIOUS
<1>1. end' \in [Process -> Ending]
  BY EndingStep DEF TInv, TypeOK, Ending
<1>2. pipe' \in Seq(Message)
  BY PipeStep DEF TInv
<1>3. MainTypes' /\ Asked'
  BY MainDataStep, AskedStep
<1>4. turns \in BOOLEAN /\ complete \in BOOLEAN
  BY DEF TInv, TypeOK
<1>5. QED
  BY <1>1, <1>2, <1>3, <1>4, PlaceStep, ViewerDataStep
  DEF TInv, TypeOK, Ending, MainTypes, Number, ViewerPlace, MainPlace

(* Only numbers are asked for and only streams, errors or a torn rest come *)
(* out of the fifo, in whatever order viewers and zattood open, write,     *)
(* read and close it and whoever is killed between two of these calls.     *)
THEOREM TypeCorrect == Spec => []TypeOK
<1>1. TInv => TypeOK
  BY DEF TInv
<1>2. QED
  BY InitTInv, TInvStep, <1>1, PTL DEF Spec

-----------------------------------------------------------------------------
(* Who has which end.                                                      *)

\* The end that a process has, or waits for, at a place of its program.
Use(place) ==
  IF place \in {"asking", "asked", "opening", "written"} THEN "wr"
  ELSE IF place \in {"reading", "read", "listening", "got"} THEN "rd"
  ELSE "none"

EndsOK ==
  /\ \A p \in Process : end[p].dir = Use(pc[p])
  /\ \A p \in Process : pc[p] \in {"asked", "read", "got", "written"} => end[p].open
  /\ \A p \in Process : end[p].dir = "none" => ~end[p].open
  /\ \A p, q \in Process :
       end[p].dir # "none" /\ ~end[p].open => end[q].dir # Other(end[p].dir)

EInv == TInv /\ EndsOK

\* Nothing is open at the start.
LEMMA InitEnds == Init => EndsOK
BY DEF Init, EndsOK, Closed, Use

\* An open() that waits does so because nobody has the other end.
LEMMA OpensEnd ==
  ASSUME EInv, NEW p \in Process, NEW dir \in {"rd", "wr"}, NEW place,
         Use(pc[p]) = "none", Use(place) = dir, place \notin {"asked", "read", "got", "written"},
         Open(p, dir), Go(p, place)
  PROVE  EndsOK'
<1>1. /\ end \in [Process -> Ending]
      /\ pc \in [Process -> ViewerPlace \cup MainPlace]
  BY DEF EInv, TInv, TypeOK, Ending
<1>2. pc'[p] = place /\ \A q \in Process \ {p} : pc'[q] = pc[q]
  BY <1>1 DEF Go
<1>3. /\ end'[p].dir = dir
      /\ end'[p].open <=> \E q \in Process : end[q].dir = Other(dir)
      /\ \A q \in Process \ {p} :
           /\ end'[q].dir = end[q].dir
           /\ end'[q].open <=> (end[q].open \/ end[q].dir = Other(dir))
  BY <1>1, OpenIs
<1>4. end[p].dir = "none"
  BY DEF EInv, EndsOK
<1>5. \A q \in Process : end'[q].dir = Use(pc'[q])
  BY <1>2, <1>3 DEF EInv, EndsOK
<1>6. \A q \in Process : pc'[q] \in {"asked", "read", "got", "written"} => end'[q].open
  BY <1>2, <1>3 DEF EInv, EndsOK
<1>7. Other(dir) \in {"rd", "wr"} /\ Other(dir) # dir /\ Other(Other(dir)) = dir
  BY DEF Other
<1>8. \A q \in Process : end'[q].dir = "none" => ~end'[q].open
  BY <1>3, <1>7 DEF EInv, EndsOK
<1>9. ASSUME NEW r \in Process, NEW q \in Process,
             end'[r].dir # "none", ~end'[r].open
      PROVE  end'[q].dir # Other(end'[r].dir)
  <2>1. CASE r = p
    BY <1>3, <1>7, <1>9, <2>1
  <2>2. CASE r # p
    <3>1. end'[r].dir = end[r].dir /\ ~end[r].open /\ end[r].dir # Other(dir)
      BY <1>3, <1>9, <2>2
    <3>2. end[r].dir = dir
      BY <1>1, <1>7, <1>9, <3>1 DEF Ending
    <3>3. end[q].dir # Other(dir)
      BY <1>9, <3>1, <3>2 DEF EInv, EndsOK
    <3>4. QED
      BY <1>3, <1>7, <3>1, <3>2, <3>3
  <2>3. QED
    BY <2>1, <2>2
<1>10. QED
  BY <1>5, <1>6, <1>8, <1>9 DEF EndsOK

\* close() leaves the others as they were.
LEMMA ClosesEnd ==
  ASSUME EInv, NEW p \in Process, NEW place, Use(place) = "none", Close(p), Go(p, place)
  PROVE  EndsOK'
<1>1. /\ end \in [Process -> Ending]
      /\ pc \in [Process -> ViewerPlace \cup MainPlace]
  BY DEF EInv, TInv, TypeOK, Ending
<1>2. pc'[p] = place /\ \A q \in Process \ {p} : pc'[q] = pc[q]
  BY <1>1 DEF Go
<1>3. /\ end'[p].dir = "none" /\ end'[p].open = FALSE
      /\ \A q \in Process \ {p} : end'[q] = end[q]
  BY <1>1, CloseIs
<1>4. place \notin {"asked", "read", "got", "written"}
  BY DEF Use
<1>5. QED
  BY <1>2, <1>3, <1>4 DEF EInv, EndsOK, Other

\* Between open() and close() the end stays.
LEMMA KeepsEnd ==
  ASSUME EInv, NEW p \in Process, NEW place, UNCHANGED end, Go(p, place),
         Use(place) = Use(pc[p]),
         place \in {"asked", "read", "got", "written"} => end[p].open
  PROVE  EndsOK'
<1>1. pc \in [Process -> ViewerPlace \cup MainPlace]
  BY DEF EInv, TInv
<1>2. pc'[p] = place /\ \A q \in Process \ {p} : pc'[q] = pc[q]
  BY <1>1 DEF Go
<1>3. QED
  BY <1>2 DEF EInv, EndsOK

\* Every step keeps account of the ends.
LEMMA EndsStep == EInv /\ [Next]_vars => EndsOK'
<1> SUFFICES ASSUME EInv, [Next]_vars PROVE EndsOK'
  OBVIOUS
<1>1. ASSUME NEW v \in Viewer, ViewerStep(v) \/ Kill(v) \/ \E c \in Number : Start(v, c)
      PROVE  EndsOK'
  <2>1. v \in Process
    BY DEF Process
  <2>2. CASE Ask(v)
    <3>1. CASE Ends("rd") # {}
      BY <2>1, <2>2, <3>1, KeepsEnd DEF Ask, Use, At
    <3>2. CASE Ends("rd") = {}
      BY <2>1, <2>2, <3>2, ClosesEnd DEF Ask, Use
    <3>3. QED
      BY <3>1, <3>2
  <2>3. CASE CloseRequest(v)
    BY <2>1, <2>3, ClosesEnd DEF CloseRequest, Use
  <2>4. CASE OpenReply(v)
    BY <2>1, <2>4, OpensEnd DEF OpenReply, Use
  <2>5. CASE ReadReply(v)
    BY <2>1, <2>5, KeepsEnd DEF ReadReply, Use, At
  <2>6. CASE CloseReply(v)
    BY <2>1, <2>6, ClosesEnd DEF CloseReply, Use
  <2>7. CASE Kill(v)
    BY <2>1, <2>7, ClosesEnd DEF Kill, Use
  <2>8. ASSUME NEW c \in Number, Start(v, c) PROVE EndsOK'
    BY <2>1, <2>8, OpensEnd DEF Start, Use
  <2>9. QED
    BY <1>1, <2>2, <2>3, <2>4, <2>5, <2>6, <2>7, <2>8 DEF ViewerStep
<1>2. ASSUME MainStep \/ Crash PROVE EndsOK'
  <2>1. Zattood \in Process
    BY DEF Process
  <2>2. CASE Listen
    BY <2>1, <2>2, OpensEnd DEF Listen, Use
  <2>3. CASE ReadRequest
    BY <2>1, <2>3, KeepsEnd DEF ReadRequest, Use, At
  <2>4. CASE StopListening
    BY <2>1, <2>4, ClosesEnd DEF StopListening, Use
  <2>5. CASE UseSaved
    BY <2>1, <2>5, KeepsEnd DEF UseSaved, Use
  <2>6. ASSUME NEW l \in License, LookUp(l) PROVE EndsOK'
    BY <2>1, <2>6, KeepsEnd DEF LookUp, Use
  <2>7. ASSUME NEW l \in License, Fail(l) PROVE EndsOK'
    <3>1. /\ UNCHANGED end
          /\ pc[Zattood] = "looking"
          /\ Go(Zattood, "start") \/ Go(Zattood, "answering")
      BY <2>7 DEF Fail
    <3>2. QED
      BY <2>1, <3>1, KeepsEnd DEF Use
  <2>8. CASE OpenAnswer
    BY <2>1, <2>8, OpensEnd DEF OpenAnswer, Use
  <2>9. CASE WriteAnswer
    <3>1. CASE Ends("rd") # {}
      BY <2>1, <2>9, <3>1, KeepsEnd DEF WriteAnswer, Use, At
    <3>2. CASE Ends("rd") = {}
      BY <2>1, <2>9, <3>2, ClosesEnd DEF WriteAnswer, Use
    <3>3. QED
      BY <3>1, <3>2
  <2>10. CASE CloseAnswer
    BY <2>1, <2>10, ClosesEnd DEF CloseAnswer, Use
  <2>11. CASE Restart
    BY <2>1, <2>11, KeepsEnd DEF Restart, Use
  <2>12. CASE Crash
    BY <2>1, <2>12, ClosesEnd DEF Crash, Use
  <2>13. QED
    BY <1>2, <2>2, <2>3, <2>4, <2>5, <2>6, <2>7, <2>8, <2>9, <2>10, <2>11, <2>12
    DEF MainStep
<1>3. CASE UNCHANGED vars
  BY <1>3 DEF vars, EInv, EndsOK
<1>4. QED
  BY <1>1, <1>2, <1>3 DEF Next, Number

(* A process waits in open() only while nobody has the other end, and one  *)
(* that reads or writes has its end open: no read() or write() of either   *)
(* program comes before its open() or after its close().                   *)
THEOREM EndsMatch == Spec => []EndsOK
<1>1. Init => EInv
  BY InitTInv, InitEnds DEF EInv
<1>2. EInv /\ [Next]_vars => EInv'
  BY TInvStep, EndsStep DEF EInv
<1>3. EInv => EndsOK
  BY DEF EInv
<1>4. QED
  BY <1>1, <1>2, <1>3, PTL DEF Spec

-----------------------------------------------------------------------------
(* The url and its license.                                                *)

\* Between two answers url is no stream; while one is given it is that of the
\* number that was asked for.
UrlOK ==
  /\ pc[Zattood] \in {"start", "listening", "got", "looking", "written"}
       => url \in {Error, Nothing}
  /\ pc[Zattood] \in {"answering", "opening"}
       => url \in ({request} \cap Channel) \cup {Error}

UInv == TInv /\ UrlOK

\* Only zattood's own steps touch url and the place of its loop.
LEMMA ViewersApart ==
  ASSUME TInv, NEW v \in Viewer,
         ViewerStep(v) \/ Kill(v) \/ \E c \in Number : Start(v, c)
  PROVE  UNCHANGED mainVars /\ pc'[Zattood] = pc[Zattood]
<1>1. /\ pc \in [Process -> ViewerPlace \cup MainPlace]
      /\ Zattood \in Process /\ v # Zattood
  BY FifoAssumption DEF TInv, Process
<1>2. UNCHANGED mainVars /\ \E where : Go(v, where)
  BY DEF ViewerStep, Ask, CloseRequest, OpenReply, ReadReply, CloseReply, Kill, Start
<1>3. QED
  BY <1>1, <1>2 DEF Go

\* url is empty or an error until a look-up sets it, and after it was written.
LEMMA UrlStep == UInv /\ [Next]_vars => UrlOK'
<1> SUFFICES ASSUME UInv, [Next]_vars PROVE UrlOK'
  OBVIOUS
<1>1. /\ pc \in [Process -> ViewerPlace \cup MainPlace] /\ Zattood \in Process
      /\ request \in Number
      /\ Error \notin Channel /\ Nothing \notin Channel /\ Error # Nothing
      /\ url \in Channel \cup {Error, Nothing}
  BY FifoAssumption DEF UInv, TInv, TypeOK, Process, Number
<1>2. ASSUME NEW v \in Viewer, ViewerStep(v) \/ Kill(v) \/ \E c \in Number : Start(v, c)
      PROVE  UrlOK'
  BY <1>2, ViewersApart DEF UInv, UrlOK, mainVars
<1>3. ASSUME NEW where, Go(Zattood, where) PROVE pc'[Zattood] = where
  BY <1>1, <1>3 DEF Go
<1>4. ASSUME MainStep \/ Crash PROVE UrlOK'
  <2>1. CASE Listen \/ StopListening \/ OpenAnswer \/ CloseAnswer
    BY <1>3, <2>1 DEF Listen, StopListening, OpenAnswer, CloseAnswer, UInv, UrlOK, mainVars
  <2>2. CASE ReadRequest
    <3>1. pc[Zattood] = "listening" /\ Go(Zattood, "got") /\ UNCHANGED url
      BY <2>2 DEF ReadRequest
    <3>2. QED
      BY <1>3, <3>1 DEF UInv, UrlOK
  <2>3. CASE UseSaved
    BY <1>3, <2>3 DEF UseSaved, UrlOK
  <2>4. ASSUME NEW l \in License, LookUp(l) PROVE UrlOK'
    BY <1>3, <2>4 DEF LookUp, UrlOK
  <2>5. ASSUME NEW l \in License, Fail(l) PROVE UrlOK'
    <3>1. pc[Zattood] = "looking" /\ UNCHANGED request
      BY <2>5 DEF Fail
    <3>2. url \in {Error, Nothing}
      BY <3>1 DEF UInv, UrlOK
    <3>3. CASE url = Nothing
      BY <1>3, <2>5, <3>3 DEF Fail, UrlOK
    <3>4. CASE url # Nothing
      <4>1. url' = Error /\ Go(Zattood, "answering")
        BY <2>5, <3>2, <3>4 DEF Fail
      <4>2. QED
        BY <1>3, <4>1 DEF UrlOK
    <3>5. QED
      BY <3>3, <3>4
  <2>6. CASE WriteAnswer
    <3>1. \/ Go(Zattood, "written") /\ url' = Error
          \/ Go(Zattood, "down")
      BY <2>6 DEF WriteAnswer
    <3>2. QED
      BY <1>3, <3>1 DEF UrlOK
  <2>7. CASE Restart
    BY <1>3, <2>7 DEF Restart, UrlOK
  <2>8. CASE Crash
    BY <1>3, <2>8 DEF Crash, UrlOK
  <2>9. QED
    BY <1>4, <2>1, <2>2, <2>3, <2>4, <2>5, <2>6, <2>7, <2>8 DEF MainStep
<1>5. CASE UNCHANGED vars
  BY <1>5 DEF vars, mainVars, UInv, UrlOK
<1>6. QED
  BY <1>2, <1>4, <1>5 DEF Next, Number

\* Before the first look-up url is empty.
LEMMA InitUrl == Init => UrlOK
BY DEF Init, UrlOK, Process

\* A url together with the license it goes out with.
Fits(u, l) == u \in Channel => l \in {u, Plain}

LicenseOK == complete =>
  /\ \A c \in Channel : widevine[c] \in {c, Plain}
  /\ Fits(url, license)
  /\ \A m \in InPipe \cup {answer[v] : v \in Viewer} :
       m # Nothing /\ m.kind = "reply" => Fits(m.url, m.license)

LInv == UInv /\ LicenseOK

\* The look-ups leave url with the license that was found or saved with it.
LEMMA LicenseOfUrl ==
  ASSUME LInv, [Next]_vars, complete
  PROVE  (\A c \in Channel : widevine'[c] \in {c, Plain}) /\ Fits(url', license')
<1> DEFINE Result == (\A c \in Channel : widevine'[c] \in {c, Plain}) /\ Fits(url', license')
<1>1. /\ Error \notin Channel /\ Nothing \notin Channel
      /\ widevine \in [Channel -> Channel \cup {Plain}]
      /\ (\A c \in Channel : widevine[c] \in {c, Plain}) /\ Fits(url, license)
      /\ TInv
  BY FifoAssumption DEF LInv, UInv, TInv, TypeOK, LicenseOK
<1>2. ASSUME UNCHANGED <<url, license, widevine>> PROVE Result
  BY <1>1, <1>2 DEF Fits
<1>3. ASSUME NEW v \in Viewer, ViewerStep(v) \/ Kill(v) \/ \E c \in Number : Start(v, c)
      PROVE  Result
  BY <1>1, <1>2, <1>3, ViewersApart DEF mainVars
<1>4. ASSUME MainStep \/ Crash PROVE Result
  <2>1. CASE Listen \/ ReadRequest \/ StopListening \/ OpenAnswer \/ CloseAnswer \/ Crash
    BY <1>2, <2>1 DEF Listen, ReadRequest, StopListening, OpenAnswer, CloseAnswer, Crash, mainVars
  <2>2. CASE UseSaved
    BY <1>1, <2>2 DEF UseSaved, Fits
  <2>3. ASSUME NEW l \in License, LookUp(l) PROVE Result
    <3>1. /\ url' = request /\ license' = l /\ l \in {request, Plain}
          /\ widevine' = [widevine EXCEPT ![request] = l]
      BY <2>3 DEF LookUp
    <3>2. QED
      BY <1>1, <3>1 DEF Fits
  <2>4. ASSUME NEW l \in License, Fail(l) PROVE Result
    <3>1. url \in {Error, Nothing}
      BY <2>4 DEF Fail, LInv, UInv, UrlOK
    <3>2. url' \in {Error, Nothing}
      BY <2>4, <3>1 DEF Fail
    <3>3. \/ UNCHANGED widevine
          \/ l \in {request, Plain} /\ widevine' = [widevine EXCEPT ![request] = l]
      BY <2>4 DEF Fail
    <3>4. QED
      BY <1>1, <3>2, <3>3 DEF Fits
  <2>5. CASE WriteAnswer
    <3>1. (url' = Error \/ UNCHANGED <<url, license>>) /\ UNCHANGED widevine
      BY <2>5 DEF WriteAnswer, mainVars
    <3>2. QED
      BY <1>1, <3>1 DEF Fits
  <2>6. CASE Restart
    BY <1>1, <2>6 DEF Restart, Fits
  <2>7. QED
    BY <1>4, <2>1, <2>2, <2>3, <2>4, <2>5, <2>6 DEF MainStep
<1>5. CASE UNCHANGED vars
  BY <1>2, <1>5 DEF vars, mainVars
<1>6. QED
  BY <1>3, <1>4, <1>5 DEF Next, Number

\* What viewers have was in the pipe, or was nothing.
LEMMA AnswersStep ==
  ASSUME TInv, [Next]_vars
  PROVE  \A v \in Viewer : answer'[v] \in InPipe \cup {answer[v], Torn, Nothing}
<1> DEFINE Result == \A v \in Viewer : answer'[v] \in InPipe \cup {answer[v], Torn, Nothing}
<1>1. pipe \in Seq(Message) /\ answer \in [Viewer -> Message \cup {Nothing}]
  BY DEF TInv, TypeOK
<1>2. ASSUME UNCHANGED answer PROVE Result
  BY <1>2
<1>3. ASSUME NEW v \in Viewer, ViewerStep(v) \/ Kill(v) \/ \E c \in Number : Start(v, c)
      PROVE  Result
  <2>1. CASE ReadReply(v)
    <3> DEFINE reply == IF pipe = <<>> THEN Torn ELSE Head(pipe)
    <3>1. reply \in InPipe \cup {Torn}
      BY <1>1, FirstIs
    <3>2. answer' = [answer EXCEPT ![v] = reply]
      BY <2>1 DEF ReadReply
    <3> HIDE DEF reply
    <3>3. QED
      BY <1>1, <3>1, <3>2
  <2>2. CASE Kill(v)
    BY <1>1, <2>2 DEF Kill
  <2>3. CASE ~ReadReply(v) /\ ~Kill(v)
    BY <1>2, <1>3, <2>3 DEF ViewerStep, Ask, CloseRequest, OpenReply, CloseReply, Start, viewerVars
  <2>4. QED
    BY <2>1, <2>2, <2>3
<1>4. ASSUME MainStep \/ Crash PROVE Result
  <2>1. CASE Listen \/ ReadRequest \/ StopListening \/ UseSaved \/ OpenAnswer
    BY <1>2, <2>1 DEF Listen, ReadRequest, StopListening, UseSaved, OpenAnswer, viewerVars
  <2>2. CASE (\E l \in License : LookUp(l) \/ Fail(l)) \/ WriteAnswer \/ CloseAnswer \/ Restart \/ Crash
    BY <1>2, <2>2 DEF LookUp, Fail, WriteAnswer, CloseAnswer, Restart, Crash, viewerVars
  <2>3. QED
    BY <1>4, <2>1, <2>2 DEF MainStep
<1>5. CASE UNCHANGED vars
  BY <1>2, <1>5 DEF vars, viewerVars
<1>6. QED
  BY <1>3, <1>4, <1>5 DEF Next, Number

\* Every step leaves url, the saved licenses and what was sent fitting.
LEMMA LicenseStep == LInv /\ [Next]_vars => LicenseOK'
<1> SUFFICES ASSUME LInv, [Next]_vars, complete' PROVE LicenseOK'
  BY DEF LicenseOK
<1>1. TInv /\ complete
  BY ViewerDataStep DEF LInv, UInv
<1>2. (\A c \in Channel : widevine'[c] \in {c, Plain}) /\ Fits(url', license')
  BY <1>1, LicenseOfUrl
<1>3. /\ Fits(url, license)
      /\ \A m \in InPipe \cup {answer[v] : v \in Viewer} :
           m # Nothing /\ m.kind = "reply" => Fits(m.url, m.license)
  BY <1>1 DEF LInv, LicenseOK
<1>4. ASSUME NEW m \in InPipe', m.kind = "reply" PROVE Fits(m.url, m.license)
  <2>1. m \in InPipe \cup {Torn, Reply(url, license)} \cup Requests
    BY <1>1, PipeStep DEF TInv
  <2>2. CASE m \in InPipe
    <3>1. m # Nothing
      <4>1. m \in Message
        BY <1>1, <2>2, ElementOfSeq DEF InPipe, TInv, TypeOK
      <4>2. QED
        BY <4>1, MessageAssumption
    <3>2. QED
      BY <1>3, <1>4, <2>2, <3>1
  <2>3. CASE m = Reply(url, license)
    BY <1>3, <2>3 DEF Reply
  <2>4. CASE m \in {Torn} \cup Requests
    BY <1>4, <2>4 DEF Torn, Requests, Request
  <2>5. QED
    BY <2>1, <2>2, <2>3, <2>4
<1>5. ASSUME NEW v \in Viewer, answer'[v] # Nothing, answer'[v].kind = "reply"
      PROVE  Fits(answer'[v].url, answer'[v].license)
  <2>1. answer'[v] \in InPipe \cup {answer[v], Torn, Nothing}
    BY <1>1, AnswersStep
  <2>2. answer'[v] # Torn
    BY <1>5 DEF Torn
  <2>3. answer'[v] \in InPipe \cup {answer[u] : u \in Viewer}
    BY <1>5, <2>1, <2>2
  <2>4. QED
    BY <1>3, <1>5, <2>3
<1>6. QED
  BY <1>2, <1>4, <1>5 DEF LicenseOK

(* The url of a channel never goes out with the license of another one,   *)
(* for any number of viewers and channels, although both are kept from one *)
(* request to the next and set at different places, and whoever is killed  *)
(* or restarted in between.                                                *)
THEOREM LicenseOfItsUrl == Spec => []UrlWithItsLicense
<1>1. Init => LInv
  <2> SUFFICES ASSUME Init PROVE LInv
    OBVIOUS
  <2>1. InPipe = {} /\ \A v \in Viewer : answer[v] = Nothing
    BY DEF Init, InPipe
  <2>2. widevine = [c \in Channel |-> Plain] /\ url = Nothing
    BY DEF Init
  <2>3. LicenseOK
    BY <2>1, <2>2, FifoAssumption DEF LicenseOK, Fits
  <2>4. QED
    BY <2>3, InitTInv, InitUrl DEF LInv, UInv
<1>2. LInv /\ [Next]_vars => LInv'
  BY TInvStep, UrlStep, LicenseStep DEF LInv, UInv
<1>3. LInv => UrlWithItsLicense
  BY DEF LInv, LicenseOK, UrlWithItsLicense, Sent, InPipe, Fits
<1>4. QED
  BY <1>1, <1>2, <1>3, PTL DEF Spec

-----------------------------------------------------------------------------
(* Who is waited for.                                                      *)

\* The viewers that have asked and not been answered.
Asking == {v \in Viewer : pc[v] \in {"asked", "waiting", "reading"}}

\* A viewer that has not begun to read, and will yet.
Fresh(v) ==
  \/ pc[v] \in {"asked", "waiting"}
  \/ pc[v] = "reading" /\ ~end[v].open
  \/ pc[v] = "asking" /\ end[v].open

\* zattood has a request and no reader for its answer yet.
Busy ==
  \/ pc[Zattood] \in {"got", "looking", "answering"}
  \/ pc[Zattood] = "opening" /\ ~end[Zattood].open

Listening == pc[Zattood] = "listening" /\ end[Zattood].open

InOrder == ~crossed /\ \A v \in Viewer : pc[v] # "killed"

\* A request in the pipe is that of a viewer that waits, zattood is busy for one
\* that waits, and for another when something is in the pipe; and it is called
\* to read() only by a viewer that will read.
Awaited ==
  /\ (\E m \in InPipe : m.kind = "request") => Asking # {}
  /\ Busy => Asking # {}
  /\ Busy /\ pipe # <<>> => \A v \in Viewer : \E u \in Asking : u # v
  /\ Busy \/ Listening => \E v \in Viewer : Fresh(v)

WInv == EInv /\ (InOrder => Awaited)

\* A step of one process leaves the others where they are.
LEMMA ViewerMoves ==
  ASSUME TInv, NEW v \in Viewer, NEW place, Go(v, place)
  PROVE  /\ pc'[v] = place /\ pc'[Zattood] = pc[Zattood]
         /\ \A u \in Viewer \ {v} : pc'[u] = pc[u]
BY FifoAssumption DEF TInv, Go, Process

LEMMA MainMoves ==
  ASSUME TInv, NEW place, Go(Zattood, place)
  PROVE  pc'[Zattood] = place /\ \A v \in Viewer : pc'[v] = pc[v]
BY FifoAssumption DEF TInv, Go, Process

\* The end of a viewer tells where it is, and so does that of zattood.
LEMMA EndsOfPlaces ==
  ASSUME EInv
  PROVE  /\ \A v \in Viewer :
              /\ v \in Process /\ v # Zattood /\ end[v].open \in BOOLEAN
              /\ end[v].dir = "wr" <=> pc[v] \in {"asking", "asked"}
              /\ end[v].dir = "rd" <=> pc[v] \in {"reading", "read"}
         /\ Zattood \in Process /\ end[Zattood].open \in BOOLEAN
         /\ end[Zattood].dir = "wr" <=> pc[Zattood] \in {"opening", "written"}
         /\ end[Zattood].dir = "rd" <=> pc[Zattood] \in {"listening", "got"}
<1>1. \A p \in Process : end[p].dir = Use(pc[p]) /\ end[p].open \in BOOLEAN
  BY DEF EInv, EndsOK, TInv, TypeOK
<1>2. \A v \in Viewer : v \in Process /\ v # Zattood /\ pc[v] \in ViewerPlace
  BY FifoAssumption DEF Process, EInv, TInv, TypeOK, ViewerPlace
<1>3. Zattood \in Process /\ pc[Zattood] \in MainPlace
  BY DEF Process, EInv, TInv, TypeOK, MainPlace
<1>4. QED
  BY <1>1, <1>2, <1>3 DEF Use, ViewerPlace, MainPlace

\* An open() of the other end is all that ends the waiting in another.
LEMMA OpensFor ==
  ASSUME EInv, NEW p \in Process, NEW dir \in {"rd", "wr"}, Open(p, dir)
  PROVE  /\ pipe' = pipe /\ InPipe' = InPipe
         /\ end'[p].dir = dir
         /\ end'[p].open <=> \E q \in Process : end[q].dir = Other(dir)
         /\ \A q \in Process \ {p} :
              /\ end'[q].dir = end[q].dir
              /\ end'[q].open <=> (end[q].open \/ end[q].dir = Other(dir))
<1>1. end \in [Process -> Ending]
  BY DEF EInv, TInv, TypeOK, Ending
<1>2. QED
  BY <1>1, OpenIs DEF InPipe

\* A close() may lose what is in the pipe and changes nothing of the others.
LEMMA ClosesFor ==
  ASSUME EInv, NEW p \in Process, Close(p)
  PROVE  /\ pipe' \in {pipe, <<>>} /\ InPipe' \subseteq InPipe
         /\ end'[p].dir = "none" /\ end'[p].open = FALSE
         /\ \A q \in Process \ {p} : end'[q] = end[q]
         /\ (\E q \in Process \ {p} : end[q].dir # "none") => pipe' = pipe
<1>1. end \in [Process -> Ending]
  BY DEF EInv, TInv, TypeOK, Ending
<1>2. /\ pipe' \in {pipe, <<>>}
      /\ end'[p].dir = "none" /\ end'[p].open = FALSE
      /\ \A q \in Process \ {p} : end'[q] = end[q]
      /\ (\E q \in Process \ {p} : end[q].dir # "none") => pipe' = pipe
  BY <1>1, CloseIs
<1>3. CASE pipe' = pipe
  BY <1>2, <1>3 DEF InPipe
<1>4. CASE pipe' = <<>>
  <2>1. InPipe' = {}
    BY <1>4 DEF InPipe
  <2>2. QED
    BY <1>2, <2>1
<1>5. QED
  BY <1>2, <1>3, <1>4

\* A viewer that comes will read.
LEMMA StartAwaited ==
  ASSUME EInv, Awaited, NEW v \in Viewer, NEW c \in Number, Start(v, c)
  PROVE  Awaited'
<1>1. /\ pc[v] = "start" /\ pc'[v] = "asking" /\ pc'[Zattood] = pc[Zattood]
      /\ \A u \in Viewer \ {v} : pc'[u] = pc[u]
  BY ViewerMoves DEF EInv, Start
<1>2. /\ v \in Process /\ v # Zattood /\ Zattood \in Process
      /\ end[Zattood].dir = "rd" <=> pc[Zattood] \in {"listening", "got"}
      /\ \A u \in Viewer : u \in Process /\ (end[u].dir = "rd" <=> pc[u] \in {"reading", "read"})
  BY EndsOfPlaces
<1>3. /\ pipe' = pipe /\ InPipe' = InPipe
      /\ end'[v].open <=> \E q \in Process : end[q].dir = "rd"
      /\ \A q \in Process \ {v} : end'[q].open <=> (end[q].open \/ end[q].dir = "rd")
  BY <1>2, OpensFor DEF Start, Other
<1>4. Asking' = Asking
  BY <1>1 DEF Asking
<1>5. Busy' => Busy
  BY <1>1, <1>2, <1>3 DEF Busy
<1>6. ASSUME Busy' \/ Listening' PROVE \E u \in Viewer : Fresh(u)'
  <2>1. CASE \E q \in Process : end[q].dir = "rd"
    BY <1>1, <1>3, <2>1 DEF Fresh
  <2>2. CASE \A q \in Process : end[q].dir # "rd"
    <3>1. \A q \in Process \ {v} : end'[q].open <=> end[q].open
      BY <1>3, <2>2
    <3>2. Busy \/ Listening
      BY <1>1, <1>2, <1>6, <3>1 DEF Busy, Listening
    <3>3. PICK u \in Viewer : Fresh(u)
      BY <3>2 DEF Awaited
    <3>4. u # v
      BY <1>1, <3>3 DEF Fresh
    <3>5. Fresh(u)'
      BY <1>1, <1>2, <3>1, <3>3, <3>4 DEF Fresh
    <3>6. QED
      BY <3>5
  <2>3. QED
    BY <2>1, <2>2
<1>7. QED
  BY <1>3, <1>4, <1>5, <1>6 DEF Awaited

\* A viewer that writes its request waits for the answer from then on.
LEMMA AskAwaited ==
  ASSUME EInv, Awaited, NEW v \in Viewer, Ask(v), pc'[v] # "killed"
  PROVE  Awaited'
<1>1. CASE Ends("rd") = {}
  <2>1. Go(v, "killed")
    BY <1>1 DEF Ask
  <2>2. QED
    BY <2>1, ViewerMoves DEF EInv
<1>2. CASE Ends("rd") # {}
  <2>1. /\ Go(v, "asked") /\ pipe' = Append(pipe, Request(wanted[v]))
        /\ end' = end /\ pc[v] = "asking" /\ end[v].open
    BY <1>2 DEF Ask, At
  <2>2. /\ pc'[v] = "asked" /\ pc'[Zattood] = pc[Zattood]
        /\ \A u \in Viewer \ {v} : pc'[u] = pc[u]
    BY <2>1, ViewerMoves DEF EInv
  <2>3. Asking' = Asking \cup {v} /\ v \notin Asking
    BY <2>1, <2>2 DEF Asking
  <2>4. Busy' = Busy /\ Listening' = Listening
    BY <2>1, <2>2 DEF Busy, Listening
  <2>5. \A u \in Viewer : Fresh(u) => Fresh(u)'
    BY <2>1, <2>2 DEF Fresh
  <2>6. Busy' => \A u \in Viewer : \E w \in Asking' : w # u
    BY <2>3, <2>4 DEF Awaited
  <2>7. QED
    BY <2>3, <2>4, <2>5, <2>6 DEF Awaited
<1>3. QED
  BY <1>1, <1>2

\* A viewer that closes its request waits still, and one that has its answer
\* was no longer waited for.
LEMMA ViewerCloseAwaited ==
  ASSUME EInv, Awaited, NEW v \in Viewer, CloseRequest(v) \/ CloseReply(v)
  PROVE  Awaited'
<1>1. /\ \/ pc[v] = "asked" /\ Go(v, "waiting")
         \/ pc[v] = "read" /\ Go(v, "done")
      /\ Close(v)
  BY DEF CloseRequest, CloseReply
<1>2. /\ \/ pc[v] = "asked" /\ pc'[v] = "waiting"
         \/ pc[v] = "read" /\ pc'[v] = "done"
      /\ pc'[Zattood] = pc[Zattood]
      /\ \A u \in Viewer \ {v} : pc'[u] = pc[u]
  BY <1>1, ViewerMoves DEF EInv
<1>3. v \in Process /\ v # Zattood /\ Zattood \in Process /\ Viewer \subseteq Process
  BY EndsOfPlaces
<1>4. /\ pipe' \in {pipe, <<>>} /\ InPipe' \subseteq InPipe
      /\ \A q \in Process \ {v} : end'[q] = end[q]
  BY <1>1, <1>3, ClosesFor
<1>5. Asking' = Asking
  BY <1>2 DEF Asking
<1>6. Busy' = Busy /\ Listening' = Listening
  BY <1>2, <1>3, <1>4 DEF Busy, Listening
<1>7. \A u \in Viewer : Fresh(u) => Fresh(u)'
  BY <1>2, <1>3, <1>4 DEF Fresh
<1>8. QED
  BY <1>4, <1>5, <1>6, <1>7 DEF Awaited

\* A viewer that opens the fifo to read is called there by zattood, or others
\* are that will read.
LEMMA OpenReplyAwaited ==
  ASSUME EInv, Awaited, NEW v \in Viewer, OpenReply(v)
  PROVE  Awaited'
<1>1. /\ pc[v] = "waiting" /\ pc'[v] = "reading" /\ pc'[Zattood] = pc[Zattood]
      /\ \A u \in Viewer \ {v} : pc'[u] = pc[u]
  BY ViewerMoves DEF EInv, OpenReply
<1>2. /\ Zattood \in Process /\ v \in Process /\ v # Zattood
      /\ end[Zattood].dir = "wr" <=> pc[Zattood] \in {"opening", "written"}
      /\ \A u \in Viewer : u \in Process /\ (end[u].dir = "wr" <=> pc[u] \in {"asking", "asked"})
  BY EndsOfPlaces
<1>3. /\ pipe' = pipe /\ InPipe' = InPipe
      /\ end'[v].open <=> \E q \in Process : end[q].dir = "wr"
      /\ \A q \in Process \ {v} : end'[q].open <=> (end[q].open \/ end[q].dir = "wr")
  BY <1>2, OpensFor DEF OpenReply, Other
<1>4. Asking' = Asking
  BY <1>1 DEF Asking
<1>5. Busy' => Busy /\ end[Zattood].dir # "wr"
  BY <1>1, <1>2, <1>3 DEF Busy
<1>6. ASSUME Busy' \/ Listening' PROVE \E u \in Viewer : Fresh(u)'
  <2>1. end[Zattood].dir # "wr"
    BY <1>1, <1>2, <1>5, <1>6 DEF Listening
  <2>2. CASE \E q \in Process : end[q].dir = "wr"
    <3>1. PICK u \in Viewer : end[u].dir = "wr"
      BY <2>1, <2>2 DEF Process
    <3>2. pc'[u] \in {"asking", "asked"} /\ end'[u].open
      BY <1>1, <1>2, <1>3, <3>1
    <3>3. QED
      BY <3>2 DEF Fresh
  <2>3. CASE \A q \in Process : end[q].dir # "wr"
    BY <1>1, <1>3, <2>3 DEF Fresh
  <2>4. QED
    BY <2>2, <2>3
<1>7. QED
  BY <1>3, <1>4, <1>5, <1>6 DEF Awaited

\* When a viewer takes what is in the pipe, or finds nothing and nobody who
\* writes, zattood is busy for another one.
LEMMA ReadReplyAwaited ==
  ASSUME EInv, Awaited, NEW v \in Viewer, ReadReply(v)
  PROVE  Awaited'
<1>1. /\ pc[v] = "reading" /\ end[v].open /\ pc'[v] = "read" /\ pc'[Zattood] = pc[Zattood]
      /\ \A u \in Viewer \ {v} : pc'[u] = pc[u]
      /\ end' = end /\ pipe' = <<>>
      /\ pipe = <<>> => \A q \in Process : end[q].dir # "wr"
  BY ViewerMoves DEF EInv, ReadReply, At, Readable, Ends
<1>2. InPipe' = {}
  BY <1>1 DEF InPipe
<1>3. Busy' = Busy /\ Listening' = Listening
  BY <1>1 DEF Busy, Listening
<1>4. Asking' = Asking \ {v}
  BY <1>1 DEF Asking
<1>5. \A u \in Viewer : Fresh(u) => u # v /\ Fresh(u)'
  BY <1>1 DEF Fresh
<1>6. ASSUME Busy PROVE Asking' # {}
  <2>1. CASE pipe # <<>>
    BY <1>4, <1>6, <2>1 DEF Awaited
  <2>2. CASE pipe = <<>>
    <3>1. PICK u \in Viewer : Fresh(u)
      BY <1>6 DEF Awaited
    <3>2. end[u].dir # "wr"
      BY <1>1, <2>2, EndsOfPlaces
    <3>3. pc[u] \in {"waiting", "reading"}
      BY <3>1, <3>2, EndsOfPlaces DEF Fresh
    <3>4. QED
      BY <1>4, <1>5, <3>1, <3>3 DEF Asking
  <2>3. QED
    BY <2>1, <2>2
<1>7. QED
  BY <1>1, <1>2, <1>3, <1>5, <1>6 DEF Awaited

\* zattood is let into the fifo by a viewer that will read.
LEMMA ListenAwaited ==
  ASSUME EInv, Awaited, Listen
  PROVE  Awaited'
<1>1. /\ pc[Zattood] = "start" /\ pc'[Zattood] = "listening"
      /\ \A v \in Viewer : pc'[v] = pc[v]
  BY MainMoves DEF EInv, Listen
<1>2. Zattood \in Process /\ end[Zattood].dir # "wr"
  BY <1>1, EndsOfPlaces
<1>3. /\ pipe' = pipe /\ InPipe' = InPipe
      /\ end'[Zattood].open <=> \E q \in Process : end[q].dir = "wr"
      /\ \A q \in Process \ {Zattood} : end'[q].open <=> (end[q].open \/ end[q].dir = "wr")
  BY <1>2, OpensFor DEF Listen, Other
<1>4. Asking' = Asking /\ ~Busy'
  BY <1>1 DEF Asking, Busy
<1>5. ASSUME Listening' PROVE \E v \in Viewer : Fresh(v)'
  <2>1. PICK v \in Viewer : end[v].dir = "wr"
    BY <1>2, <1>3, <1>5 DEF Listening, Process
  <2>2. pc'[v] \in {"asking", "asked"} /\ end'[v].open
    BY <1>1, <1>3, <2>1, EndsOfPlaces
  <2>3. QED
    BY <2>2 DEF Fresh
<1>6. QED
  BY <1>3, <1>4, <1>5 DEF Awaited

\* A request that is taken, or the last one when nobody has written, is that
\* of a viewer that waits.
LEMMA ReadRequestAwaited ==
  ASSUME EInv, Awaited, ReadRequest, ~crossed'
  PROVE  Awaited'
<1> DEFINE others == {i \in 1 .. Len(pipe) : pipe[i].kind # "request"}
<1>1. /\ pc[Zattood] = "listening" /\ end[Zattood].open /\ pc'[Zattood] = "got"
      /\ \A v \in Viewer : pc'[v] = pc[v]
      /\ end' = end
      /\ pipe = <<>> => \A q \in Process : end[q].dir # "wr"
  BY MainMoves DEF EInv, ReadRequest, At, Readable, Ends
<1>2. others = {} /\ pipe' = <<>>
  BY DEF ReadRequest
<1>3. InPipe' = {} /\ Asking' = Asking /\ Listening
  BY <1>1, <1>2 DEF InPipe, Asking, Listening
<1>4. \A v \in Viewer : Fresh(v)' = Fresh(v)
  BY <1>1 DEF Fresh
<1>5. Asking # {}
  <2>1. CASE pipe # <<>>
    <3>1. Head(pipe) \in InPipe /\ pipe \in Seq(Message)
      BY <2>1, FirstIs DEF EInv, TInv, TypeOK
    <3>2. Head(pipe).kind = "request"
      BY <1>2, <3>1 DEF InPipe
    <3>3. QED
      BY <3>1, <3>2 DEF Awaited
  <2>2. CASE pipe = <<>>
    <3>1. PICK v \in Viewer : Fresh(v)
      BY <1>3 DEF Awaited
    <3>2. pc[v] \in {"waiting", "reading"}
      BY <1>1, <2>2, <3>1, EndsOfPlaces DEF Fresh
    <3>3. QED
      BY <3>2 DEF Asking
  <2>3. QED
    BY <2>1, <2>2
<1>6. QED
  BY <1>2, <1>3, <1>4, <1>5 DEF Awaited

\* zattood closes the fifo.
LEMMA MainCloseAwaited ==
  ASSUME EInv, Awaited, NEW place, Close(Zattood), Go(Zattood, place),
         place \in {"start", "down"} \/ (place = "looking" /\ pc[Zattood] = "got")
  PROVE  Awaited'
<1>1. pc'[Zattood] = place /\ \A v \in Viewer : pc'[v] = pc[v]
  BY MainMoves DEF EInv
<1>2. Zattood \in Process /\ \A v \in Viewer : v \in Process /\ v # Zattood
  BY EndsOfPlaces
<1>3. /\ pipe' \in {pipe, <<>>} /\ InPipe' \subseteq InPipe
      /\ \A v \in Viewer : end'[v] = end[v]
  BY <1>2, ClosesFor
<1>4. Asking' = Asking /\ \A v \in Viewer : Fresh(v)' = Fresh(v)
  BY <1>1, <1>3 DEF Asking, Fresh
<1>5. Busy' => Busy
  BY <1>1 DEF Busy
<1>6. ~Listening'
  BY <1>1 DEF Listening
<1>7. QED
  BY <1>3, <1>4, <1>5, <1>6 DEF Awaited

\* A look-up is for who asked.
LEMMA LookAwaited ==
  ASSUME EInv, Awaited, NEW place, UNCHANGED <<pipe, end>>, Go(Zattood, place),
         place = "start" \/ (place = "answering" /\ pc[Zattood] = "looking")
  PROVE  Awaited'
<1>1. pc'[Zattood] = place /\ \A v \in Viewer : pc'[v] = pc[v]
  BY MainMoves DEF EInv
<1>2. Asking' = Asking /\ InPipe' = InPipe /\ \A v \in Viewer : Fresh(v)' = Fresh(v)
  BY <1>1 DEF Asking, Fresh, InPipe
<1>3. (Busy' => Busy) /\ ~Listening'
  BY <1>1 DEF Busy, Listening
<1>4. QED
  BY <1>2, <1>3 DEF Awaited

\* zattood opens the fifo to write, and waits only when nobody reads yet.
LEMMA OpenAnswerAwaited ==
  ASSUME EInv, Awaited, OpenAnswer
  PROVE  Awaited'
<1>1. /\ pc[Zattood] = "answering" /\ pc'[Zattood] = "opening"
      /\ \A v \in Viewer : pc'[v] = pc[v]
  BY MainMoves DEF EInv, OpenAnswer
<1>2. Zattood \in Process /\ \A v \in Viewer : v \in Process /\ v # Zattood
  BY EndsOfPlaces
<1>3. /\ pipe' = pipe /\ InPipe' = InPipe
      /\ end'[Zattood].open <=> \E q \in Process : end[q].dir = "rd"
      /\ \A q \in Process \ {Zattood} : end'[q].open <=> (end[q].open \/ end[q].dir = "rd")
  BY <1>2, OpensFor DEF OpenAnswer, Other
<1>4. Asking' = Asking /\ ~Listening' /\ Busy
  BY <1>1 DEF Asking, Busy, Listening
<1>5. ASSUME Busy' PROVE \A v \in Viewer : Fresh(v)' <=> Fresh(v)
  <2>1. \A q \in Process : end[q].dir # "rd"
    BY <1>1, <1>3, <1>5 DEF Busy
  <2>2. QED
    BY <1>1, <1>2, <1>3, <2>1 DEF Fresh
<1>6. QED
  BY <1>3, <1>4, <1>5 DEF Awaited

\* With its answer written zattood is no longer busy.
LEMMA WriteAnswerAwaited ==
  ASSUME EInv, Awaited, WriteAnswer
  PROVE  Awaited'
<1>1. CASE Ends("rd") = {}
  BY <1>1, MainCloseAwaited DEF WriteAnswer
<1>2. CASE Ends("rd") # {}
  <2>1. Go(Zattood, "written") /\ pipe' = Append(pipe, Reply(url, license))
    BY <1>2 DEF WriteAnswer
  <2>2. pc'[Zattood] = "written" /\ \A v \in Viewer : pc'[v] = pc[v]
    BY <2>1, MainMoves DEF EInv
  <2>3. InPipe' = InPipe \cup {Reply(url, license)}
    <3>1. pipe \in Seq(Message) /\ Reply(url, license) \in Message
      BY DEF EInv, TInv, TypeOK, Reply, Message
    <3>2. QED
      BY <2>1, <3>1, Written
  <2>4. Asking' = Asking /\ ~Busy' /\ ~Listening'
    BY <2>2 DEF Asking, Busy, Listening
  <2>5. Reply(url, license).kind # "request"
    BY DEF Reply
  <2>6. QED
    BY <2>3, <2>4, <2>5 DEF Awaited
<1>3. QED
  BY <1>1, <1>2

\* A killed viewer stays killed, and zattood has read answers of its own for good.
LEMMA OrderWas ==
  ASSUME TInv, [Next]_vars, InOrder'
  PROVE  InOrder
<1>1. \A v \in Viewer : pc'[v] # "killed"
  BY DEF InOrder
<1>2. ASSUME NEW v \in Viewer, ViewerStep(v) \/ Kill(v) \/ \E c \in Number : Start(v, c)
      PROVE  InOrder
  <2>1. PICK place : Go(v, place) /\ pc[v] # "killed"
    BY <1>2 DEF ViewerStep, Ask, CloseRequest, OpenReply, ReadReply, CloseReply, Kill, Start
  <2>2. \A u \in Viewer : pc[u] # "killed"
    BY <1>1, <2>1, ViewerMoves
  <2>3. crossed' = crossed
    BY <1>2, ViewersApart DEF mainVars
  <2>4. QED
    BY <2>2, <2>3 DEF InOrder
<1>3. ASSUME MainStep \/ Crash PROVE InOrder
  <2>1. CASE Listen \/ ReadRequest \/ StopListening \/ UseSaved \/ OpenAnswer
    <3>1. \E place : Go(Zattood, place)
      BY <2>1 DEF Listen, ReadRequest, StopListening, UseSaved, OpenAnswer
    <3>2. crossed => crossed'
      <4>1. CASE ReadRequest
        BY <4>1, Zenon DEF ReadRequest
      <4>2. CASE ~ReadRequest
        BY <2>1, <4>2 DEF Listen, StopListening, UseSaved, OpenAnswer, mainVars
      <4>3. QED
        BY <4>1, <4>2
    <3>3. QED
      BY <1>1, <3>1, <3>2, MainMoves DEF InOrder
  <2>2. CASE (\E l \in License : LookUp(l) \/ Fail(l)) \/ WriteAnswer \/ CloseAnswer \/ Restart \/ Crash
    <3>1. (\E place : Go(Zattood, place)) /\ (crossed => crossed')
      BY <2>2 DEF LookUp, Fail, WriteAnswer, CloseAnswer, Restart, Crash, mainVars
    <3>2. QED
      BY <1>1, <3>1, MainMoves DEF InOrder
  <2>3. QED
    BY <1>3, <2>1, <2>2 DEF MainStep
<1>4. CASE UNCHANGED vars
  BY <1>4 DEF vars, mainVars, InOrder
<1>5. QED
  BY <1>2, <1>3, <1>4 DEF Next, Number

\* Every step leaves zattood waiting only for a viewer that will read.
LEMMA AwaitedStep == WInv /\ [Next]_vars => (InOrder => Awaited)'
<1> SUFFICES ASSUME WInv, [Next]_vars, InOrder' PROVE Awaited'
  OBVIOUS
<1>1. EInv /\ TInv /\ Awaited /\ ~crossed' /\ \A v \in Viewer : pc'[v] # "killed"
  BY OrderWas DEF WInv, EInv, InOrder
<1>2. ASSUME NEW v \in Viewer, ViewerStep(v) \/ Kill(v) \/ \E c \in Number : Start(v, c)
      PROVE  Awaited'
  <2>1. CASE Ask(v)
    BY <1>1, <2>1, AskAwaited
  <2>2. CASE CloseRequest(v) \/ CloseReply(v)
    BY <1>1, <2>2, ViewerCloseAwaited
  <2>3. CASE OpenReply(v)
    BY <1>1, <2>3, OpenReplyAwaited
  <2>4. CASE ReadReply(v)
    BY <1>1, <2>4, ReadReplyAwaited
  <2>5. CASE Kill(v)
    <3>1. Go(v, "killed")
      BY <2>5 DEF Kill
    <3>2. QED
      BY <1>1, <3>1, ViewerMoves
  <2>6. CASE \E c \in Number : Start(v, c)
    BY <1>1, <2>6, StartAwaited
  <2>7. QED
    BY <1>2, <2>1, <2>2, <2>3, <2>4, <2>5, <2>6 DEF ViewerStep
<1>3. ASSUME MainStep \/ Crash PROVE Awaited'
  <2>1. CASE Listen
    BY <1>1, <2>1, ListenAwaited
  <2>2. CASE ReadRequest
    BY <1>1, <2>2, ReadRequestAwaited
  <2>3. CASE StopListening \/ CloseAnswer \/ Crash
    <3>1. /\ Close(Zattood)
          /\ \/ Go(Zattood, "start") \/ Go(Zattood, "down")
             \/ Go(Zattood, "looking") /\ pc[Zattood] = "got"
      BY <2>3 DEF StopListening, CloseAnswer, Crash
    <3>2. QED
      BY <1>1, <3>1, MainCloseAwaited
  <2>4. CASE UseSaved \/ (\E l \in License : LookUp(l) \/ Fail(l)) \/ Restart
    <3>1. /\ UNCHANGED <<pipe, end>>
          /\ \/ Go(Zattood, "start")
             \/ Go(Zattood, "answering") /\ pc[Zattood] = "looking"
      BY <2>4 DEF UseSaved, LookUp, Fail, Restart
    <3>2. QED
      BY <1>1, <3>1, LookAwaited
  <2>5. CASE OpenAnswer
    BY <1>1, <2>5, OpenAnswerAwaited
  <2>6. CASE WriteAnswer
    BY <1>1, <2>6, WriteAnswerAwaited
  <2>7. QED
    BY <1>3, <2>1, <2>2, <2>3, <2>4, <2>5, <2>6 DEF MainStep
<1>4. CASE UNCHANGED vars
  BY <1>1, <1>4 DEF vars, Awaited, InPipe, Asking, Busy, Listening, Fresh
<1>5. QED
  BY <1>2, <1>3, <1>4 DEF Next, Number

(* zattood waits in open() for a viewer that no longer reads only when one *)
(* was killed or when zattood has taken an answer of its own for a         *)
(* request, for any number of viewers that come while others are answered. *)
THEOREM WaitsForReaders == Spec => []WedgedByKill
<1>1. Init => WInv
  <2> SUFFICES ASSUME Init PROVE WInv
    OBVIOUS
  <2>1. InPipe = {} /\ pc[Zattood] = "start"
    BY DEF Init, InPipe, Process
  <2>2. Awaited
    BY <2>1 DEF Awaited, Busy, Listening
  <2>3. QED
    BY <2>2, InitTInv, InitEnds DEF WInv, EInv
<1>2. WInv /\ [Next]_vars => WInv'
  BY TInvStep, EndsStep, AwaitedStep DEF WInv, EInv
<1>3. WInv => WedgedByKill
  <2> SUFFICES ASSUME WInv, Wedged, InOrder PROVE FALSE
    BY DEF WedgedByKill, InOrder
  <2>1. pc[Zattood] = "opening" /\ ~end[Zattood].open
    BY EndsOfPlaces DEF Wedged, At, WInv
  <2>2. Asking # {}
    BY <2>1 DEF WInv, Awaited, Busy
  <2>3. QED
    BY <2>2 DEF Wedged, Asking
<1>4. QED
  BY <1>1, <1>2, <1>3, PTL DEF Spec

-----------------------------------------------------------------------------
(* Viewers that come in turn.                                              *)

Resting(v) == pc[v] \in {"start", "done"}

\* zattood has answered, or has not been asked.
Idle ==
  \/ pc[Zattood] \in {"written", "start"}
  \/ pc[Zattood] = "listening" /\ ~end[Zattood].open

\* What a viewer may be answered.
Answers(v) == ({wanted[v]} \cap Channel) \cup {Error}

Told(v) ==
  /\ pc[v] = "start" => wanted[v] = Nothing
  /\ pc[v] # "start" => wanted[v] \in Number
  /\ pc[v] \in {"start", "asking", "asked", "waiting", "reading"} => answer[v] = Nothing
  /\ pc[v] \in {"read", "done"} => Given(v) \in Answers(v)

\* Before a viewer has written its request.
Coming(v) ==
  /\ pipe = <<>>
  /\ pc[Zattood] \in IF end[v].open THEN {"listening"} ELSE {"written", "start"}

\* From the request until both have the fifo open for the answer.
Awaiting(v) ==
  \/ Listening /\ pipe = <<Request(wanted[v])>>
  \/ /\ pc[Zattood] \in {"start", "listening", "got", "looking", "answering", "opening"}
     /\ pc[Zattood] = "opening" => ~end[Zattood].open
     /\ pipe = <<>> /\ request = wanted[v]

\* From then until the answer is read.
Answered(v) ==
  \/ /\ pc[Zattood] = "opening" /\ end[Zattood].open
     /\ pipe = <<>> /\ request = wanted[v]
  \/ Idle /\ \E u \in Answers(v), l \in License : pipe = <<Reply(u, l)>>

Placed(v) ==
  /\ pc[v] = "asking" => Coming(v)
  /\ pc[v] \in {"asked", "waiting"} => Awaiting(v)
  /\ pc[v] = "reading" /\ ~end[v].open => Awaiting(v)
  /\ pc[v] = "reading" /\ end[v].open => Answered(v)
  /\ pc[v] = "read" => Idle /\ pipe = <<>>

\* One viewer is served at a time; where it is tells where zattood is and what
\* is in the pipe.
InTurn ==
  /\ pc[Zattood] # "down" /\ \A v \in Viewer : pc[v] # "killed"
  /\ \A u, v \in Viewer : Resting(u) \/ Resting(v) \/ u = v
  /\ (\A v \in Viewer : Resting(v)) => Idle /\ pipe = <<>>
  /\ \A v \in Viewer : Told(v) /\ Placed(v)

RInv == EInv /\ UrlOK /\ (turns => InTurn)

\* What a step of the viewer whose turn it is has to show.
LEMMA ViewerTurn ==
  ASSUME EInv, InTurn, NEW v \in Viewer, \A u \in Viewer \ {v} : Resting(u),
         NEW place, Go(v, place), place \notin {"start", "killed"},
         \A u \in Viewer \ {v} : wanted'[u] = wanted[u] /\ answer'[u] = answer[u],
         Told(v)', Placed(v)', place = "done" => Idle' /\ pipe' = <<>>
  PROVE  InTurn'
<1>1. /\ pc'[v] = place /\ pc'[Zattood] = pc[Zattood]
      /\ \A u \in Viewer \ {v} : pc'[u] = pc[u]
  BY ViewerMoves DEF EInv
<1>2. \A u \in Viewer \ {v} : Resting(u)' /\ Placed(u)'
  BY <1>1 DEF Resting, Placed
<1>3. \A u \in Viewer \ {v} : Told(u)'
  BY <1>1 DEF InTurn, Told, Given, Answers
<1>4. Resting(v)' => place = "done"
  BY <1>1 DEF Resting
<1>5. QED
  BY <1>1, <1>2, <1>3, <1>4 DEF InTurn

\* What a step of zattood has to show.
LEMMA MainTurn ==
  ASSUME EInv, InTurn, NEW place, Go(Zattood, place), place # "down",
         UNCHANGED viewerVars,
         \A v \in Viewer : ~Resting(v) => Placed(v)',
         (\A v \in Viewer : Resting(v)) => Idle' /\ pipe' = <<>>
  PROVE  InTurn'
<1>1. pc'[Zattood] = place /\ \A v \in Viewer : pc'[v] = pc[v]
  BY MainMoves DEF EInv
<1>2. \A v \in Viewer : (Resting(v)' <=> Resting(v)) /\ (Resting(v) => Placed(v)')
  BY <1>1 DEF Resting, Placed
<1>3. \A v \in Viewer : Told(v)'
  BY <1>1 DEF InTurn, Told, Given, Answers, viewerVars
<1>4. QED
  BY <1>1, <1>2, <1>3 DEF InTurn

\* A viewer that is active is the only one.
LEMMA Alone ==
  ASSUME InTurn, NEW v \in Viewer, ~Resting(v)
  PROVE  \A u \in Viewer \ {v} : Resting(u)
BY DEF InTurn

\* Where the process that has an end open is.
LEMMA OthersEnds ==
  ASSUME EInv, NEW v \in Viewer, \A u \in Viewer \ {v} : Resting(u)
  PROVE  \A q \in Process : q = v \/ q = Zattood \/ end[q].dir = "none"
BY DEF EInv, EndsOK, Resting, Use, Process

\* A viewer comes when the one before has gone.
LEMMA StartTurn ==
  ASSUME EInv, InTurn, NEW v \in Viewer, NEW c \in Number, Start(v, c),
         \A u \in Viewer : Resting(u)
  PROVE  InTurn'
<1>1. /\ pc[v] = "start" /\ pc'[v] = "asking" /\ pc'[Zattood] = pc[Zattood]
      /\ Go(v, "asking")
  BY ViewerMoves DEF EInv, Start
<1>2. /\ wanted' = [wanted EXCEPT ![v] = c] /\ answer' = answer
      /\ wanted \in [Viewer -> Number \cup {Nothing}]
  BY DEF Start, EInv, TInv, TypeOK, Number
<1>3. v \in Process /\ Zattood \in Process
      /\ (end[Zattood].dir = "rd" <=> pc[Zattood] \in {"listening", "got"})
  BY EndsOfPlaces
<1>4. /\ pipe' = pipe
      /\ end'[v].open <=> \E q \in Process : end[q].dir = "rd"
  BY <1>3, OpensFor DEF Start, Other
<1>5. (\E q \in Process : end[q].dir = "rd") <=> end[Zattood].dir = "rd"
  <2>1. end[v].dir = "none"
    BY <1>1, <1>3 DEF EInv, EndsOK, Use
  <2>2. QED
    BY <1>3, <2>1, OthersEnds
<1>6. Idle /\ pipe = <<>> /\ Told(v)
  BY DEF InTurn
<1>7. Coming(v)'
  BY <1>1, <1>3, <1>4, <1>5, <1>6 DEF Idle, Coming
<1>8. Placed(v)' /\ Told(v)'
  BY <1>1, <1>2, <1>6, <1>7 DEF Placed, Told
<1>9. QED
  BY <1>1, <1>2, <1>8, ViewerTurn

\* Its request is read by zattood, which was there first or has come for it.
LEMMA AskTurn ==
  ASSUME EInv, InTurn, NEW v \in Viewer, Ask(v)
  PROVE  InTurn'
<1>1. pc[v] = "asking" /\ end[v].open /\ end[v].dir = "wr"
  BY DEF Ask, At
<1>2. Coming(v) /\ Told(v) /\ \A u \in Viewer \ {v} : Resting(u)
  BY <1>1, Alone DEF InTurn, Placed, Resting
<1>3. pc[Zattood] = "listening" /\ pipe = <<>>
  BY <1>1, <1>2 DEF Coming
<1>4. end[Zattood].dir = "rd" /\ Zattood \in Process /\ v \in Process
  BY <1>3, EndsOfPlaces
<1>5. end[Zattood].open
  BY <1>1, <1>4 DEF EInv, EndsOK, Other
<1>6. Go(v, "asked") /\ pipe' = <<Request(wanted[v])>> /\ end' = end /\ UNCHANGED viewerVars
  <2>1. Ends("rd") # {}
    BY <1>4 DEF Ends
  <2>2. Go(v, "asked") /\ pipe' = Append(pipe, Request(wanted[v])) /\ end' = end
    BY <2>1 DEF Ask
  <2>3. UNCHANGED viewerVars
    BY DEF Ask
  <2>4. QED
    BY <1>3, <2>2, <2>3
<1>7. pc'[v] = "asked" /\ pc'[Zattood] = "listening"
  BY <1>3, <1>6, ViewerMoves DEF EInv
<1>8. Placed(v)' /\ Told(v)'
  BY <1>1, <1>2, <1>5, <1>6, <1>7 DEF Placed, Awaiting, Listening, Told, viewerVars
<1>9. QED
  BY <1>2, <1>6, <1>8, ViewerTurn DEF viewerVars

\* The request stays in the pipe, for zattood has it open until it has read it.
LEMMA CloseRequestTurn ==
  ASSUME EInv, InTurn, NEW v \in Viewer, CloseRequest(v)
  PROVE  InTurn'
<1>1. pc[v] = "asked" /\ Go(v, "waiting") /\ Close(v) /\ UNCHANGED <<viewerVars, mainVars>>
  BY DEF CloseRequest
<1>2. Awaiting(v) /\ Told(v) /\ \A u \in Viewer \ {v} : Resting(u)
  BY <1>1, Alone DEF InTurn, Placed, Resting
<1>3. pc'[v] = "waiting" /\ pc'[Zattood] = pc[Zattood]
  BY <1>1, ViewerMoves DEF EInv
<1>4. v \in Process /\ Zattood \in Process /\ v # Zattood
  BY EndsOfPlaces
<1>5. /\ end'[Zattood] = end[Zattood]
      /\ pipe' \in {pipe, <<>>}
      /\ end[Zattood].dir # "none" => pipe' = pipe
  BY <1>1, <1>4, ClosesFor
<1>6. Listening => end[Zattood].dir # "none"
  BY EndsOfPlaces DEF Listening
<1>7. Awaiting(v)'
  BY <1>1, <1>2, <1>3, <1>5, <1>6 DEF Awaiting, Listening, viewerVars, mainVars
<1>8. Placed(v)' /\ Told(v)'
  BY <1>1, <1>2, <1>3, <1>7 DEF Placed, Told, viewerVars
<1>9. QED
  BY <1>1, <1>2, <1>8, ViewerTurn DEF viewerVars

\* A viewer opens the fifo to read before zattood has opened it to write, or
\* both go on.
LEMMA OpenReplyTurn ==
  ASSUME EInv, InTurn, NEW v \in Viewer, OpenReply(v)
  PROVE  InTurn'
<1>1. pc[v] = "waiting" /\ Go(v, "reading") /\ Open(v, "rd") /\ UNCHANGED <<viewerVars, mainVars>>
  BY DEF OpenReply
<1>2. Awaiting(v) /\ Told(v) /\ \A u \in Viewer \ {v} : Resting(u)
  BY <1>1, Alone DEF InTurn, Placed, Resting
<1>3. pc'[v] = "reading" /\ pc'[Zattood] = pc[Zattood]
  BY <1>1, ViewerMoves DEF EInv
<1>4. /\ v \in Process /\ Zattood \in Process /\ v # Zattood
      /\ end[Zattood].dir = "wr" <=> pc[Zattood] \in {"opening", "written"}
      /\ end[v].dir # "wr"
  BY <1>1, EndsOfPlaces
<1>5. /\ pipe' = pipe
      /\ end'[v].open <=> \E q \in Process : end[q].dir = "wr"
      /\ end'[Zattood].open <=> (end[Zattood].open \/ end[Zattood].dir = "wr")
  BY <1>1, <1>4, OpensFor DEF Other
<1>6. (\E q \in Process : end[q].dir = "wr") <=> end[Zattood].dir = "wr"
  BY <1>2, <1>4, OthersEnds
<1>7. Placed(v)'
  <2>1. CASE end[Zattood].dir = "wr"
    <3>1. pc[Zattood] = "opening" /\ pipe = <<>> /\ request = wanted[v]
      BY <1>2, <1>4, <2>1 DEF Awaiting, Listening
    <3>2. Answered(v)'
      BY <1>1, <1>3, <1>5, <2>1, <3>1 DEF Answered, viewerVars, mainVars
    <3>3. end'[v].open
      BY <1>5, <1>6, <2>1
    <3>4. QED
      BY <1>3, <3>2, <3>3 DEF Placed
  <2>2. CASE end[Zattood].dir # "wr"
    <3>1. end'[Zattood].open <=> end[Zattood].open
      BY <1>5, <2>2
    <3>2. Awaiting(v)'
      BY <1>1, <1>2, <1>3, <1>5, <3>1 DEF Awaiting, Listening, viewerVars, mainVars
    <3>3. ~end'[v].open
      BY <1>5, <1>6, <2>2
    <3>4. QED
      BY <1>3, <3>2, <3>3 DEF Placed
  <2>3. QED
    BY <2>1, <2>2
<1>8. Told(v)'
  BY <1>1, <1>2, <1>3 DEF Told, viewerVars
<1>9. QED
  BY <1>1, <1>2, <1>3, <1>7, <1>8, ViewerTurn DEF viewerVars

\* What a viewer reads is its answer.
LEMMA ReadReplyTurn ==
  ASSUME EInv, InTurn, NEW v \in Viewer, ReadReply(v)
  PROVE  InTurn' /\ Given(v)' \in Answers(v)
<1>1. /\ pc[v] = "reading" /\ end[v].open /\ Go(v, "read") /\ Readable
      /\ answer' = [answer EXCEPT ![v] = IF pipe = <<>> THEN Torn ELSE Head(pipe)]
      /\ pipe' = <<>> /\ UNCHANGED <<end, wanted>>
  BY DEF ReadReply, At
<1>2. Answered(v) /\ Told(v) /\ \A u \in Viewer \ {v} : Resting(u)
  BY <1>1, Alone DEF InTurn, Placed, Resting
<1>3. pc'[v] = "read" /\ pc'[Zattood] = pc[Zattood]
  BY <1>1, ViewerMoves DEF EInv
<1>4. Idle /\ \E u \in Answers(v), l \in License : pipe = <<Reply(u, l)>>
  <2>1. CASE pc[Zattood] = "opening" /\ pipe = <<>>
    <3>1. Zattood \in Process /\ end[Zattood].dir = "wr"
      BY <2>1, EndsOfPlaces
    <3>2. QED
      BY <1>1, <2>1, <3>1 DEF Readable, Ends
  <2>2. QED
    BY <1>2, <2>1 DEF Answered
<1>5. PICK u \in Answers(v), l \in License : pipe = <<Reply(u, l)>>
  BY <1>4
<1>6. answer'[v] = Reply(u, l) /\ \A w \in Viewer \ {v} : answer'[w] = answer[w]
  <2>1. pipe # <<>> /\ Head(pipe) = Reply(u, l)
    BY <1>5
  <2>2. answer \in [Viewer -> Message \cup {Nothing}]
    BY DEF EInv, TInv, TypeOK
  <2>3. answer' = [answer EXCEPT ![v] = Reply(u, l)]
    BY <1>1, <2>1
  <2>4. QED
    BY <2>2, <2>3
<1>7. Reply(u, l) # Nothing
  <2>1. Reply(u, l) \in Message
    BY DEF Reply, Message, Answers
  <2>2. QED
    BY <2>1, MessageAssumption
<1>8. Given(v)' = u
  BY <1>6, <1>7 DEF Given, Reply
<1>9. Told(v)' /\ Placed(v)' /\ Idle'
  <2>1. wanted[v] \in Number
    BY <1>1, <1>2 DEF Told
  <2>2. Idle'
    BY <1>1, <1>3, <1>4 DEF Idle
  <2>3. QED
    BY <1>1, <1>3, <1>5, <1>8, <2>1, <2>2 DEF Told, Placed, Answers
<1>10. QED
  BY <1>1, <1>2, <1>5, <1>6, <1>8, <1>9, ViewerTurn

\* A viewer that was answered leaves an empty fifo.
LEMMA CloseReplyTurn ==
  ASSUME EInv, InTurn, NEW v \in Viewer, CloseReply(v)
  PROVE  InTurn'
<1>1. pc[v] = "read" /\ Go(v, "done") /\ Close(v) /\ UNCHANGED viewerVars
  BY DEF CloseReply
<1>2. /\ Idle /\ pipe = <<>> /\ Told(v)
      /\ \A u \in Viewer \ {v} : Resting(u)
  BY <1>1, Alone DEF InTurn, Placed, Resting
<1>3. pc'[v] = "done" /\ pc'[Zattood] = pc[Zattood]
  BY <1>1, ViewerMoves DEF EInv
<1>4. v \in Process /\ Zattood \in Process /\ v # Zattood
  BY EndsOfPlaces
<1>5. end'[Zattood] = end[Zattood] /\ pipe' = <<>>
  BY <1>1, <1>2, <1>4, ClosesFor
<1>6. Idle' /\ Told(v)' /\ Placed(v)'
  BY <1>1, <1>2, <1>3, <1>5 DEF Idle, Told, Placed, viewerVars, Given, Answers
<1>7. QED
  BY <1>1, <1>2, <1>5, <1>6, ViewerTurn DEF viewerVars

\* zattood opens the fifo to listen.
LEMMA ListenTurn ==
  ASSUME EInv, InTurn, Listen
  PROVE  InTurn'
<1>1. /\ pc[Zattood] = "start" /\ Go(Zattood, "listening") /\ Open(Zattood, "rd")
      /\ UNCHANGED <<viewerVars, mainVars>>
  BY DEF Listen
<1>2. pc'[Zattood] = "listening" /\ \A v \in Viewer : pc'[v] = pc[v]
  BY <1>1, MainMoves DEF EInv
<1>3. /\ Zattood \in Process /\ end[Zattood].dir # "wr"
      /\ \A v \in Viewer : v \in Process /\ v # Zattood
  BY <1>1, EndsOfPlaces
<1>4. /\ pipe' = pipe
      /\ end'[Zattood].open <=> \E q \in Process : end[q].dir = "wr"
      /\ \A q \in Process \ {Zattood} : end'[q].open <=> (end[q].open \/ end[q].dir = "wr")
  BY <1>1, <1>3, OpensFor DEF Other
<1>5. (\A v \in Viewer : end[v].dir # "wr") => ~end'[Zattood].open
  BY <1>3, <1>4 DEF Process
<1>6. ASSUME NEW v \in Viewer, ~Resting(v) PROVE Placed(v)'
  <2>1. Placed(v) /\ \A u \in Viewer \ {v} : end[u].dir # "wr"
    BY <1>6, Alone, EndsOfPlaces DEF InTurn, Resting
  <2>2. /\ end[v].dir = "wr" <=> pc[v] \in {"asking", "asked"}
        /\ end'[v].open <=> (end[v].open \/ end[v].dir = "wr")
    BY <1>3, <1>4, EndsOfPlaces
  <2>3. end[v].dir # "wr" => Idle'
    BY <1>2, <1>5, <2>1 DEF Idle
  <2>4. CASE pc[v] = "asking"
    BY <1>2, <1>4, <2>1, <2>2, <2>4 DEF Placed, Coming
  <2>5. CASE pc[v] \in {"asked", "waiting"} \/ (pc[v] = "reading" /\ ~end[v].open)
    <3>1. Awaiting(v)
      BY <2>1, <2>5 DEF Placed
    <3>2. Awaiting(v)'
      BY <1>1, <1>2, <1>4, <3>1 DEF Awaiting, Listening, viewerVars, mainVars
    <3>3. QED
      BY <1>2, <2>2, <2>5, <3>2 DEF Placed
  <2>6. CASE pc[v] = "reading" /\ end[v].open
    <3>1. \E u \in Answers(v), l \in License : pipe = <<Reply(u, l)>>
      BY <1>1, <2>1, <2>6 DEF Placed, Answered
    <3>2. Answered(v)'
      BY <1>1, <1>4, <2>2, <2>3, <2>6, <3>1 DEF Answered, Answers, viewerVars
    <3>3. QED
      BY <1>2, <2>2, <2>6, <3>2 DEF Placed
  <2>7. CASE pc[v] = "read"
    BY <1>2, <1>4, <2>1, <2>2, <2>3, <2>7 DEF Placed
  <2>8. QED
    BY <1>2, <2>4, <2>5, <2>6, <2>7 DEF Placed
<1>7. ASSUME \A v \in Viewer : Resting(v) PROVE Idle' /\ pipe' = <<>>
  <2>1. \A v \in Viewer : end[v].dir # "wr"
    BY <1>7, EndsOfPlaces DEF Resting
  <2>2. QED
    BY <1>2, <1>4, <1>5, <1>7, <2>1 DEF Idle, InTurn
<1>8. QED
  BY <1>1, <1>6, <1>7, MainTurn

\* What zattood reads is the request of the viewer that waits.
LEMMA ReadRequestTurn ==
  ASSUME EInv, InTurn, ReadRequest
  PROVE  InTurn'
<1>1. /\ pc[Zattood] = "listening" /\ end[Zattood].open /\ end[Zattood].dir = "rd"
      /\ Readable /\ Go(Zattood, "got") /\ UNCHANGED <<end, viewerVars>>
  BY DEF ReadRequest, At
<1>2. pc'[Zattood] = "got" /\ \A v \in Viewer : pc'[v] = pc[v]
  BY <1>1, MainMoves DEF EInv
<1>3. ~Idle
  BY <1>1 DEF Idle
<1>4. ASSUME NEW v \in Viewer, ~Resting(v) PROVE Placed(v)'
  <2>1. Placed(v) /\ v \in Process
    BY <1>4, EndsOfPlaces DEF InTurn
  <2>2. pc[v] # "read" /\ ~(pc[v] = "reading" /\ end[v].open)
    BY <1>1, <1>3, <2>1 DEF Placed, Answered
  <2>3. CASE pc[v] = "asking"
    <3>1. pipe = <<>> /\ end[v].dir = "wr"
      BY <2>1, <2>3, EndsOfPlaces DEF Placed, Coming
    <3>2. QED
      BY <1>1, <2>1, <3>1 DEF Readable, Ends
  <2>4. CASE pc[v] \in {"asked", "waiting"} \/ (pc[v] = "reading" /\ ~end[v].open)
    <3>1. Awaiting(v)
      BY <2>1, <2>4 DEF Placed
    <3>2. CASE pipe = <<Request(wanted[v])>>
      <4>1. /\ pipe # <<>> /\ Head(pipe) = Request(wanted[v]) /\ Len(pipe) = 1
            /\ \A i \in 1 .. Len(pipe) : pipe[i].kind = "request"
        BY <3>2 DEF Request
      <4>2. Head(pipe).kind = "request" /\ Head(pipe).url = wanted[v]
        BY <4>1 DEF Request
      <4>3. pipe' = <<>>
        BY <4>1 DEF ReadRequest
      <4>4. request' = wanted[v]
        BY <4>1, <4>2 DEF ReadRequest
      <4>5. Awaiting(v)'
        BY <1>1, <1>2, <4>3, <4>4 DEF Awaiting, viewerVars
      <4>6. QED
        BY <1>1, <1>2, <2>4, <4>5 DEF Placed
    <3>3. CASE pipe = <<>> /\ request = wanted[v]
      <4>1. request' = request /\ pipe' = <<>>
        BY <3>3 DEF ReadRequest
      <4>2. Awaiting(v)'
        BY <1>1, <1>2, <3>3, <4>1 DEF Awaiting, viewerVars
      <4>3. QED
        BY <1>1, <1>2, <2>4, <4>2 DEF Placed
    <3>4. QED
      BY <3>1, <3>2, <3>3 DEF Awaiting
  <2>5. QED
    BY <1>1, <1>2, <2>2, <2>3, <2>4 DEF Placed
<1>5. ~\A v \in Viewer : Resting(v)
  BY <1>3 DEF InTurn
<1>6. QED
  BY <1>1, <1>4, <1>5, MainTurn

\* While zattood looks a number up its viewer waits.
LEMMA LookTurn ==
  ASSUME EInv, InTurn, NEW place, Go(Zattood, place), pc[Zattood] \in {"got", "looking"},
         place \in {"looking", "answering", "start"},
         pipe' \in {pipe, <<>>}, request' = request, UNCHANGED viewerVars,
         \A v \in Viewer : end'[v] = end[v]
  PROVE  InTurn'
<1>1. pc'[Zattood] = place /\ \A v \in Viewer : pc'[v] = pc[v]
  BY MainMoves DEF EInv
<1>2. ASSUME NEW v \in Viewer, ~Resting(v) PROVE Placed(v)'
  <2>1. Placed(v) /\ ~Idle
    BY DEF InTurn, Idle
  <2>2. CASE pc[v] = "asking"
    BY <2>1, <2>2 DEF Placed, Coming
  <2>3. CASE pc[v] \in {"asked", "waiting"} \/ (pc[v] = "reading" /\ ~end[v].open)
    <3>1. pipe = <<>> /\ request = wanted[v]
      BY <2>1, <2>3 DEF Placed, Awaiting, Listening
    <3>2. Awaiting(v)'
      BY <1>1, <3>1 DEF Awaiting, viewerVars
    <3>3. QED
      BY <1>1, <2>3, <3>2 DEF Placed
  <2>4. CASE pc[v] = "read" \/ (pc[v] = "reading" /\ end[v].open)
    BY <2>1, <2>4 DEF Placed, Answered
  <2>5. QED
    BY <1>1, <2>2, <2>3, <2>4 DEF Placed
<1>3. ~\A v \in Viewer : Resting(v)
  BY DEF InTurn, Idle
<1>4. QED
  BY <1>2, <1>3, MainTurn

\* zattood opens the fifo to write, and goes on if its viewer reads.
LEMMA OpenAnswerTurn ==
  ASSUME EInv, InTurn, OpenAnswer
  PROVE  InTurn'
<1>1. /\ pc[Zattood] = "answering" /\ Go(Zattood, "opening") /\ Open(Zattood, "wr")
      /\ UNCHANGED <<viewerVars, mainVars>>
  BY DEF OpenAnswer
<1>2. pc'[Zattood] = "opening" /\ \A v \in Viewer : pc'[v] = pc[v]
  BY <1>1, MainMoves DEF EInv
<1>3. /\ Zattood \in Process /\ end[Zattood].dir # "rd"
      /\ \A v \in Viewer : v \in Process /\ v # Zattood
  BY <1>1, EndsOfPlaces
<1>4. /\ pipe' = pipe
      /\ end'[Zattood].open <=> \E q \in Process : end[q].dir = "rd"
      /\ \A q \in Process \ {Zattood} : end'[q].open <=> (end[q].open \/ end[q].dir = "rd")
  BY <1>1, <1>3, OpensFor DEF Other
<1>5. ASSUME NEW v \in Viewer, ~Resting(v) PROVE Placed(v)'
  <2>1. Placed(v) /\ ~Idle /\ \A u \in Viewer \ {v} : Resting(u)
    BY <1>1, <1>5, Alone DEF InTurn, Idle
  <2>2. (\E q \in Process : end[q].dir = "rd") <=> end[v].dir = "rd"
    BY <1>3, <2>1, OthersEnds
  <2>3. end[v].dir = "rd" <=> pc[v] \in {"reading", "read"}
    BY EndsOfPlaces
  <2>4. CASE pc[v] = "asking"
    BY <1>1, <2>1, <2>4 DEF Placed, Coming
  <2>5. CASE pc[v] \in {"asked", "waiting"} \/ (pc[v] = "reading" /\ ~end[v].open)
    <3>1. pipe = <<>> /\ request = wanted[v]
      BY <1>1, <2>1, <2>5 DEF Placed, Awaiting, Listening
    <3>2. CASE end[v].dir = "rd"
      <4>1. end'[Zattood].open /\ end'[v].open /\ pc[v] = "reading"
        BY <1>3, <1>4, <2>3, <2>5, <3>2
      <4>2. Answered(v)'
        BY <1>1, <1>2, <1>4, <3>1, <4>1 DEF Answered, viewerVars, mainVars
      <4>3. QED
        BY <1>2, <4>1, <4>2 DEF Placed
    <3>3. CASE end[v].dir # "rd"
      <4>1. ~end'[Zattood].open /\ pc[v] \in {"asked", "waiting"}
        BY <1>4, <2>2, <2>3, <2>5, <3>3
      <4>2. Awaiting(v)'
        BY <1>1, <1>2, <1>4, <3>1, <4>1 DEF Awaiting, viewerVars, mainVars
      <4>3. QED
        BY <1>2, <4>1, <4>2 DEF Placed
    <3>4. QED
      BY <3>2, <3>3
  <2>6. CASE pc[v] = "read" \/ (pc[v] = "reading" /\ end[v].open)
    BY <1>1, <2>1, <2>6 DEF Placed, Answered
  <2>7. QED
    BY <1>2, <2>4, <2>5, <2>6 DEF Placed
<1>6. ~\A v \in Viewer : Resting(v)
  BY <1>1 DEF InTurn, Idle
<1>7. QED
  BY <1>1, <1>5, <1>6, MainTurn

\* zattood writes its answer to the viewer that has asked.
LEMMA WriteAnswerTurn ==
  ASSUME EInv, UrlOK, InTurn, WriteAnswer
  PROVE  InTurn'
<1>1. pc[Zattood] = "opening" /\ end[Zattood].open /\ ~Idle /\ UNCHANGED viewerVars
  BY DEF WriteAnswer, At, Idle
<1>2. PICK v \in Viewer : ~Resting(v)
  BY <1>1 DEF InTurn
<1>3. Placed(v) /\ \A u \in Viewer \ {v} : Resting(u)
  BY <1>2, Alone DEF InTurn
<1>4. pc[v] = "reading" /\ end[v].open /\ Answered(v)
  <2>1. pc[v] \in ViewerPlace
    BY DEF EInv, TInv, TypeOK, ViewerPlace
  <2>2. pc[v] # "asking" /\ pc[v] # "read" /\ pc[v] # "killed"
    BY <1>1, <1>3 DEF Placed, Coming, InTurn
  <2>3. ~Awaiting(v)
    BY <1>1 DEF Awaiting, Listening
  <2>4. pc[v] = "reading" /\ end[v].open
    BY <1>2, <1>3, <2>1, <2>2, <2>3 DEF Placed, Resting, ViewerPlace
  <2>5. QED
    BY <1>3, <2>4 DEF Placed
<1>5. pipe = <<>> /\ request = wanted[v]
  BY <1>1, <1>4 DEF Answered
<1>6. url \in Answers(v)
  BY <1>1, <1>5 DEF UrlOK, Answers
<1>7. Go(Zattood, "written") /\ pipe' = <<Reply(url, license)>> /\ end' = end
  <2>1. Ends("rd") # {}
    BY <1>4, EndsOfPlaces DEF Ends
  <2>2. Go(Zattood, "written") /\ pipe' = Append(pipe, Reply(url, license)) /\ end' = end
    BY <2>1 DEF WriteAnswer
  <2>3. QED
    BY <1>5, <2>2
<1>8. pc'[Zattood] = "written" /\ \A u \in Viewer : pc'[u] = pc[u]
  BY <1>7, MainMoves DEF EInv
<1>9. license \in License
  BY DEF EInv, TInv, TypeOK
<1>10. Answered(v)'
  <2>1. Idle' /\ Answers(v)' = Answers(v)
    BY <1>1, <1>8 DEF Idle, Answers, viewerVars
  <2>2. QED
    BY <1>6, <1>7, <1>9, <2>1 DEF Answered
<1>11. Placed(v)'
  BY <1>4, <1>7, <1>8, <1>10 DEF Placed
<1>12. \A u \in Viewer : ~Resting(u) => u = v
  BY <1>3
<1>13. QED
  BY <1>1, <1>2, <1>7, <1>11, <1>12, MainTurn

\* zattood closes the fifo, which a viewer that has not read still has open.
LEMMA CloseAnswerTurn ==
  ASSUME EInv, InTurn, CloseAnswer
  PROVE  InTurn'
<1>1. /\ pc[Zattood] = "written" /\ Go(Zattood, "start") /\ Close(Zattood)
      /\ UNCHANGED <<viewerVars, mainVars>>
  BY DEF CloseAnswer
<1>2. pc'[Zattood] = "start" /\ \A v \in Viewer : pc'[v] = pc[v]
  BY <1>1, MainMoves DEF EInv
<1>3. Zattood \in Process /\ \A v \in Viewer : v \in Process /\ v # Zattood
  BY EndsOfPlaces
<1>4. /\ pipe' \in {pipe, <<>>}
      /\ \A v \in Viewer : end'[v] = end[v]
      /\ (\E v \in Viewer : end[v].dir # "none") => pipe' = pipe
  BY <1>1, <1>3, ClosesFor
<1>5. Idle'
  BY <1>2 DEF Idle
<1>6. ASSUME NEW v \in Viewer, ~Resting(v) PROVE Placed(v)'
  <2>1. Placed(v)
    BY DEF InTurn
  <2>2. CASE pc[v] = "asking"
    BY <1>1, <1>2, <1>4, <2>1, <2>2 DEF Placed, Coming
  <2>3. CASE pc[v] \in {"asked", "waiting"} \/ (pc[v] = "reading" /\ ~end[v].open)
    BY <1>1, <2>1, <2>3 DEF Placed, Awaiting, Listening
  <2>4. CASE pc[v] = "reading" /\ end[v].open
    <3>1. \E u \in Answers(v), l \in License : pipe = <<Reply(u, l)>>
      BY <1>1, <2>1, <2>4 DEF Placed, Answered
    <3>2. pipe' = pipe
      BY <1>4, <2>4, EndsOfPlaces
    <3>3. Answered(v)'
      BY <1>1, <1>5, <3>1, <3>2 DEF Answered, Answers, viewerVars
    <3>4. QED
      BY <1>2, <1>4, <2>4, <3>3 DEF Placed
  <2>5. CASE pc[v] = "read"
    BY <1>2, <1>4, <1>5, <2>1, <2>5 DEF Placed
  <2>6. QED
    BY <1>2, <2>2, <2>3, <2>4, <2>5 DEF Placed
<1>7. (\A v \in Viewer : Resting(v)) => Idle' /\ pipe' = <<>>
  BY <1>4, <1>5 DEF InTurn
<1>8. QED
  BY <1>1, <1>6, <1>7, MainTurn

\* Every step leaves at most one viewer being served.
LEMMA TurnStep ==
  ASSUME EInv, UrlOK, InTurn, turns, [Next]_vars
  PROVE  InTurn'
<1>1. ASSUME NEW v \in Viewer, ViewerStep(v) \/ Kill(v) \/ \E c \in Number : Start(v, c)
      PROVE  InTurn'
  <2>1. CASE \E c \in Number : Start(v, c)
    <3>1. \A u \in Viewer : Resting(u)
      BY <2>1 DEF Start, Resting
    <3>2. QED
      BY <2>1, <3>1, StartTurn
  <2>2. ~Kill(v)
    BY DEF Kill
  <2>3. QED
    BY <1>1, <2>1, <2>2, AskTurn, CloseRequestTurn, OpenReplyTurn, ReadReplyTurn, CloseReplyTurn
    DEF ViewerStep
<1>2. ASSUME MainStep \/ Crash PROVE InTurn'
  <2>1. ~Crash /\ ~Restart
    BY DEF Crash, Restart, InTurn
  <2>2. CASE StopListening
    <3>1. /\ pc[Zattood] = "got" /\ Go(Zattood, "looking") /\ Close(Zattood)
          /\ UNCHANGED viewerVars /\ request' = request
      BY <2>2 DEF StopListening, mainVars
    <3>2. Zattood \in Process /\ \A v \in Viewer : v \in Process /\ v # Zattood
      BY EndsOfPlaces
    <3>3. pipe' \in {pipe, <<>>} /\ \A v \in Viewer : end'[v] = end[v]
      BY <3>1, <3>2, ClosesFor
    <3>4. QED
      BY <3>1, <3>3, LookTurn
  <2>3. CASE UseSaved \/ \E l \in License : LookUp(l) \/ Fail(l)
    <3>1. /\ pc[Zattood] = "looking"
          /\ Go(Zattood, "answering") \/ Go(Zattood, "start")
          /\ UNCHANGED <<pipe, end, viewerVars, request>>
      BY <2>3 DEF UseSaved, LookUp, Fail
    <3>2. QED
      BY <3>1, LookTurn
  <2>4. QED
    BY <1>2, <2>1, <2>2, <2>3, ListenTurn, ReadRequestTurn, OpenAnswerTurn, WriteAnswerTurn,
       CloseAnswerTurn
    DEF MainStep
<1>3. CASE UNCHANGED vars
  BY <1>3 DEF vars, viewerVars, mainVars, InTurn, Resting, Idle, Told, Given, Answers, Placed,
              Coming, Awaiting, Answered, Listening
<1>4. QED
  BY <1>1, <1>2, <1>3 DEF Next, Number

-----------------------------------------------------------------------------
(* The exchange that the fifo is for viewers in turn.                      *)

\* What Exchange sees of a viewer.
Asks == IF turns THEN wanted ELSE Nobody
Gets == IF turns THEN [v \in Viewer |-> Given(v)] ELSE Nobody

\* A viewer that comes in its turn asks.
LEMMA StartIsAsk ==
  ASSUME EInv, InTurn, turns, turns', NEW v \in Viewer, NEW c \in Number, Start(v, c)
  PROVE  Xchg!Ask(v, c)
<1>1. \A u \in Viewer : Resting(u) /\ Told(u)
  BY DEF Start, Resting, InTurn
<1>2. pc[v] = "start" /\ wanted' = [wanted EXCEPT ![v] = c] /\ answer' = answer
  BY DEF Start
<1>3. Error # Nothing /\ Nothing \notin Channel
  BY FifoAssumption
<1>4. \A u \in Viewer : wanted[u] = Nothing \/ Given(u) # Nothing
  BY <1>1, <1>3 DEF Resting, Told, Answers
<1>5. [u \in Viewer |-> Given(u)]' = [u \in Viewer |-> Given(u)]
  BY <1>2 DEF Given
<1>6. wanted[v] = Nothing
  BY <1>1, <1>2 DEF Told
<1>7. QED
  BY <1>2, <1>4, <1>5, <1>6 DEF Xchg!Ask, Xchg!Open

\* A viewer that reads is answered.
LEMMA ReadIsAnswer ==
  ASSUME EInv, InTurn, turns, turns', NEW v \in Viewer, ReadReply(v)
  PROVE  Xchg!Answer(v)
<1>1. pc[v] = "reading" /\ wanted' = wanted
  BY DEF ReadReply
<1>2. Told(v)
  BY DEF InTurn
<1>3. wanted[v] # Nothing /\ Given(v) = Nothing
  BY <1>1, <1>2, FifoAssumption DEF Told, Number, Given
<1>4. Given(v)' \in Answers(v)
  BY ReadReplyTurn
<1>5. \A u \in Viewer \ {v} : Given(u)' = Given(u)
  <2>1. answer \in [Viewer -> Message \cup {Nothing}]
    BY DEF EInv, TInv, TypeOK
  <2>2. \A u \in Viewer \ {v} : answer'[u] = answer[u]
    BY <2>1 DEF ReadReply
  <2>3. QED
    BY <2>2 DEF Given
<1>6. [u \in Viewer |-> Given(u)]' = [[u \in Viewer |-> Given(u)] EXCEPT ![v] = Given(v)']
  BY <1>5
<1>7. QED
  BY <1>1, <1>3, <1>4, <1>6 DEF Xchg!Answer, Xchg!Open, Answers

\* All other steps go unseen.
LEMMA RestUnseen ==
  ASSUME turns' = turns, UNCHANGED viewerVars \/ ~turns
  PROVE  UNCHANGED <<Asks, Gets>>
BY DEF Asks, Gets, Given, Nobody, viewerVars

\* Every step keeps the invariant and is one of the exchange or none.
LEMMA ExchangeStep ==
  ASSUME RInv, [Next]_vars
  PROVE  RInv' /\ [Xchg!Next]_(Xchg!vars)
<1>1. EInv /\ UrlOK /\ TInv /\ turns' = turns
  BY ViewerDataStep DEF RInv, EInv
<1>2. RInv'
  <2>1. EInv' /\ UrlOK'
    BY <1>1, TInvStep, EndsStep, UrlStep DEF EInv, UInv
  <2>2. turns => InTurn'
    BY <1>1, TurnStep DEF RInv
  <2>3. QED
    BY <1>1, <2>1, <2>2 DEF RInv
<1>3. ASSUME UNCHANGED viewerVars \/ ~turns PROVE UNCHANGED Xchg!vars
  BY <1>1, <1>3, RestUnseen DEF Xchg!vars, Asks, Gets
<1>4. CASE ~turns
  BY <1>2, <1>3, <1>4
<1>5. CASE turns
  <2>1. InTurn /\ turns'
    BY <1>1, <1>5 DEF RInv
  <2>2. ASSUME NEW v \in Viewer, ViewerStep(v) \/ Kill(v) \/ \E c \in Number : Start(v, c)
        PROVE  [Xchg!Next]_(Xchg!vars)
    <3>1. CASE \E c \in Number : Start(v, c)
      BY <1>1, <1>5, <2>1, <3>1, StartIsAsk DEF Xchg!Next, Number
    <3>2. CASE ReadReply(v)
      BY <1>1, <1>5, <2>1, <3>2, ReadIsAnswer DEF Xchg!Next
    <3>3. CASE Ask(v) \/ CloseRequest(v) \/ OpenReply(v) \/ CloseReply(v)
      BY <1>3, <3>3 DEF Ask, CloseRequest, OpenReply, CloseReply
    <3>4. ~Kill(v)
      BY <1>5 DEF Kill
    <3>5. QED
      BY <2>2, <3>1, <3>2, <3>3, <3>4 DEF ViewerStep
  <2>3. ASSUME MainStep \/ Crash PROVE UNCHANGED viewerVars
    <3>1. CASE Listen \/ ReadRequest \/ StopListening \/ UseSaved \/ OpenAnswer
      BY <3>1 DEF Listen, ReadRequest, StopListening, UseSaved, OpenAnswer
    <3>2. CASE (\E l \in License : LookUp(l) \/ Fail(l)) \/ WriteAnswer \/ CloseAnswer \/ Restart \/ Crash
      BY <3>2 DEF LookUp, Fail, WriteAnswer, CloseAnswer, Restart, Crash
    <3>3. QED
      BY <2>3, <3>1, <3>2 DEF MainStep
  <2>4. ASSUME UNCHANGED vars PROVE [Xchg!Next]_(Xchg!vars)
    BY <1>3, <2>4 DEF vars, viewerVars
  <2>5. ASSUME MainStep \/ Crash PROVE [Xchg!Next]_(Xchg!vars)
    BY <1>3, <2>3, <2>5
  <2>6. [Xchg!Next]_(Xchg!vars)
    BY <2>2, <2>4, <2>5 DEF Next, Number
  <2>7. QED
    BY <1>2, <2>6
<1>6. QED
  BY <1>2, <1>4, <1>5

(* Viewers that come one after another are each answered once, for the     *)
(* channel they asked for or with an error, however many they are: the     *)
(* requests and answers that share one pipe are an exchange.               *)
THEOREM Refinement == Spec => IsExchange
<1>1. Init => RInv
  <2> SUFFICES ASSUME Init PROVE RInv
    OBVIOUS
  <2>1. /\ pipe = <<>> /\ pc[Zattood] = "start"
        /\ \A v \in Viewer : pc[v] = "start" /\ wanted[v] = Nothing /\ answer[v] = Nothing
    BY DEF Init, Process
  <2>2. InTurn
    BY <2>1 DEF InTurn, Resting, Idle, Told, Placed
  <2>3. QED
    BY <2>2, InitTInv, InitEnds, InitUrl DEF RInv, EInv
<1>2. Init => Xchg!Init
  BY DEF Init, Xchg!Init, Given, Nobody
<1>3. RInv /\ [Next]_vars => RInv' /\ [Xchg!Next]_(Xchg!vars)
  BY ExchangeStep
<1>4. QED
  BY <1>1, <1>2, <1>3, PTL DEF Spec, Xchg!Spec, IsExchange

-----------------------------------------------------------------------------
(* What an exchange promises.                                              *)

\* A step of the exchange keeps every answer fitting, and one request open.
LEMMA PromiseStep ==
  TypeOK /\ Xchg!Fitting /\ Xchg!OneOpen /\ [Xchg!Next]_(Xchg!vars) =>
    (Xchg!Fitting /\ Xchg!OneOpen)'
<1> DEFINE w == IF turns THEN wanted ELSE Nobody
           a == IF turns THEN [v \in Viewer |-> Given(v)] ELSE Nobody
<1> SUFFICES ASSUME TypeOK, Xchg!Fitting, Xchg!OneOpen, [Xchg!Next]_(Xchg!vars)
             PROVE  (Xchg!Fitting /\ Xchg!OneOpen)'
  OBVIOUS
<1> DEFINE Fit(x, y) == \A v \in Viewer :
                          y[v] # Nothing =>
                            /\ x[v] # Nothing
                            /\ y[v] \in ({x[v]} \cap Channel) \cup {Error}
           Unmet(x, y, v) == x[v] # Nothing /\ y[v] = Nothing
           One(x, y) == \A u, v \in Viewer : Unmet(x, y, u) /\ Unmet(x, y, v) => u = v
<1>0. DOMAIN w = Viewer /\ DOMAIN a = Viewer
  BY DEF TypeOK, Nobody
<1>1. Fit(w, a) /\ One(w, a)
  BY DEF Xchg!Fitting, Xchg!OneOpen, Xchg!Open
<1>2. SUFFICES Fit(w', a') /\ One(w', a')
  BY DEF Xchg!Fitting, Xchg!OneOpen, Xchg!Open
<1>3. ASSUME NEW v \in Viewer, Xchg!Answer(v)
      PROVE  Fit(w', a') /\ One(w', a')
  <2>1. PICK x \in ({w[v]} \cap Channel) \cup {Error} :
          w' = w /\ a' = [a EXCEPT ![v] = x] /\ w[v] # Nothing
    BY <1>3 DEF Xchg!Answer, Xchg!Open
  <2>2. a[v] = Nothing
    BY <1>3 DEF Xchg!Answer, Xchg!Open
  <2> HIDE DEF w, a
  <2>3. \A u \in Viewer : u # v => a'[u] = a[u]
    BY <1>0, <2>1
  <2>4. a'[v] = x
    BY <1>0, <2>1
  <2>5. x # Nothing
    BY FifoAssumption
  <2>6. Fit(w', a')
    BY <1>1, <2>1, <2>3, <2>4
  <2>7. One(w', a')
    BY <1>1, <2>1, <2>3, <2>4, <2>5
  <2>8. QED
    BY <2>6, <2>7
<1>4. ASSUME NEW v \in Viewer, NEW c, Xchg!Ask(v, c)
      PROVE  Fit(w', a') /\ One(w', a')
  <2>1. w' = [w EXCEPT ![v] = c] /\ a' = a /\ w[v] = Nothing
    BY <1>4 DEF Xchg!Ask
  <2>2. \A u \in Viewer : ~(w[u] # Nothing /\ a[u] = Nothing)
    BY <1>4 DEF Xchg!Ask, Xchg!Open
  <2> HIDE DEF w, a
  <2>3. \A u \in Viewer : u # v => w'[u] = w[u]
    BY <1>0, <2>1
  <2>4. QED
    BY <1>1, <2>1, <2>2, <2>3
<1>5. ASSUME w' = w /\ a' = a
      PROVE  Fit(w', a') /\ One(w', a')
  <2> HIDE DEF w, a
  <2>1. QED
    BY <1>1, <1>5
<1>6. QED
  BY <1>3, <1>4, <1>5 DEF Xchg!Next, Xchg!vars

(* Viewers that come one after another get what they asked for: a viewer   *)
(* is never given the stream of another channel, nor an answer before it   *)
(* has asked, and zattood has one of their requests to answer at a time.   *)
THEOREM AnswersFit == Spec => [](Xchg!Fitting /\ Xchg!OneOpen)
<1>1. Xchg!Init => Xchg!Fitting /\ Xchg!OneOpen
  BY DEF Xchg!Init, Xchg!Fitting, Xchg!OneOpen, Xchg!Open
<1>2. IsExchange /\ []TypeOK => [](Xchg!Fitting /\ Xchg!OneOpen)
  BY <1>1, PromiseStep, PTL DEF IsExchange, Xchg!Spec
<1>3. QED
  BY <1>2, Refinement, TypeCorrect, PTL
=============================================================================
