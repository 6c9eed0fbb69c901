----------------------------- MODULE OutputPath -----------------------------
(***************************************************************************)
(* src/src/streamplayer.cpp: muxOutput(), the callback that gets every     *)
(* output of the multiplexer, the ring rbuf in which it holds the first    *)
(* ones back, and sendpacket(), which hands one output to write().         *)
(*                                                                         *)
(* The ring is the circular_buffer of CircularBuffer, of which this module *)
(* uses put(), get() and size().                                           *)
(*                                                                         *)
(* One thread runs all of this; the other actors are the reader behind     *)
(* write(), which decides how much of an output is accepted at a time, and *)
(* whatever ends the process.  An output is a record of its number and its *)
(* length; wire is the sequence of pieces write() accepted, each of them a *)
(* prefix of an output because sendpacket() always offers p and size.      *)
(***************************************************************************)
EXTENDS CircularBuffer

\* rbuf is a circular_buffer<cbuf, 100>: TElemCount is 100.
CONSTANTS
  StartBuffer,  \* outputs held back at first: 20
  TsLength,     \* bytes of a transport stream packet: 188
  Sizes,        \* the lengths in bytes an output may have
  MaxOutputs    \* a bound on the number of outputs

ASSUME OutputAssumption ==
  /\ TsLength \in Nat \ {0}
  /\ Sizes \subseteq Nat \ {0}
  /\ MaxOutputs \in Nat

Output == [id : 1 .. MaxOutputs, size : Sizes]
Piece == [id : 1 .. MaxOutputs, size : Nat]
NoOutput == [id |-> 0, size |-> 0]

\* The items of the ring are outputs, and it holds those that are held back.
ASSUME RingAssumption ==
  /\ Item = Output /\ NoItem = NoOutput
  /\ StartBuffer \in 0 .. TElemCount

VARIABLES
  startbuffer,  \* the static counter of muxOutput()
  emitted,      \* history: the outputs the callback was given
  pc,           \* where muxOutput() is, or how the program ended
  latest,       \* rTsOutBuffer, when it is to be sent without a copy
  n,            \* bytes of the current output that sendpacket() counted
  heap,         \* numbers of the malloc'd copies that are not freed
  wire,         \* history: what write() accepted, piece by piece
  tcp,          \* use_TCP: sendpacket() loops; otherwise it writes once
  whole         \* the reader: write() accepts all of what it is offered

vars ==
  <<ringVars, startbuffer, emitted, pc, latest, n, heap, wire, tcp, whole>>

\* Both are settled before the first output and never change.
mode == <<tcp, whole>>

\* What the ring holds, and the copy that was taken from it.
rbuf == Contents
buf == out

Init ==
  /\ RingInit
  /\ startbuffer = StartBuffer
  /\ emitted = <<>>
  /\ pc = "idle"
  /\ latest = NoOutput
  /\ n = 0
  /\ heap = {}
  /\ wire = <<>>
  /\ tcp \in BOOLEAN
  /\ whole \in BOOLEAN

\* The callback gets one more output.  One that is not made of whole packets
\* is turned away before anything is changed.
Emit(output) ==
  /\ pc = "idle"
  /\ Len(emitted) < MaxOutputs
  /\ output.id = Len(emitted) + 1
  /\ output.size % TsLength = 0
  /\ emitted' = Append(emitted, output)

\* Buffer the first outputs: a copy is put in the ring.
BufferOutput(output) ==
  /\ startbuffer > 0
  /\ Emit(output)
  /\ heap' = heap \cup {output.id}
  /\ Put(output)
  /\ startbuffer' = startbuffer - 1
  /\ UNCHANGED <<pc, latest, n, wire, mode>>

\* Later outputs are sent after everything the ring holds.
StartDraining(output) ==
  /\ startbuffer = 0
  /\ Emit(output)
  /\ pc' = "drain"
  /\ latest' = output
  /\ UNCHANGED <<ringVars, startbuffer, n, heap, wire, mode>>

TakeBuffered ==
  /\ pc = "drain"
  /\ Size # 0
  /\ Get
  /\ pc' = "copy"
  /\ n' = 0
  /\ UNCHANGED <<startbuffer, emitted, latest, heap, wire, mode>>

\* Sending the latest output after one copy instead of after all of them.
TakeLatestEarly ==
  /\ pc = "drain"
  /\ pc' = "latest"
  /\ n' = 0
  /\ UNCHANGED <<ringVars, startbuffer, emitted, latest, heap, wire, mode>>

TakeLatest ==
  /\ pc = "drain"
  /\ Size = 0
  /\ pc' = "latest"
  /\ n' = 0
  /\ UNCHANGED <<ringVars, startbuffer, emitted, latest, heap, wire, mode>>

Sending == IF pc = "copy" THEN buf ELSE latest

\* A return that forgets to free the copy.
SentWithoutFree ==
  /\ pc' = IF pc = "copy" THEN "drain" ELSE "idle"
  /\ UNCHANGED heap

\* sendpacket() returns; a copy from the ring is freed.
Sent ==
  /\ heap' = IF pc = "copy" THEN heap \ {buf.id} ELSE heap
  /\ pc' = IF pc = "copy" THEN "drain" ELSE "idle"

\* A loop that ends one byte too late.
WriteOnceMore(r) ==
  /\ pc \in {"copy", "latest"}
  /\ r \in (IF tcp THEN 1 ELSE 0) .. Sending.size
  /\ whole => r = Sending.size
  /\ wire' = IF r = 0 THEN wire
                      ELSE Append(wire, [id |-> Sending.id, size |-> r])
  /\ n' = n + r
  /\ IF tcp /\ n' <= Sending.size THEN UNCHANGED <<heap, pc>> ELSE Sent
  /\ UNCHANGED <<ringVars, startbuffer, emitted, latest, mode>>

\* A loop that forgets what earlier calls of write() accepted.
WriteUncounted(r) ==
  /\ pc \in {"copy", "latest"}
  /\ r \in (IF tcp THEN 1 ELSE 0) .. Sending.size
  /\ whole => r = Sending.size
  /\ n' = r
  /\ IF tcp /\ n' < Sending.size THEN UNCHANGED <<heap, pc>> ELSE Sent
  /\ UNCHANGED <<ringVars, startbuffer, emitted, latest, wire, mode>>

\* One call of write() which accepts the first r bytes of the output.  On the
\* socket a failed call changes nothing and is repeated, and the loop ends
\* when the accepted bytes add up to the length of the output.  On stdout and
\* in the file of -s the result of the only call is not looked at.
Write(r) ==
  /\ pc \in {"copy", "latest"}
  /\ r \in (IF tcp THEN 1 ELSE 0) .. Sending.size
  /\ whole => r = Sending.size
  /\ wire' = IF r = 0 THEN wire
                      ELSE Append(wire, [id |-> Sending.id, size |-> r])
  /\ n' = n + r
  /\ IF tcp /\ n' < Sending.size THEN UNCHANGED <<heap, pc>> ELSE Sent
  /\ UNCHANGED <<ringVars, startbuffer, emitted, latest, mode>>

\* DemuxRead() returns NULL: StreamPlay() closes the socket and returns.
EndOfStream ==
  /\ pc = "idle"
  /\ pc' = "closed"
  /\ UNCHANGED <<ringVars, startbuffer, emitted, latest, n, heap, wire, mode>>

\* SIGINT ends in _Exit(0), a write() to a reader that is gone in SIGPIPE.
Kill ==
  /\ pc \notin {"closed", "killed"}
  /\ pc' = "killed"
  /\ UNCHANGED <<ringVars, startbuffer, emitted, latest, n, heap, wire, mode>>

AnOutput == [id : {Len(emitted) + 1}, size : Sizes]

Next ==
  \/ \E output \in AnOutput : BufferOutput(output) \/ StartDraining(output)
  \/ TakeBuffered
  \/ TakeLatest
  \/ \E r \in 0 .. Sending.size : Write(r)
  \/ EndOfStream
  \/ Kill

Spec == Init /\ [][Next]_vars

\* The thread runs, and the reader keeps reading: a write() is not refused
\* for ever.
Progress == TakeBuffered \/ TakeLatest \/ \E r \in 0 .. Sending.size : Write(r)

FairSpec == Spec /\ WF_vars(Progress)

-----------------------------------------------------------------------------
(* The types of the variables.                                             *)
TypeOK ==
  /\ rbuf \in Seq(Output)
  /\ startbuffer \in 0 .. StartBuffer
  /\ emitted \in Seq(Output)
  /\ pc \in {"idle", "drain", "copy", "latest", "closed", "killed"}
  /\ buf \in Output \cup {NoOutput}
  /\ latest \in Output \cup {NoOutput}
  /\ n \in Nat
  /\ heap \subseteq 1 .. MaxOutputs
  /\ wire \in Seq(Piece)
  /\ tcp \in BOOLEAN
  /\ whole \in BOOLEAN

\* The outputs of which the reader has got something.
OnTheWire == {wire[i].id : i \in 1 .. Len(wire)}

(* Every copy that malloc() made is in the ring or in muxOutput's hands,   *)
(* once, and every other copy has been freed: the ring never drops a copy  *)
(* to make room (it would leak), none is freed twice or sent after free().  *)
CopiesOwned ==
  LET held == {rbuf[i].id : i \in 1 .. Len(rbuf)}
      taken == IF pc = "copy" THEN {buf.id} ELSE {}
  IN  pc # "killed" =>
        /\ heap = held \cup taken
        /\ held \cap taken = {}
        /\ \A i, j \in 1 .. Len(rbuf) : rbuf[i].id = rbuf[j].id => i = j

(* Whatever the pieces in which the reader accepts them, the outputs       *)
(* arrive in the order in which the multiplexer made them; on the socket   *)
(* none of them is left out, elsewhere there is at most a piece of each.   *)
InOrder ==
  \A i \in 2 .. Len(wire) :
    LET before == wire[i - 1].id
    IN  wire[i].id \in IF tcp THEN {before, before + 1}
                              ELSE before + 1 .. MaxOutputs

(* Once the first outputs are no longer held back, every callback returns  *)
(* with nothing left in the ring, and with nothing left unsent if write()  *)
(* accepts whole outputs.                                                  *)
CaughtUp ==
  pc = "idle" /\ Len(emitted) > StartBuffer =>
    /\ rbuf = <<>>
    /\ whole => OnTheWire = 1 .. Len(emitted)

(* When write() accepts whole outputs, muxOutput() with its ring and       *)
(* sendpacket() is an ordered channel from the multiplexer to the reader:  *)
(* nothing is lost in between, repeated or overtaken.                      *)
Channel == INSTANCE OrderedChannel WITH
             Message <- Output,
             sent <- IF whole THEN emitted ELSE <<>>,
             received <- IF whole THEN wire ELSE <<>>
IsOrderedChannel == Channel!Spec

(* A callback that started to send returns, unless the process is killed,  *)
(* even if write() accepts only a part of what it is offered.              *)
CallbackReturns ==
  pc \in {"drain", "copy", "latest"} ~> pc \in {"idle", "killed"}

(* The ring is never asked for more than it can do: put() finds a free     *)
(* slot, so that it drops nothing, and the loop that looks at size() never *)
(* calls value() on what get() returned for an empty ring (the two are     *)
(* computed from the indices in different ways).                           *)
RingSuffices ==
  /\ startbuffer > 0 => ~full_
  /\ Size # 0 => ~Empty

(* streamplayer.cpp:123: "A callback where all the TS-packets are sent     *)
(* from the multiplexer": the reader gets the bytes of an output once.     *)
(* Every piece starts with the first byte of its output, so no two pieces  *)
(* may be of the same output.                                              *)
NoByteTwice ==
  \A i, j \in 1 .. Len(wire) : i # j => wire[i].id # wire[j].id

-----------------------------------------------------------------------------
(* Where every output is: the first Done ones have gone through            *)
(* sendpacket(), the next may be in its hands, then come those in the      *)
(* ring, and the last may be the one that the callback was given just now. *)

Taken == IF pc = "copy" THEN 1 ELSE 0
Pending == IF pc \in {"drain", "copy", "latest"} THEN 1 ELSE 0
Done == Len(emitted) - Len(rbuf) - Taken - Pending

Numbered ==
  /\ Len(emitted) <= MaxOutputs
  /\ \A i \in 1 .. Len(emitted) : emitted[i].id = i

HeldBack ==
  /\ startbuffer + Len(rbuf) <= StartBuffer
  /\ startbuffer > 0 => Done = 0 /\ Len(rbuf) + startbuffer = StartBuffer
  /\ Pending = 1 => startbuffer = 0
  /\ pc = "latest" => rbuf = <<>>
  /\ pc \in {"idle", "closed"} /\ rbuf # <<>> => Done = 0

InOnePlace ==
  /\ Done \in Nat
  /\ \A i \in 1 .. Len(rbuf) : rbuf[i] = emitted[Done + Taken + i]
  /\ pc = "copy" => buf = emitted[Done + 1]
  /\ Pending = 1 => latest = emitted[Len(emitted)]
  /\ heap = Done + 1 .. Done + Taken + Len(rbuf)

Ledger == Numbered /\ (pc # "killed" => HeldBack /\ InOnePlace)

\* The number of the latest output of which the reader has got something.
WireEnd == IF wire = <<>> THEN 0 ELSE wire[Len(wire)].id

\* On the socket no output is passed over; elsewhere a failed write() loses one.
WireFollows ==
  pc # "killed" =>
    IF tcp THEN \/ WireEnd = Done
                \/ pc \in {"copy", "latest"} /\ WireEnd = Done + 1
           ELSE WireEnd <= Done

\* With whole writes, what sendpacket() is done with is what the reader has.
WireLedger ==
  /\ Len(wire) <= Len(emitted)
  /\ \A i \in 1 .. Len(wire) : wire[i] = emitted[i]
  /\ pc # "killed" => Len(wire) = Done
=============================================================================
