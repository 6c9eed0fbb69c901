--------------------------- MODULE CircularBuffer ---------------------------
(***************************************************************************)
(* src/src/circular_buffer.hpp: a ring of TElemCount slots with two        *)
(* indices and a flag that tells a full ring from an empty one.  Every     *)
(* member function that reads or writes the indices holds mutex_ for its   *)
(* whole body, so each is one action.                                      *)
(***************************************************************************)
EXTENDS Integers, Sequences

CONSTANTS
  TElemCount,  \* number of slots
  Item,        \* the values of type T that clients store
  NoItem       \* std::nullopt, and the contents of a slot never written

ASSUME SizeAssumption == TElemCount \in Nat \ {0}
ASSUME ItemAssumption == NoItem \notin Item

VARIABLES
  buf_,   \* the array buf_
  head_,  \* head_: the slot the next put() writes
  tail_,  \* tail_: the slot the next get() reads
  full_,  \* full_
  out    \* what the last get() returned

ringVars == <<buf_, head_, tail_, full_, out>>

Slot == 0 .. TElemCount - 1

\* The slot after i.
Following(i) == (i + 1) % TElemCount

Empty == ~full_ /\ head_ = tail_

Size ==
  IF full_ THEN TElemCount
  ELSE IF head_ >= tail_ THEN head_ - tail_
  ELSE TElemCount + head_ - tail_

RingInit ==
  /\ buf_ = [i \in Slot |-> NoItem]
  /\ head_ = 0
  /\ tail_ = 0
  /\ full_ = FALSE
  /\ out = NoItem

\* A put() that forgets to drop the oldest item of a full ring.
PutWithoutDrop(item) ==
  /\ buf_' = [buf_ EXCEPT ![head_] = item]
  /\ tail_' = tail_
  /\ head_' = Following(head_)
  /\ full_' = (head_' = tail_')
  /\ UNCHANGED out

Put(item) ==
  /\ buf_' = [buf_ EXCEPT ![head_] = item]
  /\ tail_' = IF full_ THEN Following(tail_) ELSE tail_
  /\ head_' = Following(head_)
  /\ full_' = (head_' = tail_')
  /\ UNCHANGED out

Get ==
  /\ ~Empty
  /\ out' = buf_[tail_]
  /\ full_' = FALSE
  /\ tail_' = Following(tail_)
  /\ UNCHANGED <<buf_, head_>>

\* The early return of get() on an empty ring.
GetNothing ==
  /\ Empty
  /\ out' = NoItem
  /\ UNCHANGED <<buf_, head_, tail_, full_>>

Reset ==
  /\ head_' = tail_
  /\ full_' = FALSE
  /\ UNCHANGED <<buf_, tail_, out>>

RingNext ==
  \/ \E item \in Item : Put(item)
  \/ Get
  \/ GetNothing
  \/ Reset

RingSpec == RingInit /\ [][RingNext]_ringVars

-----------------------------------------------------------------------------
(* The ring holds, from tail_ on, what the queue holds from its head on.   *)

\* The slot of the i-th item counted from slot t.
SlotFrom(t, i) == (t + i - 1) % TElemCount

Contents == [i \in 1 .. Size |-> buf_[SlotFrom(tail_, i)]]

Queue == INSTANCE BoundedQueue WITH Capacity <- TElemCount, queue <- Contents

(* The two indices and the flag are in range, a full ring has equal        *)
(* indices, and every slot between tail_ and head_ holds an item that was  *)
(* put there: get() never returns the contents of a slot never written.    *)
RingTypeOK ==
  /\ buf_ \in [Slot -> Item \cup {NoItem}]
  /\ head_ \in Slot
  /\ tail_ \in Slot
  /\ full_ \in BOOLEAN
  /\ out \in Item \cup {NoItem}

StoredItems ==
  /\ full_ => head_ = tail_
  /\ \A i \in 1 .. Size : buf_[SlotFrom(tail_, i)] \in Item

(* circular_buffer is a FIFO of at most TElemCount items which drops its   *)
(* oldest item when put() finds it full, wherever the indices have wrapped *)
(* to and however put(), get() and reset() are interleaved.                *)
IsBoundedQueue == Queue!Spec
=============================================================================
