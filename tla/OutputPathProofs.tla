-------------------------- MODULE OutputPathProofs --------------------------
(***************************************************************************)
(* The bookkeeping of the output path for every size of the ring, every    *)
(* number of outputs held back that fits in it and every kind of reader,   *)
(* and the channel it is when write() accepts whole outputs; and the ring  *)
(* it uses, for every number of slots.                                     *)
(***************************************************************************)
EXTENDS OutputPath, SequenceTheorems, TLAPS

(***************************************************************************)
(* The ring: circular_buffer implements BoundedQueue.  The proofs about    *)
(* the output path use no more of it than this.                            *)
(***************************************************************************)

RingInv == RingTypeOK /\ StoredItems

-----------------------------------------------------------------------------
(* Index arithmetic.                                                       *)

\* An index below twice the number of slots wraps once.
LEMMA Wrap ==
  ASSUME NEW x \in 0 .. 2 * TElemCount - 1
  PROVE  /\ x % TElemCount = IF x < TElemCount THEN x ELSE x - TElemCount
         /\ x % TElemCount \in Slot
BY SizeAssumption, SMT DEF Slot

\* The slot of the i-th item from slot t, without the modulus.
LEMMA SlotFromIs ==
  ASSUME NEW t \in Slot, NEW i \in 1 .. TElemCount
  PROVE  /\ SlotFrom(t, i) = IF t + i - 1 < TElemCount
                             THEN t + i - 1 ELSE t + i - 1 - TElemCount
         /\ SlotFrom(t, i) \in Slot
<1> DEFINE x == t + i - 1
<1>1. x \in 0 .. 2 * TElemCount - 1
  BY SizeAssumption DEF Slot
<1>2. SlotFrom(t, i) = x % TElemCount
  BY DEF SlotFrom
<1> HIDE DEF x
<1>3. /\ x % TElemCount = IF x < TElemCount THEN x ELSE x - TElemCount
      /\ x % TElemCount \in Slot
  BY <1>1, Wrap
<1>4. /\ SlotFrom(t, i) = IF x < TElemCount THEN x ELSE x - TElemCount
      /\ SlotFrom(t, i) \in Slot
  BY <1>2, <1>3
<1>5. QED
  BY <1>4, SizeAssumption DEF x, Slot

\* The slot after another one, without the modulus.
LEMMA FollowingIs ==
  ASSUME NEW i \in Slot
  PROVE  /\ Following(i) = IF i = TElemCount - 1 THEN 0 ELSE i + 1
         /\ Following(i) \in Slot
<1>1. i + 1 \in 0 .. 2 * TElemCount - 1
  BY SizeAssumption DEF Slot
<1>2. QED
  BY <1>1, Wrap, SizeAssumption DEF Following, Slot

\* Dropping the first item of a run of items moves every other one up.
LEMMA SlotAfterFirst ==
  ASSUME NEW t \in Slot, NEW i \in 1 .. TElemCount - 1
  PROVE  /\ SlotFrom(Following(t), i) = SlotFrom(t, i + 1)
         /\ SlotFrom(t, i + 1) # t
<1>1. /\ i \in 1 .. TElemCount
      /\ i + 1 \in 1 .. TElemCount
      /\ Following(t) \in Slot
  BY FollowingIs, SizeAssumption
<1>2. /\ SlotFrom(t, i + 1) = IF t + i < TElemCount
                              THEN t + i ELSE t + i - TElemCount
  <2> DEFINE j == i + 1
  <2>1. j \in 1 .. TElemCount
    BY <1>1
  <2> HIDE DEF j
  <2>2. SlotFrom(t, j) = IF t + j - 1 < TElemCount
                         THEN t + j - 1 ELSE t + j - 1 - TElemCount
    BY <2>1, SlotFromIs
  <2>3. QED
    BY <2>2, SizeAssumption DEF j, Slot
<1>3. SlotFrom(Following(t), i) =
        IF Following(t) + i - 1 < TElemCount
        THEN Following(t) + i - 1 ELSE Following(t) + i - 1 - TElemCount
  BY <1>1, SlotFromIs
<1>4. QED
  BY <1>1, <1>2, <1>3, FollowingIs, SizeAssumption DEF Slot

\* size() counts at most TElemCount items, and reaches it only when full.
LEMMA SizeIs ==
  ASSUME RingInv
  PROVE  /\ Size \in 0 .. TElemCount
         /\ Size = TElemCount <=> full_
         /\ Size = 0 <=> Empty
BY SizeAssumption DEF RingInv, RingTypeOK, StoredItems, Slot, Size, Empty

\* The slot put() writes comes right after the newest item.
LEMMA HeadIs ==
  ASSUME RingInv, ~full_
  PROVE  /\ head_ = SlotFrom(tail_, Size + 1)
         /\ \A i \in 1 .. Size : SlotFrom(tail_, i) # head_
<1>1. Size \in 0 .. TElemCount - 1
  BY SizeIs, SizeAssumption
<1> DEFINE j == Size + 1
<1>2. j \in 1 .. TElemCount
  BY <1>1, SizeAssumption
<1> HIDE DEF j
<1>3. SlotFrom(tail_, j) = IF tail_ + j - 1 < TElemCount
                          THEN tail_ + j - 1 ELSE tail_ + j - 1 - TElemCount
  BY <1>2, SlotFromIs DEF RingInv, RingTypeOK
<1>4. head_ = SlotFrom(tail_, j)
  BY <1>3, SizeAssumption DEF j, RingInv, RingTypeOK, Slot, Size
<1>5. ASSUME NEW i \in 1 .. Size
      PROVE  SlotFrom(tail_, i) # head_
  <2>1. i \in 1 .. TElemCount
    BY <1>1, SizeAssumption
  <2>2. SlotFrom(tail_, i) = IF tail_ + i - 1 < TElemCount
                            THEN tail_ + i - 1 ELSE tail_ + i - 1 - TElemCount
    BY <2>1, SlotFromIs DEF RingInv, RingTypeOK
  <2>3. QED
    BY <2>2, <1>5, SizeAssumption DEF RingInv, RingTypeOK, Slot, Size
<1>6. QED
  BY <1>4, <1>5 DEF j

-----------------------------------------------------------------------------
(* Append and Tail, item by item.                                          *)

\* Append in terms of the positions of a sequence.
LEMMA AppendIs ==
  ASSUME NEW S, NEW q \in Seq(S), NEW x \in S, NEW len \in Nat, len = Len(q)
  PROVE  Append(q, x) = [i \in 1 .. len + 1 |-> IF i = len + 1 THEN x ELSE q[i]]
<1> DEFINE r == [i \in 1 .. len + 1 |-> IF i = len + 1 THEN x ELSE q[i]]
<1>1. \A i \in 1 .. len + 1 : r[i] \in S
  BY ElementOfSeq
<1>2. r \in Seq(S) /\ Len(r) = len + 1
  BY <1>1
<1>3. /\ Append(q, x) \in Seq(S)
      /\ Len(Append(q, x)) = len + 1
      /\ \A i \in 1 .. len + 1 : Append(q, x)[i] = r[i]
  BY AppendProperties
<1> HIDE DEF r
<1>4. Append(q, x) = r
  BY <1>2, <1>3, SeqEqual
<1>5. QED
  BY <1>4 DEF r

\* Tail in terms of the positions of a sequence.
LEMMA TailIs ==
  ASSUME NEW S, NEW q \in Seq(S), NEW len \in Nat \ {0}, len = Len(q)
  PROVE  Tail(q) = [i \in 1 .. len - 1 |-> q[i + 1]]
<1> DEFINE r == [i \in 1 .. len - 1 |-> q[i + 1]]
<1>1. \A i \in 1 .. len - 1 : r[i] \in S
  BY ElementOfSeq
<1>2. r \in Seq(S) /\ Len(r) = len - 1
  BY <1>1
<1>3. /\ Tail(q) \in Seq(S)
      /\ Len(Tail(q)) = len - 1
      /\ \A i \in 1 .. len - 1 : Tail(q)[i] = r[i]
  <2>1. q # <<>>
    OBVIOUS
  <2>2. QED
    BY <2>1, HeadTailProperties
<1> HIDE DEF r
<1>4. Tail(q) = r
  BY <1>2, <1>3, SeqEqual
<1>5. QED
  BY <1>4 DEF r

-----------------------------------------------------------------------------
(* The queue that the ring stands for is a sequence of Size items.         *)

\* The mapped queue is a sequence of the items between the indices.
LEMMA ContentsIsSeq ==
  ASSUME RingInv
  PROVE  /\ Contents \in Seq(Item)
         /\ Len(Contents) = Size
         /\ \A i \in 1 .. Size : Contents[i] = buf_[SlotFrom(tail_, i)]
<1>1. Size \in Nat
  BY SizeIs
<1>2. QED
  BY <1>1 DEF Contents, RingInv, StoredItems

\* An empty ring satisfies the inductive invariant.
LEMMA InitRingInv == RingInit => RingInv
<1> SUFFICES ASSUME RingInit PROVE RingInv
  OBVIOUS
<1>1. RingTypeOK
  <2>1. 0 \in Slot
    BY SizeAssumption DEF Slot
  <2>2. QED
    BY <2>1, Zenon DEF RingInit, RingTypeOK
<1>2. Size = 0
  BY DEF RingInit, Size
<1>3. 1 .. Size = {}
  BY <1>2
<1>4. QED
  BY <1>1, <1>3 DEF RingInit, RingInv, StoredItems

\* put() into a full ring: every item moves one place towards the tail.
LEMMA PutFull ==
  ASSUME RingInv, full_, NEW item \in Item, Put(item)
  PROVE  /\ full_' /\ head_' = tail_' /\ Size' = TElemCount
         /\ \A i \in 1 .. TElemCount :
              buf_'[SlotFrom(tail_', i)] =
                IF i = TElemCount THEN item ELSE buf_[SlotFrom(tail_, i + 1)]
<1> USE SizeAssumption
<1>1. head_ = tail_ /\ head_' = Following(tail_) /\ tail_' = Following(tail_) /\ full_'
  BY DEF Put, RingInv, StoredItems
<1>2. Size' = TElemCount
  BY <1>1 DEF Size
<1>3. tail_ \in Slot /\ buf_' = [buf_ EXCEPT ![tail_] = item] /\ DOMAIN buf_ = Slot
  BY <1>1 DEF Put, RingInv, RingTypeOK
<1>4. ASSUME NEW i \in 1 .. TElemCount
      PROVE  buf_'[SlotFrom(tail_', i)] =
               IF i = TElemCount THEN item ELSE buf_[SlotFrom(tail_, i + 1)]
  <2>1. CASE i = TElemCount
    <3>1. SlotFrom(tail_', i) = tail_
      <4>1. tail_' \in Slot
        BY <1>1, <1>3, FollowingIs
      <4>2. SlotFrom(tail_', i) = IF tail_' + i - 1 < TElemCount
                           THEN tail_' + i - 1 ELSE tail_' + i - 1 - TElemCount
        BY <4>1, SlotFromIs
      <4>3. QED
        BY <1>1, <1>3, <2>1, <4>2, FollowingIs DEF Slot
    <3>2. QED
      BY <1>3, <2>1, <3>1
  <2>2. CASE i # TElemCount
    <3>1. i \in 1 .. TElemCount - 1 /\ i + 1 \in 1 .. TElemCount
      BY <2>2
    <3>2. SlotFrom(tail_', i) = SlotFrom(tail_, i + 1) /\ SlotFrom(tail_, i + 1) # tail_
      BY <1>1, <1>3, <3>1, SlotAfterFirst
    <3>3. SlotFrom(tail_, i + 1) \in Slot
      <4> DEFINE j == i + 1
      <4>1. j \in 1 .. TElemCount
        BY <3>1
      <4> HIDE DEF j
      <4>2. SlotFrom(tail_, j) \in Slot
        BY <1>3, <4>1, SlotFromIs
      <4>3. QED
        BY <4>2 DEF j
    <3>4. QED
      BY <1>3, <2>2, <3>2, <3>3
  <2>3. QED
    BY <2>1, <2>2
<1>5. QED
  BY <1>1, <1>2, <1>4

\* put() into a ring with room: the items stay and the new one follows them.
LEMMA PutNotFull ==
  ASSUME RingInv, ~full_, NEW item \in Item, Put(item)
  PROVE  /\ tail_' = tail_ /\ Size' = Size + 1
         /\ \A i \in 1 .. Size + 1 :
              buf_'[SlotFrom(tail_, i)] =
                IF i = Size + 1 THEN item ELSE buf_[SlotFrom(tail_, i)]
<1> USE SizeAssumption
<1>1. tail_' = tail_ /\ head_' = Following(head_) /\ full_' = (head_' = tail_)
  BY DEF Put
<1>2. Size' = Size + 1
  <2>1. head_' = IF head_ = TElemCount - 1 THEN 0 ELSE head_ + 1
    BY <1>1, FollowingIs DEF RingInv, RingTypeOK
  <2>2. head_ \in 0 .. TElemCount - 1 /\ tail_ \in 0 .. TElemCount - 1
    BY DEF RingInv, RingTypeOK, Slot
  <2>3. Size = IF head_ >= tail_ THEN head_ - tail_ ELSE TElemCount + head_ - tail_
    BY DEF Size
  <2>4. CASE head_' = tail_
    <3>1. Size' = TElemCount
      BY <1>1, <2>4 DEF Size
    <3>2. QED
      BY <2>1, <2>2, <2>3, <2>4, <3>1
  <2>5. CASE head_' # tail_
    <3>1. Size' = IF head_' >= tail_ THEN head_' - tail_
                  ELSE TElemCount + head_' - tail_
      BY <1>1, <2>5 DEF Size
    <3>2. QED
      BY <2>1, <2>2, <2>3, <2>5, <3>1
  <2>6. QED
    BY <2>4, <2>5
<1>3. head_ = SlotFrom(tail_, Size + 1) /\ \A i \in 1 .. Size : SlotFrom(tail_, i) # head_
  BY HeadIs
<1>4. buf_' = [buf_ EXCEPT ![head_] = item] /\ head_ \in Slot /\ DOMAIN buf_ = Slot
  BY DEF Put, RingInv, RingTypeOK
<1>5. Size \in 0 .. TElemCount - 1
  BY SizeIs
<1>6. ASSUME NEW i \in 1 .. Size + 1
      PROVE  buf_'[SlotFrom(tail_, i)] =
               IF i = Size + 1 THEN item ELSE buf_[SlotFrom(tail_, i)]
  <2>1. i \in 1 .. TElemCount
    BY <1>5
  <2>2. SlotFrom(tail_, i) \in Slot
    BY <2>1, SlotFromIs DEF RingInv, RingTypeOK
  <2>3. CASE i = Size + 1
    BY <1>3, <1>4, <2>3
  <2>4. CASE i # Size + 1
    <3>1. i \in 1 .. Size
      BY <1>5, <2>4
    <3>2. QED
      BY <1>3, <1>4, <2>2, <2>4, <3>1
  <2>5. QED
    BY <2>3, <2>4
<1>7. QED
  BY <1>1, <1>2, <1>6

\* put() keeps the invariant and is a Put of the queue.
LEMMA PutStep ==
  ASSUME RingInv, NEW item \in Item, Put(item)
  PROVE  RingInv' /\ Queue!Put(item)
<1> USE SizeAssumption
<1>1. RingTypeOK'
  BY FollowingIs DEF RingInv, Put, RingTypeOK
<1>2. full_' => head_' = tail_'
  BY DEF Put
<1>3. /\ Contents \in Seq(Item)
      /\ Len(Contents) = Size
      /\ \A i \in 1 .. Size : Contents[i] = buf_[SlotFrom(tail_, i)]
  BY ContentsIsSeq
<1>4. Size \in 0 .. TElemCount /\ (Size = TElemCount <=> full_)
  BY SizeIs
<1>5. CASE full_
  <2>1. /\ Size' = TElemCount /\ Size = TElemCount
        /\ \A i \in 1 .. TElemCount :
             buf_'[SlotFrom(tail_', i)] =
               IF i = TElemCount THEN item ELSE buf_[SlotFrom(tail_, i + 1)]
    BY <1>4, <1>5, PutFull
  <2>2. \A i \in 1 .. Size' : buf_'[SlotFrom(tail_', i)] \in Item
    BY <2>1 DEF RingInv, StoredItems
  <2>3. \A i \in 1 .. TElemCount - 1 : Contents[i + 1] = buf_[SlotFrom(tail_, i + 1)]
    BY <1>3, <2>1
  <2>4. Contents' = [i \in 1 .. TElemCount |->
                       IF i = TElemCount THEN item ELSE Contents[i + 1]]
    BY <2>1, <2>3 DEF Contents
  <2>5. Contents' = Append(Tail(Contents), item)
    <3>1. Tail(Contents) = [i \in 1 .. TElemCount - 1 |-> Contents[i + 1]]
      BY <1>3, <2>1, TailIs
    <3>2. /\ Tail(Contents) \in Seq(Item)
          /\ Len(Tail(Contents)) = TElemCount - 1
      <4>1. Contents # <<>>
        BY <1>3, <2>1
      <4>2. QED
        BY <1>3, <2>1, <4>1, HeadTailProperties
    <3>3. Append(Tail(Contents), item) =
            [i \in 1 .. TElemCount |->
               IF i = TElemCount THEN item ELSE Tail(Contents)[i]]
      <4> DEFINE len == TElemCount - 1
                 q == Tail(Contents)
      <4>1. /\ len \in Nat /\ len + 1 = TElemCount
            /\ q \in Seq(Item) /\ Len(q) = len
        BY <3>2
      <4> HIDE DEF len, q
      <4>2. Append(q, item) =
              [i \in 1 .. len + 1 |-> IF i = len + 1 THEN item ELSE q[i]]
        BY <4>1, AppendIs
      <4>3. Append(q, item) =
              [i \in 1 .. TElemCount |-> IF i = TElemCount THEN item ELSE q[i]]
        BY <4>1, <4>2
      <4>4. QED
        BY <4>3 DEF q
    <3>4. \A i \in 1 .. TElemCount :
            i # TElemCount => Tail(Contents)[i] = Contents[i + 1]
      BY <3>1
    <3>5. QED
      BY <2>4, <3>3, <3>4
  <2>6. QED
    BY <1>1, <1>2, <1>3, <2>1, <2>2, <2>5
    DEF RingInv, StoredItems, Queue!Put, Put
<1>6. CASE ~full_
  <2>1. /\ tail_' = tail_ /\ Size' = Size + 1
        /\ \A i \in 1 .. Size + 1 :
             buf_'[SlotFrom(tail_, i)] =
               IF i = Size + 1 THEN item ELSE buf_[SlotFrom(tail_, i)]
    BY <1>6, PutNotFull
  <2>2. \A i \in 1 .. Size' : buf_'[SlotFrom(tail_', i)] \in Item
    BY <1>4, <2>1 DEF RingInv, StoredItems
  <2>3. Contents' = [i \in 1 .. Size + 1 |->
                       IF i = Size + 1 THEN item ELSE Contents[i]]
    BY <1>3, <1>4, <2>1 DEF Contents
  <2>4. Contents' = Append(Contents, item)
    BY <1>3, <1>4, <2>3, AppendIs
  <2>5. QED
    BY <1>1, <1>2, <1>3, <1>4, <1>6, <2>1, <2>2, <2>4
    DEF RingInv, StoredItems, Queue!Put, Put
<1>7. QED
  BY <1>5, <1>6

\* get() of a ring that is not empty keeps the invariant and is a Get.
LEMMA GetStep ==
  ASSUME RingInv, Get
  PROVE  RingInv' /\ Queue!Get
<1> USE SizeAssumption
<1>1. Size \in 1 .. TElemCount
  BY SizeIs DEF Get
<1>2. /\ Contents \in Seq(Item)
      /\ Len(Contents) = Size
      /\ \A i \in 1 .. Size : Contents[i] = buf_[SlotFrom(tail_, i)]
  BY ContentsIsSeq
<1>3. SlotFrom(tail_, 1) = tail_
  BY SlotFromIs DEF RingInv, RingTypeOK, Slot
<1>4. out' = Contents[1] /\ out' \in Item
  BY <1>1, <1>2, <1>3 DEF Get, RingInv, StoredItems
<1>5. RingTypeOK' /\ ~full_'
  BY <1>4, FollowingIs DEF Get, RingInv, RingTypeOK
<1>6. Size' = Size - 1
  BY <1>5, FollowingIs DEF Get, Size, RingInv, RingTypeOK, StoredItems, Slot, Empty
<1>7. ASSUME NEW i \in 1 .. Size - 1
      PROVE  buf_'[SlotFrom(tail_', i)] = buf_[SlotFrom(tail_, i + 1)]
  <2>1. i \in 1 .. TElemCount - 1
    BY <1>1
  <2>2. SlotFrom(tail_', i) = SlotFrom(tail_, i + 1)
    BY <2>1, SlotAfterFirst DEF Get, RingInv, RingTypeOK
  <2>3. QED
    BY <2>2 DEF Get
<1>8. \A i \in 1 .. Size' : buf_'[SlotFrom(tail_', i)] \in Item
  BY <1>1, <1>6, <1>7 DEF RingInv, StoredItems
<1>9. Contents' = [i \in 1 .. Size - 1 |-> Contents[i + 1]]
  BY <1>1, <1>2, <1>6, <1>7 DEF Contents
<1>10. Contents' = Tail(Contents)
  BY <1>1, <1>2, <1>9, TailIs
<1>11. QED
  BY <1>1, <1>2, <1>4, <1>5, <1>8, <1>10 DEF RingInv, StoredItems, Queue!Get

\* get() of an empty ring changes nothing.
LEMMA GetNothingStep ==
  ASSUME RingInv, GetNothing
  PROVE  RingInv' /\ Queue!GetNothing
<1>1. UNCHANGED <<buf_, head_, tail_, full_>> /\ out' = NoItem
  BY DEF GetNothing
<1>2. RingInv'
  BY <1>1 DEF RingInv, RingTypeOK, StoredItems, Size
<1>3. Contents = <<>>
  BY SizeIs, ContentsIsSeq DEF GetNothing
<1>4. Contents' = Contents
  BY <1>1 DEF Contents, Size
<1>5. QED
  BY <1>1, <1>2, <1>3, <1>4 DEF Queue!GetNothing

\* reset() empties ring and queue.
LEMMA ResetStep ==
  ASSUME RingInv, Reset
  PROVE  RingInv' /\ Queue!Reset
<1>1. head_' = tail_ /\ full_' = FALSE /\ UNCHANGED <<buf_, tail_, out>>
  BY DEF Reset
<1>2. Size' = 0
  BY <1>1, SizeAssumption DEF Size, RingInv, RingTypeOK, Slot
<1>3. RingInv'
  <2>1. RingTypeOK'
    BY <1>1 DEF RingInv, RingTypeOK
  <2>2. 1 .. Size' = {}
    BY <1>2
  <2>3. QED
    BY <1>1, <2>1, <2>2 DEF RingInv, StoredItems
<1>4. Contents' = <<>>
  BY <1>2 DEF Contents
<1>5. QED
  BY <1>1, <1>3, <1>4 DEF Queue!Reset

\* Every step keeps the invariant and is one of the queue or none.
LEMMA RingStep ==
  ASSUME RingInv, [RingNext]_ringVars
  PROVE  RingInv' /\ [Queue!Next]_Queue!vars
<1>1. CASE \E item \in Item : Put(item)
  BY <1>1, PutStep DEF Queue!Next
<1>2. CASE Get
  BY <1>2, GetStep DEF Queue!Next
<1>3. CASE GetNothing
  BY <1>3, GetNothingStep DEF Queue!Next
<1>4. CASE Reset
  BY <1>4, ResetStep DEF Queue!Next
<1>5. CASE UNCHANGED ringVars
  BY <1>5 DEF ringVars, RingInv, RingTypeOK, StoredItems, Size, Queue!vars, Contents
<1>6. QED
  BY <1>1, <1>2, <1>3, <1>4, <1>5 DEF RingNext

-----------------------------------------------------------------------------

(* The indices of circular_buffer stay in range, and a get() never returns *)
(* a slot that no put() has filled.                                        *)
THEOREM RingSafety == RingSpec => [](RingTypeOK /\ StoredItems)
<1>1. RingInv /\ [RingNext]_ringVars => RingInv'
  BY RingStep
<1>2. QED
  BY InitRingInv, <1>1, PTL DEF RingSpec, RingInv

(* circular_buffer implements the drop-oldest queue: put() and get() keep  *)
(* first-in-first-out order through every wrap of the two indices.         *)
THEOREM RingRefinement == RingSpec => IsBoundedQueue
<1>1. RingInit => Queue!Init
  BY SizeAssumption DEF RingInit, Queue!Init, Contents, Size
<1>2. RingInv /\ [RingNext]_ringVars => RingInv' /\ [Queue!Next]_Queue!vars
  BY RingStep
<1>3. QED
  BY InitRingInv, <1>1, <1>2, PTL DEF RingSpec, Queue!Spec, IsBoundedQueue

-----------------------------------------------------------------------------
(***************************************************************************)
(* The output path.                                                        *)
(***************************************************************************)

IInv == TypeOK /\ Ledger /\ RingInv

-----------------------------------------------------------------------------
(* The ring as the path sees it: its contents are a queue of outputs.      *)

\* size() and the contents agree.
LEMMA RbufIs ==
  ASSUME RingInv
  PROVE  /\ rbuf \in Seq(Output)
         /\ Len(rbuf) = Size
         /\ Size = 0 <=> rbuf = <<>>
<1>1. Contents \in Seq(Item) /\ Len(Contents) = Size
  BY ContentsIsSeq
<1>2. Contents = <<>> <=> Len(Contents) = 0
  BY <1>1, EmptySeq, LenProperties
<1>3. QED
  BY <1>1, <1>2, RingAssumption DEF rbuf

\* While nobody calls put() or get() the contents stay.
LEMMA RingStays ==
  ASSUME UNCHANGED ringVars
  PROVE  UNCHANGED <<rbuf, buf>> /\ (RingInv => RingInv')
BY DEF ringVars, rbuf, buf, Contents, Size, RingInv, RingTypeOK, StoredItems

\* put() of an output.
LEMMA PutIs ==
  ASSUME RingInv, NEW output \in Output, Put(output)
  PROVE  /\ RingInv'
         /\ Len(rbuf) # TElemCount => rbuf' = Append(rbuf, output)
         /\ buf' = buf
<1>1. RingInv' /\ Queue!Put(output)
  BY PutStep, RingAssumption
<1>2. QED
  BY <1>1 DEF Queue!Put, rbuf, buf

\* get() of a ring that holds something.
LEMMA GetIs ==
  ASSUME RingInv, Get
  PROVE  RingInv' /\ rbuf # <<>> /\ buf' = rbuf[1] /\ rbuf' = Tail(rbuf)
<1>1. RingInv' /\ Queue!Get
  BY GetStep
<1>2. QED
  BY <1>1 DEF Queue!Get, rbuf, buf

-----------------------------------------------------------------------------
(* What Append and Tail do, in the form the steps below use.               *)

\* Append in terms of the positions of a sequence.
LEMMA AppendFacts ==
  ASSUME NEW S, NEW q \in Seq(S), NEW x \in S
  PROVE  /\ Append(q, x) \in Seq(S)
         /\ Len(q) \in Nat
         /\ Len(Append(q, x)) = Len(q) + 1
         /\ \A i \in 1 .. Len(q) : Append(q, x)[i] = q[i]
         /\ Append(q, x)[Len(q) + 1] = x
BY AppendProperties, LenProperties

\* Tail in terms of the positions of a sequence.
LEMMA TailFacts ==
  ASSUME NEW S, NEW q \in Seq(S), q # <<>>
  PROVE  /\ Tail(q) \in Seq(S)
         /\ Len(q) \in Nat \ {0}
         /\ Len(Tail(q)) = Len(q) - 1
         /\ \A i \in 1 .. Len(q) - 1 : Tail(q)[i] = q[i + 1]
         /\ q[1] \in S
<1>1. Len(q) \in Nat \ {0}
  BY EmptySeq
<1>2. QED
  BY <1>1, HeadTailProperties, ElementOfSeq

\* Only the empty sequence has length 0.
LEMMA EmptyIs ==
  ASSUME NEW S, NEW q \in Seq(S)
  PROVE  /\ Len(q) \in Nat
         /\ q = <<>> <=> Len(q) = 0
BY EmptySeq, LenProperties

-----------------------------------------------------------------------------
\* The ring is empty at the start.
LEMMA InitRbuf == Init => RingInv /\ rbuf = <<>> /\ buf = NoOutput
<1> SUFFICES ASSUME Init PROVE RingInv /\ rbuf = <<>> /\ buf = NoOutput
  OBVIOUS
<1>1. RingInv
  BY InitRingInv DEF Init
<1>2. Size = 0 /\ out = NoItem
  BY SizeAssumption DEF Init, RingInit, Size
<1>3. QED
  BY <1>1, <1>2, RbufIs, RingAssumption DEF buf

\* Nothing is sent and nothing held at the start.
LEMMA InitIInv == Init => IInv
<1> SUFFICES ASSUME Init PROVE IInv
  OBVIOUS
<1> USE RingAssumption, OutputAssumption
<1>0. RingInv /\ rbuf = <<>> /\ buf = NoOutput
  BY InitRbuf
<1>1. Len(rbuf) = 0 /\ Len(emitted) = 0
  BY <1>0, EmptySeq DEF Init
<1>2. TypeOK
  <2>1. rbuf \in Seq(Output) /\ emitted \in Seq(Output) /\ wire \in Seq(Piece)
    BY <1>0 DEF Init
  <2>2. /\ startbuffer \in 0 .. StartBuffer /\ n \in Nat
        /\ heap \subseteq 1 .. MaxOutputs
    BY DEF Init
  <2>3. QED
    BY <1>0, <2>1, <2>2 DEF Init, TypeOK
<1>3. Taken = 0 /\ Pending = 0 /\ Done = 0
  <2>1. Taken = 0 /\ Pending = 0
    BY DEF Init, Taken, Pending
  <2>2. QED
    BY <1>1, <2>1 DEF Done
<1>4. Numbered
  BY <1>1 DEF Numbered
<1>5. HeldBack
  BY <1>1, <1>3 DEF Init, HeldBack
<1>6. InOnePlace
  BY <1>1, <1>3 DEF Init, InOnePlace
<1>7. QED
  BY <1>0, <1>2, <1>4, <1>5, <1>6 DEF IInv, Ledger

\* The callback numbers its outputs.
LEMMA EmitStep ==
  ASSUME IInv, NEW output \in AnOutput, Emit(output)
  PROVE  /\ output \in Output
         /\ pc = "idle"
         /\ emitted' \in Seq(Output)
         /\ Len(emitted) \in Nat
         /\ Len(emitted') = Len(emitted) + 1
         /\ \A i \in 1 .. Len(emitted) : emitted'[i] = emitted[i]
         /\ emitted'[Len(emitted) + 1] = output
         /\ output.id = Len(emitted) + 1
         /\ Numbered'
<1> USE OutputAssumption
<1>1. emitted \in Seq(Output) /\ Len(emitted) \in Nat
  BY LenProperties DEF IInv, TypeOK
<1>2. Len(emitted) + 1 \in 1 .. MaxOutputs
  BY <1>1 DEF Emit
<1>3. output \in Output
  BY <1>2 DEF AnOutput, Output
<1>4. /\ emitted' \in Seq(Output)
      /\ Len(emitted') = Len(emitted) + 1
      /\ \A i \in 1 .. Len(emitted) : emitted'[i] = emitted[i]
      /\ emitted'[Len(emitted) + 1] = output
  BY <1>1, <1>3, AppendFacts DEF Emit
<1>5. output.id = Len(emitted) + 1
  BY DEF Emit
<1>6. Numbered'
  <2> SUFFICES ASSUME NEW i \in 1 .. Len(emitted')
               PROVE  emitted'[i].id = i
    BY <1>1, <1>2, <1>4 DEF Numbered
  <2>1. CASE i = Len(emitted) + 1
    BY <2>1, <1>4, <1>5
  <2>2. CASE i \in 1 .. Len(emitted)
    BY <2>2, <1>4 DEF IInv, Ledger, Numbered
  <2>3. QED
    BY <1>1, <1>4, <2>1, <2>2
<1>7. QED
  BY <1>1, <1>3, <1>4, <1>5, <1>6 DEF Emit

\* A copy that is put into the ring is in the ledger there.
LEMMA BufferOutputStep ==
  ASSUME IInv, NEW output \in AnOutput, BufferOutput(output)
  PROVE  IInv' /\ Done' = Done
<1> USE RingAssumption, OutputAssumption
<1>1. /\ rbuf \in Seq(Output) /\ Len(rbuf) \in Nat
      /\ startbuffer \in 0 .. StartBuffer
  BY LenProperties DEF IInv, TypeOK
<1>2. Emit(output)
  BY DEF mode, BufferOutput
<1>3. /\ output \in Output
      /\ pc = "idle" /\ pc' = "idle"
      /\ emitted' \in Seq(Output)
      /\ Len(emitted) \in Nat
      /\ Len(emitted') = Len(emitted) + 1
      /\ \A i \in 1 .. Len(emitted) : emitted'[i] = emitted[i]
      /\ emitted'[Len(emitted) + 1] = output
      /\ output.id = Len(emitted) + 1
      /\ Numbered'
  BY <1>2, EmitStep DEF mode, BufferOutput
<1>4. HeldBack /\ InOnePlace /\ startbuffer > 0
  BY <1>3 DEF IInv, Ledger, BufferOutput
<1>5. /\ Taken = 0 /\ Pending = 0 /\ Taken' = 0 /\ Pending' = 0
      /\ Done = 0 /\ Len(emitted) = Len(rbuf)
      /\ Len(rbuf) + startbuffer = StartBuffer
  BY <1>1, <1>3, <1>4 DEF Taken, Pending, Done, HeldBack
\* There is room in the ring, so put() drops nothing.
<1>6. rbuf' = Append(rbuf, output) /\ buf' = buf /\ RingInv'
  <2>1. Len(rbuf) # TElemCount
    BY <1>1, <1>4, <1>5, SizeAssumption
  <2>2. Put(output) /\ RingInv
    BY DEF mode, BufferOutput, IInv
  <2>3. QED
    BY <1>3, <2>1, <2>2, PutIs
<1>7. /\ rbuf' \in Seq(Output)
      /\ Len(rbuf') = Len(rbuf) + 1
      /\ \A i \in 1 .. Len(rbuf) : rbuf'[i] = rbuf[i]
      /\ rbuf'[Len(rbuf) + 1] = output
  BY <1>1, <1>3, <1>6, AppendFacts
<1>8. Done' = 0
  BY <1>1, <1>3, <1>5, <1>7 DEF Done
<1>9. /\ startbuffer' = startbuffer - 1 /\ heap' = heap \cup {output.id}
      /\ UNCHANGED <<buf, latest, n, wire, tcp, whole>>
  BY <1>6 DEF mode, BufferOutput
<1>10. TypeOK'
  <2>1. heap' \subseteq 1 .. MaxOutputs
    BY <1>3, <1>9 DEF IInv, TypeOK, Output
  <2>2. startbuffer' \in 0 .. StartBuffer
    BY <1>1, <1>4, <1>9
  <2>3. QED
    BY <1>3, <1>7, <1>9, <2>1, <2>2 DEF IInv, TypeOK
<1>11. HeldBack'
  BY <1>1, <1>3, <1>5, <1>7, <1>8, <1>9 DEF HeldBack
<1>12. InOnePlace'
  <2>1. \A i \in 1 .. Len(rbuf') : rbuf'[i] = emitted'[i]
    <3> SUFFICES ASSUME NEW i \in 1 .. Len(rbuf')
                 PROVE  rbuf'[i] = emitted'[i]
      OBVIOUS
    <3>1. CASE i = Len(rbuf) + 1
      BY <3>1, <1>3, <1>5, <1>7
    <3>2. CASE i \in 1 .. Len(rbuf)
      <4>1. rbuf[i] = emitted[i]
        BY <3>2, <1>1, <1>4, <1>5 DEF InOnePlace
      <4>2. QED
        BY <4>1, <3>2, <1>3, <1>5, <1>7
    <3>3. QED
      BY <1>1, <1>7, <3>1, <3>2
  <2>2. heap' = 1 .. Len(rbuf')
    <3>1. heap = 1 .. Len(rbuf)
      BY <1>1, <1>4, <1>5 DEF InOnePlace
    <3>2. QED
      BY <3>1, <1>1, <1>3, <1>5, <1>7, <1>9
  <2>3. \A i \in 1 .. Len(rbuf') : Done' + Taken' + i = i
    BY <1>1, <1>5, <1>7, <1>8
  <2>4. Done' + 1 = 1 /\ Done' + Taken' + Len(rbuf') = Len(rbuf')
    BY <1>1, <1>5, <1>7, <1>8
  <2>5. QED
    BY <1>3, <1>5, <1>8, <2>1, <2>2, <2>3, <2>4 DEF InOnePlace
<1>13. QED
  BY <1>3, <1>5, <1>6, <1>8, <1>10, <1>11, <1>12 DEF IInv, Ledger

\* Draining begins with the books as they are.
LEMMA StartDrainingStep ==
  ASSUME IInv, NEW output \in AnOutput, StartDraining(output)
  PROVE  IInv' /\ Done' = Done
<1> USE RingAssumption, OutputAssumption
<1>1. rbuf \in Seq(Output) /\ Len(rbuf) \in Nat
  BY LenProperties DEF IInv, TypeOK
<1>2. /\ output \in Output
      /\ pc = "idle" /\ pc' = "drain"
      /\ emitted' \in Seq(Output)
      /\ Len(emitted) \in Nat
      /\ Len(emitted') = Len(emitted) + 1
      /\ \A i \in 1 .. Len(emitted) : emitted'[i] = emitted[i]
      /\ emitted'[Len(emitted) + 1] = output
      /\ Numbered'
  BY EmitStep DEF mode, StartDraining
<1>3. /\ startbuffer = 0 /\ latest' = output
      /\ UNCHANGED <<rbuf, startbuffer, buf, n, heap, wire, tcp, whole>>
      /\ RingInv'
  BY RingStays DEF mode, StartDraining, IInv
<1>4. HeldBack /\ InOnePlace
  BY <1>2 DEF IInv, Ledger
<1>5. /\ Taken = 0 /\ Pending = 0 /\ Taken' = 0 /\ Pending' = 1
      /\ Done' = Done /\ Done = Len(emitted) - Len(rbuf) /\ Done \in Nat
  BY <1>1, <1>2, <1>3, <1>4 DEF Taken, Pending, Done, InOnePlace
<1>6. TypeOK'
  BY <1>2, <1>3 DEF IInv, TypeOK
<1>7. HeldBack'
  BY <1>1, <1>2, <1>3, <1>4, <1>5 DEF HeldBack
<1>8. InOnePlace'
  <2>1. \A i \in 1 .. Len(rbuf') : rbuf'[i] = emitted'[Done' + Taken' + i]
    <3> SUFFICES ASSUME NEW i \in 1 .. Len(rbuf)
                 PROVE  rbuf[i] = emitted'[Done' + Taken' + i]
      BY <1>3
    <3>1. rbuf[i] = emitted[Done + Taken + i]
      BY <1>4 DEF InOnePlace
    <3>2. /\ Done + Taken + i \in 1 .. Len(emitted)
          /\ Done' + Taken' + i = Done + Taken + i
      BY <1>1, <1>2, <1>5
    <3>3. QED
      BY <3>1, <3>2, <1>2
  <2>2. heap' = Done' + 1 .. Done' + Taken' + Len(rbuf')
    BY <1>3, <1>4, <1>5 DEF InOnePlace
  <2>3. QED
    BY <1>2, <1>3, <1>5, <2>1, <2>2 DEF InOnePlace
<1>9. QED
  BY <1>2, <1>3, <1>5, <1>6, <1>7, <1>8 DEF IInv, Ledger

\* What is taken from the ring is in the hands of sendpacket().
LEMMA TakeBufferedStep ==
  ASSUME IInv, TakeBuffered
  PROVE  IInv' /\ Done' = Done
<1> USE RingAssumption, OutputAssumption
<1>1. rbuf \in Seq(Output) /\ emitted \in Seq(Output) /\ Len(emitted) \in Nat
  BY LenProperties DEF IInv, TypeOK
<1>2. /\ pc = "drain" /\ pc' = "copy" /\ n' = 0
      /\ rbuf # <<>> /\ buf' = rbuf[1] /\ rbuf' = Tail(rbuf)
      /\ UNCHANGED <<startbuffer, emitted, latest, heap, wire, tcp, whole>>
      /\ RingInv'
  BY GetIs DEF mode, TakeBuffered, IInv
<1>3. /\ rbuf' \in Seq(Output)
      /\ Len(rbuf) \in Nat \ {0}
      /\ Len(rbuf') = Len(rbuf) - 1
      /\ \A i \in 1 .. Len(rbuf) - 1 : rbuf'[i] = rbuf[i + 1]
      /\ buf' \in Output
  BY <1>1, <1>2, TailFacts
<1>4. HeldBack /\ InOnePlace /\ Numbered
  BY <1>2 DEF IInv, Ledger
<1>5. /\ Taken = 0 /\ Pending = 1 /\ Taken' = 1 /\ Pending' = 1
      /\ Done' = Done /\ Done \in Nat
      /\ Done = Len(emitted) - Len(rbuf) - 1
  BY <1>1, <1>2, <1>3, <1>4 DEF Taken, Pending, Done, InOnePlace
<1>6. TypeOK'
  BY <1>1, <1>2, <1>3 DEF IInv, TypeOK
<1>7. HeldBack'
  BY <1>2, <1>3, <1>4, <1>5 DEF HeldBack, IInv, TypeOK
<1>8. InOnePlace'
  <2>1. \A i \in 1 .. Len(rbuf') : rbuf'[i] = emitted'[Done' + Taken' + i]
    <3> SUFFICES ASSUME NEW i \in 1 .. Len(rbuf) - 1
                 PROVE  rbuf[i + 1] = emitted[Done + 1 + i]
      BY <1>2, <1>3, <1>5
    <3>1. rbuf[i + 1] = emitted[Done + Taken + (i + 1)]
      BY <1>3, <1>4 DEF InOnePlace
    <3>2. QED
      BY <3>1, <1>5
  <2>2. buf' = emitted'[Done' + 1]
    <3>1. rbuf[1] = emitted[Done + Taken + 1]
      BY <1>3, <1>4 DEF InOnePlace
    <3>2. QED
      BY <3>1, <1>2, <1>5
  <2>3. heap' = Done' + 1 .. Done' + Taken' + Len(rbuf')
    BY <1>2, <1>3, <1>4, <1>5 DEF InOnePlace
  <2>4. QED
    BY <1>2, <1>4, <1>5, <2>1, <2>2, <2>3 DEF InOnePlace
<1>9. QED
  BY <1>2, <1>4, <1>5, <1>6, <1>7, <1>8 DEF IInv, Ledger, Numbered

\* The latest output goes last, when the ring is empty.
LEMMA TakeLatestStep ==
  ASSUME IInv, TakeLatest
  PROVE  IInv' /\ Done' = Done
<1>1. /\ pc = "drain" /\ pc' = "latest" /\ n' = 0 /\ rbuf = <<>>
      /\ UNCHANGED <<rbuf, startbuffer, emitted, buf, latest, heap, wire, tcp, whole>>
      /\ RingInv'
  BY RingStays, RbufIs DEF mode, TakeLatest, IInv
<1>2. HeldBack /\ InOnePlace /\ Numbered
  BY <1>1 DEF IInv, Ledger
<1>3. /\ Taken = 0 /\ Pending = 1 /\ Taken' = 0 /\ Pending' = 1 /\ Done' = Done
  BY <1>1 DEF Taken, Pending, Done
<1>4. TypeOK'
  BY <1>1 DEF IInv, TypeOK
<1>5. HeldBack'
  BY <1>1, <1>2, <1>3 DEF HeldBack
<1>6. InOnePlace'
  BY <1>1, <1>2, <1>3 DEF InOnePlace
<1>7. QED
  BY <1>1, <1>2, <1>3, <1>4, <1>5, <1>6 DEF IInv, Ledger, Numbered

\* What is offered to write() is an output: the first one that is not done.
LEMMA SendingIs ==
  ASSUME IInv, pc \in {"copy", "latest"}
  PROVE  /\ Done + 1 \in 1 .. Len(emitted)
         /\ Sending = emitted[Done + 1]
         /\ Sending \in Output
<1>1. HeldBack /\ InOnePlace
  BY DEF IInv, Ledger
<1>2. /\ emitted \in Seq(Output) /\ Len(emitted) \in Nat
      /\ rbuf \in Seq(Output) /\ Len(rbuf) \in Nat
  BY LenProperties DEF IInv, TypeOK
<1>3. CASE pc = "copy"
  <2>1. Done = Len(emitted) - Len(rbuf) - 2 /\ Done \in Nat
    BY <1>1, <1>2, <1>3 DEF Taken, Pending, Done, InOnePlace
  <2>2. Done + 1 \in 1 .. Len(emitted)
    BY <2>1, <1>2
  <2>3. Sending = emitted[Done + 1]
    BY <1>1, <1>3 DEF InOnePlace, Sending
  <2>4. QED
    BY <1>2, <2>2, <2>3, ElementOfSeq
<1>4. CASE pc = "latest"
  <2>1. Len(rbuf) = 0
    BY <1>1, <1>2, <1>4, EmptyIs DEF HeldBack
  <2>2. Done = Len(emitted) - 1 /\ Done \in Nat /\ Pending = 1
    BY <2>1, <1>1, <1>2, <1>4 DEF Taken, Pending, Done, InOnePlace
  <2>3. Done + 1 \in 1 .. Len(emitted) /\ Done + 1 = Len(emitted)
    BY <2>2, <1>2
  <2>4. Sending = emitted[Done + 1]
    BY <1>1, <1>4, <2>2, <2>3 DEF InOnePlace, Sending
  <2>5. QED
    BY <1>2, <2>3, <2>4, ElementOfSeq
<1>5. QED
  BY <1>3, <1>4

\* What has been sent is freed and is in the ledger as sent.
LEMMA SentStep ==
  ASSUME IInv, pc \in {"copy", "latest"}, Sent,
         UNCHANGED <<rbuf, startbuffer, emitted, buf, latest>>
  PROVE  Ledger' /\ heap' \subseteq heap /\ Done' = Done + 1
<1> USE RingAssumption, OutputAssumption
<1>1. HeldBack /\ InOnePlace /\ Numbered
  BY DEF IInv, Ledger
<1>2. /\ Len(emitted) \in Nat
      /\ rbuf \in Seq(Output) /\ Len(rbuf) \in Nat
      /\ rbuf = <<>> <=> Len(rbuf) = 0
  BY LenProperties, EmptyIs DEF IInv, TypeOK
<1>3. Numbered'
  BY <1>1 DEF Numbered
<1>4. CASE pc = "copy"
  <2>1. /\ pc' = "drain" /\ heap' = heap \ {buf.id}
    BY <1>4 DEF Sent
  <2>2. /\ Taken = 1 /\ Pending = 1 /\ Taken' = 0 /\ Pending' = 1
        /\ Done' = Done + 1 /\ Done \in Nat
        /\ Done = Len(emitted) - Len(rbuf) - 2
    BY <1>1, <1>2, <1>4, <2>1 DEF Taken, Pending, Done, InOnePlace
  <2>3. HeldBack'
    BY <1>1, <1>4, <2>1, <2>2 DEF HeldBack
  <2>4. \A i \in 1 .. Len(rbuf) : rbuf[i] = emitted[Done' + Taken' + i]
    <3>1. Done' + Taken' = Done + Taken
      BY <2>2
    <3>2. QED
      BY <1>1, <3>1 DEF InOnePlace
  <2>5. heap' = Done' + 1 .. Done' + Taken' + Len(rbuf)
    <3>1. buf.id = Done + 1
      BY <1>1, <1>2, <1>4, <2>2 DEF InOnePlace, Numbered
    <3>2. heap = Done + 1 .. Done + 1 + Len(rbuf)
      BY <1>1, <2>2 DEF InOnePlace
    <3>3. heap' = Done + 2 .. Done + 1 + Len(rbuf)
      BY <3>1, <3>2, <2>1, <2>2, <1>2
    <3>4. Done' + 1 = Done + 2 /\ Done' + Taken' + Len(rbuf) = Done + 1 + Len(rbuf)
      BY <2>2, <1>2
    <3>5. QED
      BY <3>3, <3>4
  <2>6. InOnePlace'
    BY <1>1, <2>1, <2>2, <2>4, <2>5 DEF InOnePlace
  <2>7. QED
    BY <1>3, <2>1, <2>2, <2>3, <2>6 DEF Ledger
<1>5. CASE pc = "latest"
  <2>1. pc' = "idle" /\ heap' = heap /\ Len(rbuf) = 0 /\ rbuf = <<>>
    BY <1>1, <1>2, <1>5 DEF Sent, HeldBack
  <2>2. /\ Taken = 0 /\ Pending = 1 /\ Taken' = 0 /\ Pending' = 0
        /\ Done' = Done + 1 /\ Done \in Nat
    BY <1>1, <1>2, <1>5, <2>1 DEF Taken, Pending, Done, InOnePlace
  <2>3. HeldBack'
    BY <1>1, <1>2, <2>1, <2>2 DEF HeldBack
  <2>4. heap = {}
    BY <1>1, <2>1, <2>2 DEF InOnePlace
  <2>5. Done' + 1 .. Done' + Taken' + Len(rbuf') = {}
    BY <2>1, <2>2
  <2>6. \A i \in 1 .. Len(rbuf') : rbuf'[i] = emitted'[Done' + Taken' + i]
    BY <2>1
  <2>7. InOnePlace'
    BY <2>1, <2>2, <2>4, <2>5, <2>6 DEF InOnePlace
  <2>8. QED
    BY <1>3, <2>1, <2>2, <2>3, <2>7 DEF Ledger
<1>6. QED
  BY <1>4, <1>5

\* Whatever write() accepts, the ledger holds.
LEMMA WriteStep ==
  ASSUME IInv, NEW r, Write(r)
  PROVE  IInv'
<1> USE OutputAssumption
<1>1. /\ pc \in {"copy", "latest"} /\ n' = n + r
      /\ r \in (IF tcp THEN 1 ELSE 0) .. Sending.size
      /\ UNCHANGED <<rbuf, startbuffer, emitted, buf, latest, tcp, whole>>
      /\ wire' = IF r = 0 THEN wire
                          ELSE Append(wire, [id |-> Sending.id, size |-> r])
      /\ RingInv'
  BY RingStays DEF mode, Write, IInv
<1>2. Sending \in Output /\ r \in Nat
  BY <1>1, SendingIs DEF Output
<1>3. [id |-> Sending.id, size |-> r] \in Piece
  BY <1>2 DEF Output, Piece
<1>4. wire' \in Seq(Piece)
  BY <1>1, <1>3, AppendFacts DEF IInv, TypeOK
<1>5. CASE UNCHANGED <<heap, pc>>
  <2>1. Taken' = Taken /\ Pending' = Pending /\ Done' = Done
    BY <1>1, <1>5 DEF Taken, Pending, Done
  <2>2. TypeOK'
    BY <1>1, <1>2, <1>4, <1>5 DEF IInv, TypeOK
  <2>3. Numbered' /\ HeldBack' /\ InOnePlace'
    BY <1>1, <1>5, <2>1 DEF IInv, Ledger, Numbered, HeldBack, InOnePlace
  <2>4. QED
    BY <1>1, <2>2, <2>3 DEF IInv, Ledger
<1>6. CASE Sent
  <2>1. Ledger' /\ heap' \subseteq heap
    BY <1>1, <1>6, SentStep
  <2>2. pc' \in {"drain", "idle"}
    BY <1>6 DEF Sent
  <2>3. TypeOK'
    BY <1>1, <1>2, <1>4, <2>1, <2>2 DEF IInv, TypeOK
  <2>4. QED
    BY <1>1, <2>1, <2>3 DEF IInv
<1>7. QED
  BY <1>5, <1>6 DEF mode, Write

\* The end of the stream and of the process move no copy.
LEMMA EndStep ==
  ASSUME IInv, EndOfStream \/ Kill
  PROVE  IInv'
<1>1. /\ UNCHANGED <<rbuf, startbuffer, emitted, buf, latest, n, heap, wire, tcp, whole>>
      /\ RingInv'
  BY RingStays DEF mode, EndOfStream, Kill, IInv
<1>2. TypeOK' /\ Numbered'
  BY <1>1 DEF mode, IInv, TypeOK, Ledger, Numbered, EndOfStream, Kill
<1>3. CASE Kill
  BY <1>1, <1>2, <1>3 DEF Kill, IInv, Ledger
<1>4. CASE EndOfStream
  <2>1. pc = "idle" /\ pc' = "closed"
    BY <1>4 DEF mode, EndOfStream
  <2>2. Taken' = Taken /\ Pending' = Pending /\ Done' = Done
    BY <1>1, <2>1 DEF Taken, Pending, Done
  <2>3. HeldBack' /\ InOnePlace'
    BY <1>1, <2>1, <2>2 DEF IInv, Ledger, HeldBack, InOnePlace
  <2>4. QED
    BY <1>1, <1>2, <2>3 DEF IInv, Ledger
<1>5. QED
  BY <1>3, <1>4

\* Every step keeps the ledger.
LEMMA NextStep == IInv /\ [Next]_vars => IInv'
<1> SUFFICES ASSUME IInv, [Next]_vars PROVE IInv'
  OBVIOUS
<1>1. CASE \E output \in AnOutput : BufferOutput(output) \/ StartDraining(output)
  BY <1>1, BufferOutputStep, StartDrainingStep
<1>2. CASE TakeBuffered
  BY <1>2, TakeBufferedStep
<1>3. CASE TakeLatest
  BY <1>3, TakeLatestStep
<1>4. CASE \E r \in 0 .. Sending.size : Write(r)
  BY <1>4, WriteStep
<1>5. CASE EndOfStream \/ Kill
  BY <1>5, EndStep
<1>6. CASE UNCHANGED vars
  <2>1. UNCHANGED <<rbuf, buf>> /\ RingInv'
    BY <1>6, RingStays DEF vars, IInv
  <2>2. QED
    BY <1>6, <2>1 DEF vars, IInv, TypeOK, Ledger, Numbered, HeldBack, InOnePlace,
                      Taken, Pending, Done
<1>7. QED
  BY <1>1, <1>2, <1>3, <1>4, <1>5, <1>6 DEF Next

-----------------------------------------------------------------------------
\* The invariant holds of every execution.
LEMMA IInvHolds == Spec => []IInv
<1>1. Init => IInv
  BY InitIInv
<1>2. IInv /\ [Next]_vars => IInv'
  BY NextStep
<1>3. QED
  BY <1>1, <1>2, PTL DEF Spec

(* The types, and the ledger: for every ring that holds StartBuffer        *)
(* outputs, and however write() splits what it is offered.                 *)
THEOREM LedgerHolds == Spec => [](TypeOK /\ Ledger)
<1>1. IInv => TypeOK /\ Ledger
  BY DEF IInv
<1>2. QED
  BY <1>1, IInvHolds, PTL

\* With the ledger in order no copy is leaked or freed twice.
LEMMA LedgerOwns == IInv => CopiesOwned
<1> SUFFICES ASSUME IInv, pc # "killed"
             PROVE  /\ heap = {rbuf[i].id : i \in 1 .. Len(rbuf)} \cup
                              (IF pc = "copy" THEN {buf.id} ELSE {})
                    /\ {rbuf[i].id : i \in 1 .. Len(rbuf)} \cap
                              (IF pc = "copy" THEN {buf.id} ELSE {}) = {}
                    /\ \A i, j \in 1 .. Len(rbuf) :
                         rbuf[i].id = rbuf[j].id => i = j
  BY DEF CopiesOwned
<1>1. HeldBack /\ InOnePlace /\ Numbered
  BY DEF IInv, Ledger
<1>2. Len(emitted) \in Nat /\ Len(rbuf) \in Nat
  BY LenProperties DEF IInv, TypeOK
<1>3. /\ Done \in Nat /\ Taken \in 0 .. 1 /\ Pending \in 0 .. 1
      /\ Done + Taken + Len(rbuf) + Pending = Len(emitted)
  BY <1>1, <1>2 DEF InOnePlace, Taken, Pending, Done
<1>4. \A i \in 1 .. Len(rbuf) : rbuf[i].id = Done + Taken + i
  <2> TAKE i \in 1 .. Len(rbuf)
  <2>1. Done + Taken + i \in 1 .. Len(emitted)
    BY <1>2, <1>3
  <2>2. QED
    BY <2>1, <1>1 DEF InOnePlace, Numbered
<1>5. {rbuf[i].id : i \in 1 .. Len(rbuf)} = Done + Taken + 1 .. Done + Taken + Len(rbuf)
  <2>1. ASSUME NEW k \in Done + Taken + 1 .. Done + Taken + Len(rbuf)
        PROVE  \E i \in 1 .. Len(rbuf) : rbuf[i].id = k
    <3>1. k - Done - Taken \in 1 .. Len(rbuf)
      BY <1>2, <1>3
    <3>2. rbuf[k - Done - Taken].id = k
      BY <3>1, <1>2, <1>3, <1>4
    <3>3. QED
      BY <3>1, <3>2
  <2>2. \A i \in 1 .. Len(rbuf) :
          rbuf[i].id \in Done + Taken + 1 .. Done + Taken + Len(rbuf)
    BY <1>2, <1>3, <1>4
  <2>3. QED
    BY <2>1, <2>2
<1>6. pc = "copy" => buf.id = Done + 1 /\ Taken = 1
  <2> HAVE pc = "copy"
  <2>1. Taken = 1 /\ Done + 1 \in 1 .. Len(emitted)
    BY <1>2, <1>3 DEF Taken
  <2>2. QED
    BY <2>1, <1>1 DEF InOnePlace, Numbered
<1>7. pc # "copy" => Taken = 0
  BY DEF Taken
<1>8. heap = Done + 1 .. Done + Taken + Len(rbuf)
  BY <1>1 DEF InOnePlace
<1>9. \A i, j \in 1 .. Len(rbuf) : rbuf[i].id = rbuf[j].id => i = j
  BY <1>2, <1>3, <1>4
<1> DEFINE held == {rbuf[i].id : i \in 1 .. Len(rbuf)}
           first == Done + Taken + 1
           last == Done + Taken + Len(rbuf)
<1>10. held = first .. last
  BY <1>5
<1>11. CASE pc = "copy"
  <2>1. heap = first - 1 .. last /\ buf.id = first - 1
    BY <1>3, <1>6, <1>8, <1>11
  <2>2. first \in Int /\ last \in Int /\ first - 1 <= last
    BY <1>2, <1>3
  <2> HIDE DEF held, first, last
  <2>3. heap = held \cup {buf.id} /\ held \cap {buf.id} = {}
    BY <1>10, <2>1, <2>2
  <2> QED BY <1>9, <1>11, <2>3 DEF held
<1>12. CASE pc # "copy"
  <2>1. heap = held
    BY <1>3, <1>7, <1>8, <1>10, <1>12
  <2> QED BY <1>9, <1>12, <2>1
<1>13. QED
  BY <1>11, <1>12

(* No copy that muxOutput() made is lost, freed twice or used after free,  *)
(* for every ring that holds StartBuffer outputs and every reader.         *)
THEOREM Ownership == Spec => []CopiesOwned
<1>1. IInv => CopiesOwned
  BY LedgerOwns
<1>2. QED
  BY <1>1, IInvHolds, PTL

-----------------------------------------------------------------------------
(* The order on the wire, for every reader.                                *)

OInv == IInv /\ InOrder /\ WireFollows

\* The last piece of the wire, and one more.
LEMMA WireEndIs ==
  ASSUME IInv
  PROVE  /\ wire \in Seq(Piece) /\ Len(wire) \in Nat /\ MaxOutputs \in Nat
         /\ wire = <<>> <=> Len(wire) = 0
         /\ wire = <<>> => WireEnd = 0
         /\ wire # <<>> => WireEnd = wire[Len(wire)].id
         /\ WireEnd \in 0 .. MaxOutputs
         /\ \A i \in 1 .. Len(wire) : wire[i].id \in 1 .. MaxOutputs
<1>1. /\ wire \in Seq(Piece) /\ Len(wire) \in Nat
      /\ wire = <<>> <=> Len(wire) = 0
  BY EmptyIs DEF IInv, TypeOK
<1>2. \A i \in 1 .. Len(wire) : wire[i].id \in 1 .. MaxOutputs
  <2> SUFFICES ASSUME NEW i \in 1 .. Len(wire) PROVE wire[i].id \in 1 .. MaxOutputs
    OBVIOUS
  <2>1. wire[i] \in Piece
    BY <1>1, ElementOfSeq
  <2>2. QED
    BY <2>1 DEF Piece
<1>3. MaxOutputs \in Nat
  BY OutputAssumption
<1>4. wire = <<>> => WireEnd = 0
  BY DEF WireEnd
<1>5. wire # <<>> => WireEnd = wire[Len(wire)].id /\ Len(wire) \in 1 .. Len(wire)
  BY <1>1 DEF WireEnd
<1>6. WireEnd \in 0 .. MaxOutputs
  BY <1>2, <1>3, <1>4, <1>5
<1>7. QED
  BY <1>1, <1>2, <1>3, <1>4, <1>5, <1>6

\* A piece is of the output that is sent, which is the next one or a later
\* piece of the one before.
LEMMA WriteOrderStep ==
  ASSUME OInv, NEW r, Write(r)
  PROVE  InOrder' /\ WireFollows'
<1>1. /\ pc \in {"copy", "latest"} /\ IInv /\ IInv'
      /\ UNCHANGED <<rbuf, startbuffer, emitted, buf, latest, tcp, whole>>
      /\ r \in (IF tcp THEN 1 ELSE 0) .. Sending.size
      /\ wire' = IF r = 0 THEN wire
                          ELSE Append(wire, [id |-> Sending.id, size |-> r])
  BY WriteStep, RingStays DEF OInv, Write, mode
<1>2. /\ Done + 1 \in 1 .. Len(emitted)
      /\ Sending = emitted[Done + 1]
      /\ Sending \in Output
  BY <1>1, SendingIs
<1>3. Numbered /\ Len(emitted) \in Nat /\ Done \in Nat /\ MaxOutputs \in Nat
  BY <1>1, <1>2, OutputAssumption, LenProperties
  DEF IInv, TypeOK, Ledger, InOnePlace
<1>4. Sending.id = Done + 1 /\ Done + 1 \in 1 .. MaxOutputs
  BY <1>2, <1>3 DEF Numbered
<1>5. IF tcp THEN WireEnd \in {Done, Done + 1} ELSE WireEnd <= Done
  BY <1>1 DEF OInv, WireFollows
<1>6. r \in Nat /\ (tcp => r # 0)
  BY <1>1, <1>2, OutputAssumption DEF Output
<1>7. IF r = 0 THEN wire' = wire
      ELSE /\ Len(wire') = Len(wire) + 1
           /\ \A i \in 1 .. Len(wire) : wire'[i] = wire[i]
           /\ wire'[Len(wire) + 1].id = Done + 1
  <2>1. [id |-> Sending.id, size |-> r] \in Piece
    BY <1>4, <1>6 DEF Piece
  <2>2. QED
    BY <1>1, <1>4, <2>1, AppendFacts DEF IInv, TypeOK
<1>8. WireEnd' = IF r = 0 THEN WireEnd ELSE Done + 1
  <2>1. CASE r = 0
    BY <1>7, <2>1 DEF WireEnd
  <2>2. CASE r # 0
    <3>1. Len(wire') = Len(wire) + 1 /\ wire'[Len(wire) + 1].id = Done + 1
      BY <1>7, <2>2
    <3>2. wire' # <<>>
      <4>1. Len(wire) \in Nat /\ Len(<<>>) = 0
        BY <1>1, WireEndIs, EmptySeq
      <4>2. QED
        BY <3>1, <4>1
    <3>3. QED
      BY <3>1, <3>2, <2>2 DEF WireEnd
  <2>3. QED
    BY <2>1, <2>2
<1>9. InOrder'
  <2>1. CASE r = 0
    BY <1>1, <1>7, <2>1 DEF OInv, InOrder
  <2>2. CASE r # 0
    <3> SUFFICES ASSUME NEW i \in 2 .. Len(wire')
                 PROVE  wire'[i].id \in IF tcp THEN {wire'[i - 1].id, wire'[i - 1].id + 1}
                                               ELSE wire'[i - 1].id + 1 .. MaxOutputs
      BY <1>1 DEF InOrder
    <3>1. /\ Len(wire) \in Nat
          /\ wire = <<>> <=> Len(wire) = 0
          /\ wire # <<>> => WireEnd = wire[Len(wire)].id
          /\ WireEnd \in 0 .. MaxOutputs
      BY <1>1, WireEndIs
    <3>2. CASE i \in 2 .. Len(wire)
      <4>1. /\ wire'[i] = wire[i] /\ wire'[i - 1] = wire[i - 1]
        BY <3>1, <3>2, <2>2, <1>7
      <4>2. wire[i].id \in IF tcp THEN {wire[i - 1].id, wire[i - 1].id + 1}
                                  ELSE wire[i - 1].id + 1 .. MaxOutputs
        BY <3>2 DEF OInv, InOrder
      <4>3. QED
        BY <4>1, <4>2
    <3>3. CASE i = Len(wire) + 1
      <4>1. wire'[i - 1].id = WireEnd /\ wire'[i].id = Done + 1
        BY <3>1, <3>3, <2>2, <1>7
      <4>2. QED
        BY <4>1, <3>1, <1>3, <1>4, <1>5
    <3>4. QED
      BY <3>1, <3>2, <3>3, <2>2, <1>7
  <2>3. QED
    BY <2>1, <2>2
<1>10. CASE UNCHANGED <<heap, pc>> /\ tcp
  <2>1. Done' = Done
    BY <1>1, <1>10 DEF Done, Taken, Pending
  <2>2. QED
    BY <2>1, <1>1, <1>6, <1>8, <1>9, <1>10 DEF WireFollows
<1>11. CASE Sent
  <2>1. Done' = Done + 1
    BY <1>1, <1>11, SentStep
  <2>2. WireEnd \in 0 .. MaxOutputs
    BY <1>1, WireEndIs
  <2>3. QED
    BY <2>1, <2>2, <1>1, <1>3, <1>5, <1>6, <1>8, <1>9 DEF WireFollows
<1>12. QED
  BY <1>10, <1>11 DEF Write

\* The other steps put nothing on the wire.
LEMMA QuietOrderStep ==
  ASSUME OInv, \/ \E output \in AnOutput : BufferOutput(output) \/ StartDraining(output)
               \/ TakeBuffered \/ TakeLatest \/ EndOfStream \/ Kill \/ UNCHANGED vars
  PROVE  InOrder' /\ WireFollows'
<1>1. UNCHANGED <<wire, tcp>>
  BY DEF BufferOutput, StartDraining, TakeBuffered, TakeLatest, EndOfStream, Kill,
         vars, mode
<1>2. InOrder' /\ WireEnd' = WireEnd
  BY <1>1 DEF OInv, InOrder, WireEnd
<1>3. pc' # "killed" =>
        /\ Done' = Done /\ pc # "killed"
        /\ pc \notin {"copy", "latest"} \/ pc' = pc
  <2>1. CASE \E output \in AnOutput : BufferOutput(output) \/ StartDraining(output)
    BY <2>1, BufferOutputStep, StartDrainingStep
    DEF OInv, BufferOutput, StartDraining, Emit
  <2>2. CASE TakeBuffered \/ TakeLatest
    BY <2>2, TakeBufferedStep, TakeLatestStep DEF OInv, TakeBuffered, TakeLatest
  <2>3. CASE EndOfStream \/ Kill \/ UNCHANGED vars
    BY <2>3, RingStays DEF EndOfStream, Kill, vars, Taken, Pending, Done
  <2>4. QED
    BY <2>1, <2>2, <2>3
<1>4. QED
  BY <1>1, <1>2, <1>3 DEF OInv, WireFollows

(* Outputs reach the reader in the order in which the multiplexer made     *)
(* them, whatever parts of them write() accepts.                           *)
THEOREM Order == Spec => []InOrder
<1>1. Init => OInv
  <2> SUFFICES ASSUME Init PROVE InOrder /\ WireFollows
    BY InitIInv DEF OInv
  <2>1. Len(wire) = 0 /\ Len(emitted) = 0 /\ Len(rbuf) = 0 /\ WireEnd = 0
    BY InitRbuf, EmptySeq DEF Init, WireEnd
  <2>2. Done = 0
    <3>1. Taken = 0 /\ Pending = 0
      BY DEF Init, Taken, Pending
    <3>2. QED
      BY <2>1, <3>1 DEF Done
  <2>3. QED
    BY <2>1, <2>2 DEF Init, InOrder, WireFollows
<1>2. OInv /\ [Next]_vars => OInv'
  <2> SUFFICES ASSUME OInv, [Next]_vars PROVE InOrder' /\ WireFollows'
    BY NextStep DEF OInv
  <2>1. CASE \E r \in 0 .. Sending.size : Write(r)
    BY <2>1, WriteOrderStep
  <2>2. CASE ~ \E r \in 0 .. Sending.size : Write(r)
    BY <2>2, QuietOrderStep DEF Next
  <2>3. QED
    BY <2>1, <2>2
<1>3. OInv => InOrder
  BY DEF OInv
<1>4. QED
  BY <1>1, <1>2, <1>3, PTL DEF Spec

-----------------------------------------------------------------------------
(* The channel, when write() accepts all of what it is offered.            *)

WInv == IInv /\ (whole => WireLedger)

\* What is on the wire, in terms of the ledger.
LEMMA WireIs ==
  ASSUME WInv, whole
  PROVE  /\ wire \in Seq(Piece) /\ Len(wire) \in Nat
         /\ emitted \in Seq(Output) /\ Len(emitted) \in Nat
         /\ Len(wire) <= Len(emitted)
         /\ \A i \in 1 .. Len(wire) : wire[i] = emitted[i]
         /\ pc # "killed" => Len(wire) = Done
BY LenProperties DEF WInv, IInv, TypeOK, WireLedger

\* The strengthened invariant for whole writes holds at the start.
LEMMA InitWInv == Init => WInv
<1> SUFFICES ASSUME Init PROVE WInv
  OBVIOUS
<1>1. Len(wire) = 0 /\ Len(emitted) = 0 /\ Len(rbuf) = 0
  BY InitRbuf, EmptySeq DEF Init
<1>2. Taken = 0 /\ Pending = 0
  BY DEF Init, Taken, Pending
<1>3. WireLedger
  BY <1>1, <1>2 DEF WireLedger, Done
<1>4. QED
  BY <1>3, InitIInv DEF WInv

\* A callback is a Send of the channel.
LEMMA EmitChannelStep ==
  ASSUME WInv, whole, NEW output \in AnOutput,
         BufferOutput(output) \/ StartDraining(output)
  PROVE  WireLedger' /\ Channel!Send(output) /\ output \in Output /\ whole'
<1>1. /\ Emit(output) /\ wire' = wire /\ IInv /\ Done' = Done
      /\ pc' # "killed" /\ pc # "killed" /\ whole'
  BY BufferOutputStep, StartDrainingStep
  DEF mode, WInv, BufferOutput, StartDraining, Emit
<1>2. /\ Len(emitted') = Len(emitted) + 1
      /\ \A i \in 1 .. Len(emitted) : emitted'[i] = emitted[i]
      /\ output \in Output
  BY <1>1, EmitStep
<1>3. /\ Len(wire) \in Nat /\ Len(emitted) \in Nat
      /\ Len(wire) <= Len(emitted) /\ Len(wire) = Done
      /\ \A i \in 1 .. Len(wire) : wire[i] = emitted[i]
  BY <1>1, WireIs
<1>4. WireLedger'
  BY <1>1, <1>2, <1>3 DEF WireLedger
<1>5. QED
  BY <1>1, <1>2, <1>4 DEF Channel!Send, Emit

\* A whole write() is a Receive of the channel.
LEMMA WriteChannelStep ==
  ASSUME WInv, whole, NEW r, Write(r)
  PROVE  WireLedger' /\ Channel!Receive /\ whole'
<1> USE OutputAssumption
<1>1. /\ pc \in {"copy", "latest"} /\ IInv
      /\ UNCHANGED <<rbuf, startbuffer, emitted, buf, latest>> /\ whole'
      /\ r = Sending.size /\ n' = n + r
      /\ wire' = IF r = 0 THEN wire
                          ELSE Append(wire, [id |-> Sending.id, size |-> r])
  BY RingStays DEF mode, WInv, Write
<1>2. /\ Done + 1 \in 1 .. Len(emitted)
      /\ Sending = emitted[Done + 1]
      /\ Sending \in Output
  BY <1>1, SendingIs
<1>3. /\ r \in Nat \ {0}
      /\ [id |-> Sending.id, size |-> r] = Sending
      /\ Sending \in Piece
  BY <1>1, <1>2 DEF Output, Piece
<1>4. wire' = Append(wire, emitted[Done + 1])
  BY <1>1, <1>2, <1>3
<1>5. /\ wire \in Seq(Piece) /\ Len(wire) \in Nat /\ Len(emitted) \in Nat
      /\ Len(wire) = Done
      /\ \A i \in 1 .. Len(wire) : wire[i] = emitted[i]
  BY <1>1, WireIs
<1>6. /\ Len(wire') = Len(wire) + 1
      /\ \A i \in 1 .. Len(wire) : wire'[i] = wire[i]
      /\ wire'[Len(wire) + 1] = emitted[Done + 1]
  BY <1>2, <1>3, <1>4, <1>5, AppendFacts
\* All bytes are counted at once: sendpacket() returns.
<1>7. Sent
  <2>1. n \in Nat
    BY <1>1 DEF IInv, TypeOK
  <2>2. ~(n' < Sending.size)
    BY <2>1, <1>1, <1>3
  <2>3. QED
    BY <2>2 DEF Write
<1>8. Done' = Done + 1
  BY <1>1, <1>7, SentStep
<1>9. \A i \in 1 .. Len(wire') : wire'[i] = emitted'[i]
  <2> SUFFICES ASSUME NEW i \in 1 .. Len(wire')
               PROVE  wire'[i] = emitted[i]
    BY <1>1
  <2>1. CASE i = Len(wire) + 1
    BY <2>1, <1>5, <1>6
  <2>2. CASE i \in 1 .. Len(wire)
    BY <2>2, <1>5, <1>6
  <2>3. QED
    BY <2>1, <2>2, <1>5, <1>6
<1>10. WireLedger'
  <2>1. Len(wire') = Done' /\ Len(wire') <= Len(emitted')
    BY <1>1, <1>2, <1>5, <1>6, <1>8
  <2>2. QED
    BY <1>9, <2>1 DEF WireLedger
<1>11. Channel!Receive
  <2>1. Len(wire) < Len(emitted) /\ wire' = Append(wire, emitted[Len(wire) + 1])
    BY <1>2, <1>4, <1>5
  <2>2. QED
    BY <1>1, <2>1 DEF Channel!Receive
<1>12. QED
  BY <1>1, <1>10, <1>11

\* Every other step leaves the channel as it is.
LEMMA StutterChannelStep ==
  ASSUME WInv, whole,
         TakeBuffered \/ TakeLatest \/ EndOfStream \/ Kill \/ UNCHANGED vars
  PROVE  WireLedger' /\ UNCHANGED <<emitted, wire, whole>>
<1>1. UNCHANGED <<emitted, wire, whole>>
  BY DEF mode, TakeBuffered, TakeLatest, EndOfStream, Kill, vars
<1>2. pc' # "killed" => pc # "killed" /\ Done' = Done
  <2>1. CASE TakeBuffered \/ TakeLatest
    BY <2>1, TakeBufferedStep, TakeLatestStep
    DEF WInv, TakeBuffered, TakeLatest
  <2>2. CASE EndOfStream \/ Kill \/ UNCHANGED vars
    BY <2>2, RingStays DEF EndOfStream, Kill, vars, Taken, Pending, Done
  <2>3. QED
    BY <2>1, <2>2
<1>3. QED
  BY <1>1, <1>2 DEF WInv, WireLedger

\* Nothing in a step changes the reader.
LEMMA SameReader == [Next]_vars => whole' = whole /\ tcp' = tcp
BY DEF Next, vars, mode, BufferOutput, StartDraining, TakeBuffered, TakeLatest,
       Write, EndOfStream, Kill

\* Every step keeps the invariant and is a step of the channel.
LEMMA WNextStep == WInv /\ [Next]_vars => WInv' /\ [Channel!Next]_(Channel!vars)
<1> SUFFICES ASSUME WInv, [Next]_vars
             PROVE  WInv' /\ [Channel!Next]_(Channel!vars)
  OBVIOUS
<1>1. IInv' /\ whole' = whole
  BY NextStep, SameReader DEF WInv
<1>2. CASE ~whole
  BY <1>1, <1>2 DEF WInv, Channel!vars
<1>3. CASE whole
  <2> SUFFICES WireLedger' /\ [Channel!Next]_(Channel!vars)
    BY <1>1 DEF WInv
  <2>1. CASE \E output \in AnOutput : BufferOutput(output) \/ StartDraining(output)
    BY <1>3, <2>1, EmitChannelStep DEF Channel!Next
  <2>2. CASE \E r \in 0 .. Sending.size : Write(r)
    BY <1>3, <2>2, WriteChannelStep DEF Channel!Next
  <2>3. CASE TakeBuffered \/ TakeLatest \/ EndOfStream \/ Kill \/ UNCHANGED vars
    BY <1>3, <2>3, StutterChannelStep DEF Channel!vars
  <2>4. QED
    BY <2>1, <2>2, <2>3 DEF Next
<1>4. QED
  BY <1>2, <1>3

\* The strengthened invariant holds of every execution.
LEMMA WInvHolds == Spec => []WInv
<1>1. Init => WInv
  BY InitWInv
<1>2. WInv /\ [Next]_vars => WInv'
  BY WNextStep
<1>3. QED
  BY <1>1, <1>2, PTL DEF Spec

(* muxOutput(), its ring and sendpacket() are an ordered channel without   *)
(* loss or repetition, for every ring that holds StartBuffer outputs, if   *)
(* write() accepts what it is offered.                                     *)
THEOREM Refinement == Spec => IsOrderedChannel
<1>1. WInv /\ [Next]_vars => [Channel!Next]_(Channel!vars)
  BY WNextStep
<1>2. Init => Channel!Init
  BY DEF Init, Channel!Init
<1>3. QED
  BY <1>1, <1>2, WInvHolds, PTL DEF Spec, IsOrderedChannel, Channel!Spec

\* The invariant implies that nothing is held back.
LEMMA CatchUp == WInv => CaughtUp
<1> SUFFICES ASSUME WInv, pc = "idle", Len(emitted) > StartBuffer
             PROVE  rbuf = <<>> /\ (whole => OnTheWire = 1 .. Len(emitted))
  BY DEF CaughtUp
<1> USE RingAssumption
<1>1. HeldBack /\ InOnePlace /\ Numbered
  BY DEF WInv, IInv, Ledger
<1>2. Len(emitted) \in Nat
  BY LenProperties DEF WInv, IInv, TypeOK
<1>3. /\ Len(rbuf) \in Nat /\ startbuffer \in Nat
      /\ rbuf = <<>> <=> Len(rbuf) = 0
  BY EmptyIs DEF WInv, IInv, TypeOK
<1>4. Taken = 0 /\ Pending = 0
  BY DEF Taken, Pending
<1>5. rbuf = <<>>
  BY <1>1, <1>2, <1>3, <1>4 DEF HeldBack, Done
<1>6. ASSUME whole PROVE OnTheWire = 1 .. Len(emitted)
  <2>1. /\ Len(wire) \in Nat /\ Len(wire) = Done
        /\ \A i \in 1 .. Len(wire) : wire[i] = emitted[i]
    BY <1>6, WireIs
  <2>2. Len(wire) = Len(emitted)
    BY <2>1, <1>2, <1>3, <1>4, <1>5 DEF Done
  <2>3. \A i \in 1 .. Len(wire) : wire[i].id = i
    BY <1>1, <2>1, <2>2 DEF Numbered
  <2>4. QED
    BY <2>2, <2>3 DEF OnTheWire
<1>7. QED
  BY <1>5, <1>6

(* After the first StartBuffer outputs a callback that returns has emptied *)
(* the ring and, if write() accepts whole outputs, sent every output.      *)
THEOREM NoneHeldBack == Spec => []CaughtUp
<1>1. WInv => CaughtUp
  BY CatchUp
<1>2. QED
  BY <1>1, WInvHolds, PTL

-----------------------------------------------------------------------------
(* The path as a user of its ring.                                         *)

\* Every step of the path is an operation of the ring or leaves it alone.
LEMMA RingOperationStep == IInv /\ [Next]_vars => [RingNext]_ringVars
<1> SUFFICES ASSUME IInv, [Next]_vars PROVE [RingNext]_ringVars
  OBVIOUS
<1>1. CASE \E output \in AnOutput : BufferOutput(output)
  <2>1. PICK output \in AnOutput : BufferOutput(output)
    BY <1>1
  <2>2. output \in Item /\ Put(output)
    BY <2>1, EmitStep, RingAssumption DEF BufferOutput
  <2>3. QED
    BY <2>2 DEF RingNext
<1>2. CASE TakeBuffered
  BY <1>2 DEF TakeBuffered, RingNext
<1>3. CASE \/ \E output \in AnOutput : StartDraining(output)
           \/ TakeLatest \/ EndOfStream \/ Kill \/ UNCHANGED vars
           \/ \E r \in 0 .. Sending.size : Write(r)
  BY <1>3 DEF StartDraining, TakeLatest, EndOfStream, Kill, Write, vars
<1>4. QED
  BY <1>1, <1>2, <1>3 DEF Next

(* muxOutput() uses rbuf by put() and get() only, so that what is proved   *)
(* of circular_buffer holds of the ring at work: it is a first-in-first-   *)
(* out queue of outputs for every number of slots.                         *)
THEOREM RbufIsQueue == Spec => IsBoundedQueue
<1>1. Init => RingInit
  BY DEF Init
<1>2. Spec => RingSpec
  BY <1>1, RingOperationStep, IInvHolds, PTL DEF Spec, RingSpec
<1>3. QED
  BY <1>2, RingRefinement, PTL

\* A ring that is full holds as many items as it has slots.
LEMMA RoomIs == IInv => pc = "killed" \/ RingSuffices
<1> SUFFICES ASSUME IInv, pc # "killed" PROVE RingSuffices
  OBVIOUS
<1>1. Size \in 0 .. TElemCount /\ (Size = TElemCount <=> full_)
  BY SizeIs DEF IInv
<1>2. startbuffer > 0 => Len(rbuf) + startbuffer = StartBuffer
  BY DEF IInv, Ledger, HeldBack
<1>3. Len(rbuf) = Size
  BY RbufIs DEF IInv
<1>4. startbuffer > 0 => ~full_
  BY <1>1, <1>2, <1>3, RingAssumption, SizeAssumption DEF IInv, TypeOK
<1>5. Size # 0 => ~Empty
  BY DEF Size, Empty, IInv, RingInv, RingTypeOK, Slot
<1>6. QED
  BY <1>4, <1>5 DEF RingSuffices

(* put() always finds a free slot and get() an item, for every ring that   *)
(* holds StartBuffer outputs.                                              *)
THEOREM RingIsEnough == Spec => []RingSuffices
<1>1. Init => RingSuffices
  BY SizeAssumption DEF Init, RingInit, RingSuffices, Size, Empty
<1>2. RingSuffices /\ [Next]_vars => (pc = "killed" => RingSuffices)'
  <2> SUFFICES ASSUME RingSuffices, [Next]_vars, pc' = "killed" PROVE RingSuffices'
    OBVIOUS
  <2>1. UNCHANGED <<ringVars, startbuffer>>
    BY DEF Next, BufferOutput, Emit, StartDraining, TakeBuffered, TakeLatest, Write,
           Sent, EndOfStream, Kill, vars
  <2>2. QED
    BY <2>1 DEF RingSuffices, ringVars, Size, Empty
<1>3. QED
  BY <1>1, <1>2, RoomIs, IInvHolds, PTL DEF Spec

-----------------------------------------------------------------------------
(* What an ordered channel promises.                                       *)

\* A step of the channel keeps what was received the beginning of what was
\* sent.
LEMMA DeliveredStep ==
  WInv /\ Channel!Delivered /\ [Channel!Next]_(Channel!vars) => Channel!Delivered'
<1> DEFINE sent == IF whole THEN emitted ELSE <<>>
           received == IF whole THEN wire ELSE <<>>
<1> SUFFICES ASSUME WInv, Channel!Delivered, [Channel!Next]_(Channel!vars)
             PROVE  Channel!Delivered'
  OBVIOUS
<1>1. sent \in Seq(Output) /\ received \in Seq(Piece)
  BY DEF WInv, IInv, TypeOK
<1>2. Len(received) <= Len(sent) /\ \A i \in 1 .. Len(received) : received[i] = sent[i]
  BY DEF Channel!Delivered
<1>3. CASE Channel!Receive
  <2>1. Len(received) < Len(sent) /\ sent' = sent
        /\ received' = Append(received, sent[Len(received) + 1])
    BY <1>3 DEF Channel!Receive
  <2> HIDE DEF sent, received
  <2>2. /\ Len(received') <= Len(sent')
        /\ \A i \in 1 .. Len(received') : received'[i] = sent'[i]
    BY <1>1, <1>2, <2>1
  <2>3. QED
    BY <2>2 DEF Channel!Delivered, sent, received
<1>4. CASE \E message \in Output : Channel!Send(message)
  <2>1. PICK message \in Output : sent' = Append(sent, message) /\ received' = received
    BY <1>4 DEF Channel!Send
  <2> HIDE DEF sent, received
  <2>2. /\ Len(received') <= Len(sent')
        /\ \A i \in 1 .. Len(received') : received'[i] = sent'[i]
    BY <1>1, <1>2, <2>1
  <2>3. QED
    BY <2>2 DEF Channel!Delivered, sent, received
<1>5. CASE UNCHANGED Channel!vars
  BY <1>5 DEF Channel!vars, Channel!Delivered
<1>6. QED
  BY <1>3, <1>4, <1>5 DEF Channel!Next

(* A reader that accepts whole outputs has at any moment, also when the    *)
(* process was killed, the beginning of what the multiplexer made.         *)
THEOREM ReaderHasPrefix == Spec => []Channel!Delivered
<1>1. Init => Channel!Delivered
  BY DEF Init, Channel!Delivered
<1>2. WInv /\ [Next]_vars => [Channel!Next]_(Channel!vars)
  BY WNextStep
<1>3. QED
  BY <1>1, <1>2, DeliveredStep, WInvHolds, PTL DEF Spec
=============================================================================
