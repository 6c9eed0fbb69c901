---------------------------- MODULE BoundedQueue ----------------------------
(***************************************************************************)
(* What a client of circular_buffer<T, TElemCount> may rely on: a FIFO of  *)
(* at most Capacity items that makes room for a new item by dropping its   *)
(* oldest one.  out is what the last get() returned.                       *)
(***************************************************************************)
EXTENDS Naturals, Sequences

CONSTANTS
  Capacity,  \* the template argument TElemCount
  Item,      \* the values that may be stored
  NoItem     \* std::nullopt

VARIABLES queue, out

vars == <<queue, out>>

Init ==
  /\ queue = <<>>
  /\ out = NoItem

Put(item) ==
  /\ queue' = IF Len(queue) = Capacity
              THEN Append(Tail(queue), item)
              ELSE Append(queue, item)
  /\ UNCHANGED out

Get ==
  /\ queue # <<>>
  /\ out' = queue[1]
  /\ queue' = Tail(queue)

GetNothing ==
  /\ queue = <<>>
  /\ out' = NoItem
  /\ UNCHANGED queue

Reset ==
  /\ queue' = <<>>
  /\ UNCHANGED out

Next ==
  \/ \E item \in Item : Put(item)
  \/ Get
  \/ GetNothing
  \/ Reset

Spec == Init /\ [][Next]_vars
=============================================================================
