---------------------------- MODULE ServedSession ----------------------------
(***************************************************************************)
(* What the rest of zattood may rely on: the EPG provider and its details  *)
(* thread are replaced as a whole, and only while the session is not       *)
(* connected.  The connection itself may be lost at any time.              *)
(***************************************************************************)
VARIABLES
  connected,  \* the session is connected
  provider,   \* there is a provider
  running,    \* its details thread is to go on
  thread      \* a details thread is there

vars == <<connected, provider, running, thread>>

Init == ~connected /\ ~provider /\ ~running /\ ~thread

\* A provider starts its thread, and no other is left.
Create ==
  /\ ~connected /\ ~provider /\ ~thread
  /\ provider' /\ running' /\ thread'
  /\ UNCHANGED connected

Connect ==
  /\ ~connected /\ provider /\ running
  /\ connected'
  /\ UNCHANGED <<provider, running, thread>>

Disconnect ==
  /\ connected
  /\ ~connected'
  /\ UNCHANGED <<provider, running, thread>>

\* A provider is to go: its thread is told, leaves, and is waited for.
Stop ==
  /\ ~connected /\ provider /\ running
  /\ ~running'
  /\ UNCHANGED <<connected, provider, thread>>

Leave ==
  /\ thread /\ ~running
  /\ ~thread'
  /\ UNCHANGED <<connected, provider, running>>

Retire ==
  /\ ~connected /\ provider /\ ~running /\ ~thread
  /\ ~provider'
  /\ UNCHANGED <<connected, running, thread>>

Next == Create \/ Connect \/ Disconnect \/ Stop \/ Leave \/ Retire

Spec == Init /\ [][Next]_vars

\* A connected session has a details thread that goes on, a thread that is to
\* go on is there, and a thread that is there, told to stop or not, has its
\* provider.
Served ==
  /\ connected => running
  /\ running => thread
  /\ thread => provider
=============================================================================
