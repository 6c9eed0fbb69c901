------------------------ MODULE ZattooSessionProofs ------------------------
(***************************************************************************)
(* The safety properties of ZattooSession, for every number of expiries    *)
(* and failed requests, whether or not VDR answers.                        *)
(***************************************************************************)
EXTENDS ZattooSession, TLAPS

\* Where LoginThread() is, or goes on after Reset().
Loc == IF pc["login"] \in Resetting THEN back["login"] ELSE pc["login"]

\* A provider that is not being joined has a details thread that goes on.
ProviderRuns == provider = "live" /\ Loc # "join" => running

\* What the steps of SessionInitialized() know of the provider.
SetupKnowsProvider ==
  /\ Loc \in {"join", "publish", "announce"} => provider = "live"
  /\ Loc \in {"load", "append"} => provider # "live"

\* LoginThread() starts a login only when the session is not connected, and
\* nobody else connects it.
ConnectedIsIdle ==
  connected => provider = "live" /\ Loc \in {"poll", "announce"}

IInv ==
  /\ TypeOK
  /\ EpgThreadHasProvider
  /\ ProviderRuns
  /\ SetupKnowsProvider
  /\ ConnectedIsIdle

-----------------------------------------------------------------------------
\* Where a thread is, or goes on, as TypeOK says it.
Placed(t, l, b) ==
  IF l \in Resetting THEN b \in Label[t] \ {"none"} ELSE l \in Label[t] /\ b = "none"

\* The places of TypeOK, written with Placed.
LEMMA PlacesOK ==
  ASSUME TypeOK, NEW t \in Thread
  PROVE  Placed(t, pc[t], back[t])
BY DEF TypeOK, Placed

\* The labels of each thread.
LEMMA Labels ==
  /\ Label["login"] = {"poll", "appid", "hello", "session", "account", "unreachable",
                       "giveup", "delete", "join", "load", "append", "publish", "announce"}
  /\ Label["main"] = {"wait", "load", "append", "idle", "post"}
  /\ Label["epg"] = {"none", "sleep", "vdr", "work", "load", "nap", "done"}
BY DEF Label

\* A thread that moves to a place of its own keeps every thread placed.
LEMMA MoveKeepsPlaces ==
  ASSUME NEW p, NEW b, NEW q, NEW c,
         p = [u \in Thread |-> p[u]], b = [u \in Thread |-> b[u]],
         \A u \in Thread : Placed(u, p[u], b[u]),
         NEW t \in Thread, NEW l, NEW m,
         q = [p EXCEPT ![t] = l], c = [b EXCEPT ![t] = m],
         Placed(t, l, m)
  PROVE  /\ q = [u \in Thread |-> q[u]] /\ c = [u \in Thread |-> c[u]]
         /\ \A u \in Thread : Placed(u, q[u], c[u])
<1>1. DOMAIN p = Thread /\ DOMAIN b = Thread
  OBVIOUS
<1>2. \A u \in Thread : q[u] = (IF u = t THEN l ELSE p[u]) /\ c[u] = (IF u = t THEN m ELSE b[u])
  BY <1>1
<1>3. q = [u \in Thread |-> q[u]] /\ c = [u \in Thread |-> c[u]]
  BY <1>1
<1>4. \A u \in Thread : Placed(u, q[u], c[u])
  BY <1>2
<1> QED BY <1>3, <1>4

\* Initially nothing is connected and there is no provider.
LEMMA InitHolds == Init => IInv
<1> SUFFICES ASSUME Init PROVE IInv
  OBVIOUS
<1>1. \A t \in Thread : Placed(t, pc[t], back[t])
  <2>1. \A t \in Thread : back[t] = "none"
    BY DEF Init
  <2>2. pc["login"] = "poll" /\ pc["main"] = "wait" /\ pc["epg"] = "none"
    BY DEF Init
  <2>3. Placed("login", "poll", "none") /\ Placed("main", "wait", "none") /\ Placed("epg", "none", "none")
    BY Labels DEF Placed, Resetting
  <2> QED BY <2>1, <2>2, <2>3 DEF Thread
<1>2. TypeOK
  <2>1. pc = [t \in Thread |-> pc[t]] /\ back = [t \in Thread |-> back[t]]
    BY DEF Init, Thread
  <2>2. troubles \in 0 .. MaxTroubles
    BY SessionAssumption DEF Init
  <2> QED BY <1>1, <2>1, <2>2 DEF Init, TypeOK, Placed
<1>3. Loc = "poll"
  BY DEF Init, Loc, Resetting
<1>4. EpgThreadHasProvider /\ ProviderRuns /\ SetupKnowsProvider /\ ConnectedIsIdle
  BY <1>3 DEF Init, EpgThreadHasProvider, ProviderRuns, SetupKnowsProvider, ConnectedIsIdle
<1> QED BY <1>2, <1>4 DEF IInv

\* Reset() in whichever thread: it only takes the connection away.
LEMMA ResetHolds ==
  ASSUME IInv, NEW t \in Thread, Reset(t)
  PROVE  IInv'
<1>1. TypeOK /\ EpgThreadHasProvider /\ ProviderRuns /\ SetupKnowsProvider /\ ConnectedIsIdle
  BY DEF IInv
<1>2. UNCHANGED <<session, provider, running, own, troubles, fault, wait>>
  BY DEF Reset, ResetConnected, ResetToken, ResetState
<1>3. PICK l, m : /\ pc' = [pc EXCEPT ![t] = l] /\ back' = [back EXCEPT ![t] = m]
                  /\ pc[t] \in Resetting
                  /\ \/ l \in Resetting /\ m = back[t]
                     \/ l = back[t] /\ m = "none"
  <2>1. CASE ResetConnected(t)
    <3>1. back' = [back EXCEPT ![t] = back[t]]
      BY <1>1, <2>1 DEF ResetConnected, Go, TypeOK
    <3> QED BY <2>1, <3>1 DEF ResetConnected, At, Go, Resetting
  <2>2. CASE ResetToken(t)
    <3>1. back' = [back EXCEPT ![t] = back[t]]
      BY <1>1, <2>2 DEF ResetToken, Go, TypeOK
    <3> QED BY <2>2, <3>1 DEF ResetToken, At, Go, Resetting
  <2>3. CASE ResetState(t)
    BY <2>3 DEF ResetState, At, Resetting
  <2> QED BY <2>1, <2>2, <2>3 DEF Reset
<1>4. back[t] \in Label[t] \ {"none"} /\ back[t] \notin Resetting
  BY <1>1, <1>3, Labels DEF TypeOK, Thread, Resetting
<1>5. Placed(t, l, m)
  BY <1>3, <1>4 DEF Placed
<1>6. /\ pc' = [u \in Thread |-> pc'[u]] /\ back' = [u \in Thread |-> back'[u]]
      /\ \A u \in Thread : Placed(u, pc'[u], back'[u])
  BY <1>1, <1>3, <1>5, MoveKeepsPlaces, PlacesOK DEF TypeOK
<1>7. connected' \in BOOLEAN /\ (connected' => connected) /\ token' \in BOOLEAN
      /\ state' \in {"connecting", "unreachable", "connected"}
  <2>1. CASE ResetConnected(t)
    BY <1>1, <2>1 DEF TypeOK, ResetConnected
  <2>2. CASE ResetToken(t)
    BY <1>1, <2>2 DEF TypeOK, ResetToken
  <2>3. CASE ResetState(t)
    BY <1>1, <2>3 DEF TypeOK, ResetState
  <2> QED BY <2>1, <2>2, <2>3 DEF Reset
<1>8. TypeOK'
  BY <1>1, <1>2, <1>6, <1>7 DEF TypeOK, Placed
<1>9. pc'["epg"] \notin {"none", "done"} => pc["epg"] \notin {"none", "done"}
  BY <1>1, <1>3 DEF TypeOK, Thread, Resetting
<1>10. Loc' = Loc
  BY <1>1, <1>3, <1>4 DEF Loc, TypeOK, Thread
<1>11. /\ EpgThreadHasProvider' /\ ProviderRuns' /\ SetupKnowsProvider' /\ ConnectedIsIdle'
  BY <1>1, <1>2, <1>7, <1>9, <1>10
     DEF EpgThreadHasProvider, ProviderRuns, SetupKnowsProvider, ConnectedIsIdle
<1> QED BY <1>8, <1>11 DEF IInv

-----------------------------------------------------------------------------
\* Thread t comes to l, with m in back, and the other threads stay.
Moves(t, l, m) ==
  /\ pc' = [u \in Thread |-> pc'[u]] /\ back' = [u \in Thread |-> back'[u]]
  /\ \A u \in Thread : Placed(u, pc'[u], back'[u])
  /\ pc'[t] = l /\ back'[t] = m
  /\ \A u \in Thread \ {t} : pc'[u] = pc[u] /\ back'[u] = back[u]

\* A thread outside Reset() that goes to another place outside it.
LEMMA GoMoves ==
  ASSUME TypeOK, NEW t \in Thread, NEW l \in Label[t] \ Resetting,
         pc[t] \notin Resetting, Go(t, l)
  PROVE  Moves(t, l, "none")
<1>1. pc = [u \in Thread |-> pc[u]] /\ back = [u \in Thread |-> back[u]] /\ back[t] = "none"
  BY DEF TypeOK
<1>2. back' = [back EXCEPT ![t] = "none"]
  BY <1>1 DEF Go
<1>3. pc' = [pc EXCEPT ![t] = l]
  BY DEF Go
<1>4. Placed(t, l, "none")
  BY DEF Placed
<1>5. /\ pc' = [u \in Thread |-> pc'[u]] /\ back' = [u \in Thread |-> back'[u]]
      /\ \A u \in Thread : Placed(u, pc'[u], back'[u])
  BY <1>1, <1>2, <1>3, <1>4, MoveKeepsPlaces, PlacesOK
<1>6. /\ pc'[t] = l /\ back'[t] = "none"
      /\ \A u \in Thread \ {t} : pc'[u] = pc[u] /\ back'[u] = back[u]
  BY <1>1, <1>2, <1>3
<1> QED BY <1>5, <1>6 DEF Moves

\* A thread that starts Reset().
LEMMA ResetThenMoves ==
  ASSUME TypeOK, NEW t \in Thread, NEW l \in Label[t] \ {"none"}, ResetThen(t, l)
  PROVE  Moves(t, "reset", l)
<1>1. pc = [u \in Thread |-> pc[u]] /\ back = [u \in Thread |-> back[u]]
  BY DEF TypeOK
<1>2. pc' = [pc EXCEPT ![t] = "reset"] /\ back' = [back EXCEPT ![t] = l]
  BY DEF ResetThen
<1>3. Placed(t, "reset", l)
  BY DEF Placed, Resetting
<1>4. /\ pc' = [u \in Thread |-> pc'[u]] /\ back' = [u \in Thread |-> back'[u]]
      /\ \A u \in Thread : Placed(u, pc'[u], back'[u])
  BY <1>1, <1>2, <1>3, MoveKeepsPlaces, PlacesOK
<1>5. /\ pc'[t] = "reset" /\ back'[t] = l
      /\ \A u \in Thread \ {t} : pc'[u] = pc[u] /\ back'[u] = back[u]
  BY <1>1, <1>2
<1> QED BY <1>4, <1>5 DEF Moves

\* The budget of troubles is kept.
LEMMA TroublesOK ==
  ASSUME TypeOK, Trouble \/ NoTrouble
  PROVE  troubles' \in 0 .. MaxTroubles
BY SessionAssumption DEF TypeOK, Trouble, NoTrouble

\* TypeOK from its parts, after a move.
LEMMA MovedTypeOK ==
  ASSUME NEW t \in Thread, NEW l, NEW m, Moves(t, l, m),
         session' \in {"none", "active", "account"},
         connected' \in BOOLEAN, state' \in {"connecting", "unreachable", "connected"},
         token' \in BOOLEAN, wait' \in BOOLEAN, running' \in BOOLEAN,
         provider' \in {"null", "live", "freed"}, own' \in {"none", "valid", "dangling"},
         troubles' \in 0 .. MaxTroubles,
         fault' \in {"none", "deletedTwice", "usedFreed", "raced"}
  PROVE  TypeOK'
BY DEF Moves, TypeOK, Placed

\* The steps of main() and of the details thread do not touch what the
\* invariant says of LoginThread() and the provider.
LEMMA OthersHold ==
  ASSUME IInv, NEW t \in {"main", "epg"}, NEW l, NEW m, Moves(t, l, m),
         UNCHANGED <<session, sessionVars, provider, running>>,
         own' \in {"none", "valid", "dangling"}, Trouble \/ NoTrouble,
         fault' \in {"none", "deletedTwice", "usedFreed", "raced"},
         t = "epg" => pc["epg"] \notin {"none", "done"}
  PROVE  IInv'
<1>1. TypeOK'
  BY TroublesOK, MovedTypeOK DEF IInv, TypeOK, sessionVars, Thread
<1>2. Loc' = Loc
  BY DEF Moves, Loc, Thread
<1>3. pc'["epg"] \notin {"none", "done"} => pc["epg"] \notin {"none", "done"}
  BY DEF Moves, Thread
<1> QED
  BY <1>1, <1>2, <1>3
     DEF IInv, EpgThreadHasProvider, ProviderRuns, SetupKnowsProvider, ConnectedIsIdle, sessionVars

\* The steps of LoginThread() before and after SessionInitialized().
LEMMA LoginHolds ==
  ASSUME IInv, NEW l, NEW m, Moves("login", l, m),
         UNCHANGED <<connected, provider, running, own, fault>>,
         session' \in {"none", "active", "account"},
         state' \in {"connecting", "unreachable", "connected"},
         token' \in BOOLEAN, wait' \in BOOLEAN, Trouble \/ NoTrouble,
         (IF l \in Resetting THEN m ELSE l) \notin {"join", "load", "append", "publish", "announce"},
         Loc # "join",
         connected => (IF l \in Resetting THEN m ELSE l) = "poll"
  PROVE  IInv'
<1>1. TypeOK'
  BY TroublesOK, MovedTypeOK DEF IInv, TypeOK, Thread
<1>2. Loc' = IF l \in Resetting THEN m ELSE l
  BY DEF Moves, Loc
<1>3. pc'["epg"] = pc["epg"]
  BY DEF Moves, Thread
<1> QED
  BY <1>1, <1>2, <1>3
     DEF IInv, EpgThreadHasProvider, ProviderRuns, SetupKnowsProvider, ConnectedIsIdle

-----------------------------------------------------------------------------
\* Login() up to SessionInitialized(), and its failures.
LEMMA LoginStepsHold ==
  ASSUME IInv,
         Poll \/ LoadAppId \/ SendHello \/ HelloFails \/ GetSession \/ AccountLogin
           \/ Unreachable \/ GiveUp
  PROVE  IInv'
<1>1. TypeOK /\ "login" \in Thread
  BY DEF IInv, Thread
<1> DEFINE from == pc["login"]
<1>2. from \notin Resetting /\ Loc = from
  BY DEF Poll, LoadAppId, SendHello, HelloFails, GetSession, AccountLogin, Unreachable,
         GiveUp, At, Resetting, Loc
<1>3. connected => from = "poll"
  BY <1>2 DEF IInv, ConnectedIsIdle, Poll, LoadAppId, SendHello, HelloFails, GetSession,
              AccountLogin, Unreachable, GiveUp, At
<1>4. /\ UNCHANGED <<connected, provider, running, own, fault>>
      /\ Trouble \/ NoTrouble
      /\ Loc # "join"
  BY <1>2 DEF Poll, LoadAppId, SendHello, HelloFails, GetSession, AccountLogin, Unreachable,
              GiveUp, At, sessionVars, NoTrouble
<1>5. /\ session' \in {"none", "active", "account"}
      /\ state' \in {"connecting", "unreachable", "connected"}
      /\ token' \in BOOLEAN /\ wait' \in BOOLEAN
  <2>1. CASE Poll
    BY <1>1, <2>1 DEF Poll, TypeOK, sessionVars
  <2>2. CASE LoadAppId
    BY <1>1, <2>2 DEF LoadAppId, TypeOK
  <2>3. CASE SendHello \/ HelloFails
    BY <1>1, <2>3 DEF SendHello, HelloFails, TypeOK, sessionVars
  <2>4. CASE GetSession \/ AccountLogin
    BY <1>1, <2>4 DEF GetSession, AccountLogin, TypeOK, sessionVars
  <2>5. CASE Unreachable \/ GiveUp
    BY <1>1, <2>5 DEF Unreachable, GiveUp, TypeOK
  <2> QED BY <2>1, <2>2, <2>3, <2>4, <2>5
<1>6. \/ \E l \in {"appid", "hello", "session", "account", "delete", "poll"} :
           /\ Go("login", l)
           /\ connected => l = "poll"
      \/ \E l \in {"unreachable", "session", "giveup"} : ResetThen("login", l) /\ ~connected
  <2>1. CASE Poll
    BY <2>1 DEF Poll
  <2>2. CASE LoadAppId \/ SendHello \/ HelloFails
    BY <1>3, <2>2 DEF LoadAppId, SendHello, HelloFails, At
  <2>3. CASE GetSession \/ AccountLogin
    BY <1>3, <2>3 DEF GetSession, AccountLogin, At
  <2>4. CASE Unreachable \/ GiveUp
    BY <1>3, <2>4 DEF Unreachable, GiveUp, At
  <2> QED BY <2>1, <2>2, <2>3, <2>4
<1>7. CASE \E l \in {"appid", "hello", "session", "account", "delete", "poll"} :
             Go("login", l) /\ (connected => l = "poll")
  <2>1. PICK l \in {"appid", "hello", "session", "account", "delete", "poll"} :
          Go("login", l) /\ (connected => l = "poll")
    BY <1>7
  <2>2. l \in Label["login"] \ Resetting
    BY <2>1, Labels DEF Resetting
  <2>3. Moves("login", l, "none")
    BY <1>1, <1>2, <2>1, <2>2, GoMoves
  <2>4. (IF l \in Resetting THEN "none" ELSE l) = l
    BY <2>2
  <2> HIDE DEF from
  <2> QED BY <1>4, <1>5, <2>1, <2>3, <2>4, LoginHolds
<1>8. CASE \E l \in {"unreachable", "session", "giveup"} : ResetThen("login", l) /\ ~connected
  <2>1. PICK l \in {"unreachable", "session", "giveup"} : ResetThen("login", l) /\ ~connected
    BY <1>8
  <2>2. l \in Label["login"] \ {"none"}
    BY <2>1, Labels
  <2>3. Moves("login", "reset", l)
    BY <1>1, <2>1, <2>2, ResetThenMoves
  <2>4. (IF "reset" \in Resetting THEN l ELSE "reset") = l
    BY DEF Resetting
  <2> HIDE DEF from
  <2> QED BY <1>4, <1>5, <2>1, <2>3, <2>4, LoginHolds
<1> QED BY <1>6, <1>7, <1>8

\* The deletion of a provider: its thread is told to stop and joined before
\* the provider is gone.
LEMMA DeleteHolds ==
  ASSUME IInv, Delete \/ Join
  PROVE  IInv'
<1>1. TypeOK /\ "login" \in Thread
  BY DEF IInv, Thread
<1>2. pc["login"] \in {"delete", "join"} /\ Loc = pc["login"] /\ ~connected
  BY DEF Delete, Join, At, Loc, Resetting, IInv, ConnectedIsIdle
<1>3. /\ UNCHANGED <<session, connected, state, token, wait, own, troubles>>
      /\ provider' \in {"null", "live", "freed"} /\ running' \in BOOLEAN
      /\ fault' \in {"none", "deletedTwice", "usedFreed", "raced"}
  BY <1>1 DEF Delete, Join, TypeOK, sessionVars
<1>4. CASE \E l \in {"load", "join"} : Go("login", l)
  <2>1. PICK l \in {"load", "join"} : Go("login", l)
    BY <1>4
  <2>2. l \in Label["login"] \ Resetting /\ pc["login"] \notin Resetting
    BY <1>2, <2>1, Labels DEF Resetting
  <2>3. Moves("login", l, "none")
    BY <1>1, <2>1, <2>2, GoMoves
  <2>4. TypeOK'
    BY <1>1, <1>3, <2>3, MovedTypeOK DEF TypeOK
  <2>5. pc'["login"] = l /\ pc'["epg"] = pc["epg"] /\ Loc' = l
    BY <2>2, <2>3 DEF Moves, Thread, Loc
  <2>6. \/ provider = "null" /\ provider' = provider /\ l = "load" /\ running' = running
        \/ provider' = provider /\ provider = "live" /\ l = "join"
        \/ provider' = "freed" /\ l = "load" /\ running' = running /\ pc["epg"] = "done"
    <3>1. pc = [u \in Thread |-> pc[u]]
      BY <1>1 DEF TypeOK
    <3>2. ASSUME NEW k, Go("login", k) PROVE pc'["login"] = k
      BY <1>1, <3>1, <3>2 DEF Go
    <3>3. CASE Delete
      <4>1. CASE provider = "null" /\ Go("login", "load") /\ UNCHANGED <<running, fault>>
        BY <2>5, <3>2, <3>3, <4>1 DEF Delete
      <4>2. CASE provider = "live" /\ Go("login", "join")
        BY <2>5, <3>2, <3>3, <4>2 DEF Delete
      <4>3. CASE UNCHANGED pc
        BY <2>1, <2>5, <3>3, <4>3 DEF Delete, At
      <4> QED BY <3>3, <4>1, <4>2, <4>3 DEF Delete
    <3>4. CASE Join
      BY <2>5, <3>2, <3>4 DEF Join
    <3> QED BY <3>3, <3>4
  <2>7. EpgThreadHasProvider' /\ ProviderRuns' /\ SetupKnowsProvider' /\ ConnectedIsIdle'
    BY <1>2, <1>3, <2>1, <2>5, <2>6
       DEF IInv, EpgThreadHasProvider, ProviderRuns, SetupKnowsProvider, ConnectedIsIdle
  <2> QED BY <2>4, <2>7 DEF IInv
<1>5. CASE UNCHANGED <<pc, back, provider, running>>
  <2>1. TypeOK'
    BY <1>1, <1>3, <1>5 DEF TypeOK
  <2> QED
    BY <1>3, <1>5, <2>1
       DEF IInv, EpgThreadHasProvider, ProviderRuns, SetupKnowsProvider, ConnectedIsIdle, Loc
<1>6. (\E l \in {"load", "join"} : Go("login", l)) \/ UNCHANGED <<pc, back, provider, running>>
  BY DEF Delete, Join
<1> QED BY <1>4, <1>5, <1>6

\* LoadChannels() and what follows it in LoginThread(): the provider is there
\* before the session counts as connected.
LEMMA SetupHolds ==
  ASSUME IInv, LoadChannels("login") \/ AppendChannels \/ Publish \/ Announce
  PROVE  IInv'
<1>1. TypeOK /\ "login" \in Thread /\ "epg" \in Thread
  BY DEF IInv, Thread
<1>2. pc["login"] \notin Resetting /\ Loc = pc["login"]
  BY DEF LoadChannels, AppendChannels, Publish, Announce, At, Loc, Resetting
<1>3. CASE LoadChannels("login")
  <2>1. ~connected /\ Loc = "load"
    BY <1>2, <1>3 DEF LoadChannels, At, IInv, ConnectedIsIdle
  <2>2. PICK l, m : /\ Moves("login", l, m)
                    /\ (IF l \in Resetting THEN m ELSE l) \in {"append", "giveup"}
    <3>1. CASE Go("login", "append")
      BY <1>1, <1>2, <3>1, GoMoves, Labels DEF Resetting
    <3>2. CASE Go("login", "giveup")
      BY <1>1, <1>2, <3>2, GoMoves, Labels DEF Resetting
    <3>3. CASE ResetThen("login", "giveup")
      BY <1>1, <3>3, ResetThenMoves, Labels DEF Resetting
    <3> QED BY <1>3, <3>1, <3>2, <3>3 DEF LoadChannels, Unloaded
  <2>3. UNCHANGED <<session, connected, state, token, wait, provider, running, own, fault>>
        /\ (Trouble \/ NoTrouble)
    BY <1>3 DEF LoadChannels, sessionVars
  <2>4. TypeOK'
    BY <1>1, <2>2, <2>3, TroublesOK, MovedTypeOK DEF TypeOK
  <2>5. pc'["epg"] = pc["epg"] /\ Loc' \in {"append", "giveup"}
    BY <2>2 DEF Moves, Thread, Loc
  <2> QED
    BY <2>1, <2>3, <2>4, <2>5
       DEF IInv, EpgThreadHasProvider, ProviderRuns, SetupKnowsProvider, ConnectedIsIdle
<1>4. CASE AppendChannels
  <2>1. ~connected
    BY <1>2, <1>4 DEF AppendChannels, At, IInv, ConnectedIsIdle
  <2>2. pc["epg"] \in {"none", "done"} /\ back["epg"] = "none"
    BY <1>1, <1>2, <1>4
       DEF AppendChannels, At, IInv, SetupKnowsProvider, EpgThreadHasProvider, TypeOK, Resetting
  <2> DEFINE p == [pc EXCEPT !["login"] = "publish"]
  <2>3. pc = [u \in Thread |-> pc[u]] /\ back = [u \in Thread |-> back[u]] /\ back["login"] = "none"
    BY <1>1, <1>2 DEF TypeOK
  <2>4. back = [back EXCEPT !["login"] = "none"] /\ back = [back EXCEPT !["epg"] = "none"]
    BY <1>1, <2>2, <2>3
  <2>5. Placed("login", "publish", "none") /\ Placed("epg", "sleep", "none")
    BY Labels DEF Placed, Resetting
  <2>6. p = [u \in Thread |-> p[u]] /\ \A u \in Thread : Placed(u, p[u], back[u])
    BY <1>1, <2>3, <2>4, <2>5, MoveKeepsPlaces, PlacesOK
  <2>7. pc' = [p EXCEPT !["epg"] = "sleep"] /\ back' = back
    BY <1>4 DEF AppendChannels
  <2> HIDE DEF p
  <2>8. /\ pc' = [u \in Thread |-> pc'[u]] /\ back' = [u \in Thread |-> back'[u]]
        /\ \A u \in Thread : Placed(u, pc'[u], back'[u])
    BY <1>1, <2>3, <2>4, <2>5, <2>6, <2>7, MoveKeepsPlaces
  <2>9. pc'["login"] = "publish"
    BY <1>1, <1>4, <2>3 DEF AppendChannels
  <2>10. own' \in {"none", "valid", "dangling"}
    BY <1>1, <1>4 DEF AppendChannels, TypeOK
  <2>11. /\ UNCHANGED <<session, connected, state, token, wait, troubles, fault>>
         /\ provider' = "live" /\ running' = TRUE
    BY <1>4 DEF AppendChannels, sessionVars
  <2>12. TypeOK'
    BY <1>1, <2>8, <2>10, <2>11 DEF TypeOK, Placed
  <2>13. Loc' = "publish"
    BY <2>9 DEF Loc, Resetting
  <2> QED
    BY <2>1, <2>11, <2>12, <2>13
       DEF IInv, EpgThreadHasProvider, ProviderRuns, SetupKnowsProvider, ConnectedIsIdle
<1>5. CASE Publish \/ Announce
  <2>1. PICK l \in {"announce", "poll"} : /\ Go("login", l)
                                          /\ Publish => l = "announce"
    BY <1>5 DEF Publish, Announce
  <2>2. Moves("login", l, "none")
    BY <1>1, <1>2, <2>1, GoMoves, Labels DEF Resetting
  <2>3. /\ UNCHANGED <<session, token, wait, provider, running, own, troubles, fault>>
        /\ connected' \in BOOLEAN /\ state' \in {"connecting", "unreachable", "connected"}
        /\ provider = "live"
    BY <1>1, <1>2, <1>5 DEF Publish, Announce, At, TypeOK, IInv, SetupKnowsProvider
  <2>4. TypeOK'
    BY <1>1, <2>2, <2>3, MovedTypeOK DEF TypeOK
  <2>5. pc'["epg"] = pc["epg"] /\ Loc' = l
    BY <2>1, <2>2 DEF Moves, Thread, Loc, Resetting
  <2>6. running
    BY <1>2, <1>5, <2>3 DEF Publish, Announce, At, IInv, ProviderRuns
  <2> QED
    BY <2>1, <2>3, <2>4, <2>5, <2>6
       DEF IInv, EpgThreadHasProvider, ProviderRuns, SetupKnowsProvider, ConnectedIsIdle
<1> QED BY <1>3, <1>4, <1>5

\* main() and the details thread.
LEMMA MainAndEpgHold ==
  ASSUME IInv, Connected \/ LoadChannels("main") \/ MainAppends \/ Request \/ StreamAnswer
                 \/ Wake \/ VdrAnswers \/ Work \/ LoadEPG \/ Nap
  PROVE  IInv'
<1>1. TypeOK /\ "main" \in Thread /\ "epg" \in Thread
  BY DEF IInv, Thread
<1>2. CASE Connected \/ MainAppends \/ Request
  <2>1. PICK l \in {"load", "idle", "post"} : Go("main", l) /\ pc["main"] \notin Resetting
    BY <1>2 DEF Connected, MainAppends, Request, At, Resetting
  <2>2. Moves("main", l, "none")
    BY <1>1, <2>1, GoMoves, Labels DEF Resetting
  <2>3. /\ UNCHANGED <<session, sessionVars, provider, running, fault>> /\ NoTrouble
        /\ own' \in {"none", "valid", "dangling"}
    BY <1>1, <1>2 DEF Connected, MainAppends, Request, TypeOK, NoTrouble
  <2> QED BY <1>1, <2>2, <2>3, OthersHold DEF TypeOK
<1>3. CASE LoadChannels("main")
  <2>1. pc["main"] \notin Resetting
    BY <1>3 DEF LoadChannels, At, Resetting
  <2>2. PICK l, m : Moves("main", l, m)
    <3>1. CASE Go("main", "append")
      BY <1>1, <2>1, <3>1, GoMoves, Labels DEF Resetting
    <3>2. CASE Go("main", "idle")
      BY <1>1, <2>1, <3>2, GoMoves, Labels DEF Resetting
    <3>3. CASE ResetThen("main", "idle")
      BY <1>1, <3>3, ResetThenMoves, Labels
    <3> QED BY <1>3, <3>1, <3>2, <3>3 DEF LoadChannels, Unloaded
  <2>3. /\ UNCHANGED <<session, sessionVars, provider, running, own, fault>>
        /\ Trouble \/ NoTrouble
    BY <1>3 DEF LoadChannels
  <2> QED BY <1>1, <2>2, <2>3, OthersHold DEF TypeOK
<1>4. CASE StreamAnswer
  <2>1. pc["main"] \notin Resetting
    BY <1>4 DEF StreamAnswer, At, Resetting
  <2>2. /\ UNCHANGED <<session, sessionVars, provider, running>> /\ own' = "none"
        /\ Trouble \/ NoTrouble
        /\ fault' \in {"none", "deletedTwice", "usedFreed", "raced"}
    BY <1>1, <1>4 DEF StreamAnswer, TypeOK
  <2>3. CASE Go("main", "idle")
    <3>1. Moves("main", "idle", "none")
      BY <1>1, <2>1, <2>3, GoMoves, Labels DEF Resetting
    <3> QED BY <1>1, <2>2, <3>1, OthersHold
  <2>4. CASE ResetThen("main", "idle")
    <3>1. Moves("main", "reset", "idle")
      BY <1>1, <2>4, ResetThenMoves, Labels
    <3> QED BY <1>1, <2>2, <3>1, OthersHold
  <2>5. CASE UNCHANGED <<pc, back>> /\ NoTrouble
    <3>1. TypeOK'
      BY <1>1, <2>2, <2>5 DEF TypeOK, sessionVars, NoTrouble
    <3> QED
      BY <2>2, <2>5, <3>1
         DEF IInv, EpgThreadHasProvider, ProviderRuns, SetupKnowsProvider, ConnectedIsIdle,
             Loc, sessionVars
  <2> QED BY <1>4, <2>3, <2>4, <2>5 DEF StreamAnswer
<1>5. CASE Wake \/ VdrAnswers \/ Work \/ Nap
  <2>1. PICK l \in {"vdr", "work", "load", "done"} :
          Go("epg", l) /\ pc["epg"] \notin Resetting \cup {"none", "done"}
    BY <1>5 DEF Wake, VdrAnswers, Work, Nap, At, Resetting
  <2>2. Moves("epg", l, "none")
    BY <1>1, <2>1, GoMoves, Labels DEF Resetting
  <2>3. UNCHANGED <<session, sessionVars, provider, running, own, fault>> /\ NoTrouble
    BY <1>5 DEF Wake, VdrAnswers, Work, Nap, NoTrouble
  <2> QED BY <1>1, <2>1, <2>2, <2>3, OthersHold DEF TypeOK
<1>6. CASE LoadEPG
  <2>1. pc["epg"] = "load" /\ pc["epg"] \notin Resetting
    BY <1>6 DEF LoadEPG, At, Resetting
  <2>2. PICK l, m : Moves("epg", l, m)
    <3>1. CASE Go("epg", "nap")
      BY <1>1, <2>1, <3>1, GoMoves, Labels DEF Resetting
    <3>2. CASE ResetThen("epg", "nap")
      BY <1>1, <3>2, ResetThenMoves, Labels
    <3> QED BY <1>6, <3>1, <3>2 DEF LoadEPG
  <2>3. /\ UNCHANGED <<session, sessionVars, provider, running, own, fault>>
        /\ Trouble \/ NoTrouble
    BY <1>6 DEF LoadEPG
  <2> QED BY <1>1, <2>1, <2>2, <2>3, OthersHold DEF TypeOK
<1> QED BY <1>2, <1>3, <1>4, <1>5, <1>6

\* What happens to the session from outside, a data race, and stuttering.
LEMMA OutsideHolds ==
  ASSUME IInv, Elapse \/ Expire \/ Race \/ UNCHANGED vars
  PROVE  IInv'
<1>1. TypeOK
  BY DEF IInv
<1>2. UNCHANGED <<connected, provider, running, own, pc, back>>
  BY DEF Elapse, Expire, Race, vars, sessionVars
<1>3. /\ session' \in {"none", "active", "account"} /\ wait' \in BOOLEAN
      /\ UNCHANGED <<state, token>>
      /\ Trouble \/ NoTrouble
      /\ fault' \in {"none", "deletedTwice", "usedFreed", "raced"}
  <2>1. CASE Elapse \/ Expire
    BY <1>1, <2>1 DEF Elapse, Expire, sessionVars, TypeOK, NoTrouble
  <2>2. CASE Race \/ UNCHANGED vars
    BY <1>1, <2>2 DEF Race, vars, sessionVars, TypeOK, NoTrouble
  <2> QED BY <2>1, <2>2
<1>4. TypeOK'
  BY <1>1, <1>2, <1>3, TroublesOK DEF TypeOK
<1> QED
  BY <1>2, <1>4
     DEF IInv, EpgThreadHasProvider, ProviderRuns, SetupKnowsProvider, ConnectedIsIdle, Loc

\* Every step keeps the invariant.
LEMMA StepHolds == IInv /\ [Next]_vars => IInv'
<1> SUFFICES ASSUME IInv, [Next]_vars PROVE IInv'
  OBVIOUS
<1>1. CASE LoginStep
  BY <1>1, ResetHolds, LoginStepsHold, DeleteHolds, SetupHolds DEF LoginStep, Thread
<1>2. CASE MainStep
  BY <1>2, ResetHolds, MainAndEpgHold DEF MainStep, Thread
<1>3. CASE EpgStep
  BY <1>3, ResetHolds, MainAndEpgHold DEF EpgStep, Thread
<1>4. CASE Elapse \/ Request \/ Race \/ Expire \/ UNCHANGED vars
  BY <1>4, OutsideHolds, MainAndEpgHold
<1> QED BY <1>1, <1>2, <1>3, <1>4 DEF Next

-----------------------------------------------------------------------------
\* The inductive invariant: whatever the three threads do to the session, the
\* provider, the stop flag and the place of LoginThread() agree.
THEOREM SessionInvariant == Spec => []IInv
BY InitHolds, StepHolds, PTL DEF Spec

\* The details thread never runs on a deleted provider, for every number of
\* expiries and failures (destructor of ZattooEpgProvider).
THEOREM DetailsThreadOwned == Spec => []EpgThreadHasProvider
<1>1. IInv => EpgThreadHasProvider
  BY DEF IInv
<1> QED BY <1>1, SessionInvariant, PTL

\* A connected session has a provider whose thread goes on, and no login is
\* about to replace it (LoginThread(), SessionInitialized()).
THEOREM Served == Spec => []ConnectedIsServed
<1>1. IInv => ConnectedIsServed
  <2> SUFFICES ASSUME IInv, connected PROVE ConnectedIsServed
    BY DEF ConnectedIsServed
  <2>1. provider = "live" /\ Loc \in {"poll", "announce"} /\ running
    BY DEF IInv, ConnectedIsIdle, ProviderRuns
  <2>2. {pc["login"], back["login"]} \cap {"delete", "join", "load", "append"} = {}
    BY <2>1 DEF IInv, TypeOK, Thread, Loc, Resetting
  <2> QED BY <2>1, <2>2 DEF ConnectedIsServed
<1> QED BY <1>1, SessionInvariant, PTL

\* There is never a details thread beside the one of a new provider
\* (SessionInitialized(), delete before new).
THEOREM OneThread == Spec => OneDetailsThread
<1>1. IInv /\ [Next]_vars =>
        [provider # "live" /\ provider' = "live" => pc["epg"] \in {"none", "done"}]_vars
  BY DEF IInv, EpgThreadHasProvider
<1> QED BY <1>1, SessionInvariant, PTL DEF Spec, OneDetailsThread

-----------------------------------------------------------------------------
(* The refinement of ServedSession.                                        *)

\* A provider that is not being replaced has a details thread, and a details
\* thread leaves its loop only when it is told to.
ThreadGoesOn ==
  /\ back["epg"] # "done"
  /\ running => pc["epg"] \notin {"none", "done"}
  /\ Loc = "join" => ~running

JInv == IInv /\ ThreadGoesOn

\* A step of Reset(), whichever thread runs it: the thread goes on in Reset()
\* or where it was to go on after it, and nothing but the session changes.
LEMMA ResetIs ==
  ASSUME TypeOK, NEW t \in Thread, Reset(t)
  PROVE  /\ UNCHANGED <<provider, running>>
         /\ pc[t] \in Resetting
         /\ \A u \in Thread \ {t} : pc'[u] = pc[u] /\ back'[u] = back[u]
         /\ \/ pc'[t] \in Resetting /\ back'[t] = back[t]
            \/ pc'[t] = back[t] /\ back'[t] = "none"
         /\ connected' = connected \/ ~connected'
<1>1. pc = [u \in Thread |-> pc[u]] /\ back = [u \in Thread |-> back[u]]
  BY DEF TypeOK
<1>2. CASE ResetConnected(t) \/ ResetToken(t)
  BY <1>1, <1>2 DEF ResetConnected, ResetToken, At, Go, Resetting
<1>3. CASE ResetState(t)
  BY <1>1, <1>3 DEF ResetState, At, Resetting
<1> QED BY <1>2, <1>3 DEF Reset

\* Reset() stops no thread.
LEMMA ResetGoesOn ==
  ASSUME JInv, NEW t \in Thread, Reset(t)
  PROVE  ThreadGoesOn'
<1>1. TypeOK /\ ThreadGoesOn
  BY DEF JInv, IInv
<1>2. back[t] \in Label[t] \ {"none"} /\ back[t] \notin Resetting
  BY <1>1, ResetIs, Labels DEF TypeOK, Thread, Resetting
<1>3. Loc' = Loc
  BY <1>1, <1>2, ResetIs DEF Loc, Thread
<1>4. back'["epg"] # "done" /\ (running => pc'["epg"] \notin {"none", "done"})
  <2>1. CASE t = "epg"
    BY <1>1, <1>2, <2>1, ResetIs DEF ThreadGoesOn, Resetting
  <2>2. CASE t # "epg"
    BY <1>1, <2>2, ResetIs DEF ThreadGoesOn, Thread
  <2> QED BY <2>1, <2>2
<1> QED BY <1>1, <1>3, <1>4, ResetIs DEF ThreadGoesOn

\* A step of LoginThread() that is neither in Reset() nor creates a provider
\* leaves the details thread where it is.
LEMMA LoginIs ==
  ASSUME TypeOK,
         Poll \/ LoadAppId \/ SendHello \/ HelloFails \/ GetSession \/ AccountLogin
           \/ Unreachable \/ GiveUp \/ LoadChannels("login") \/ Publish \/ Announce
  PROVE  /\ UNCHANGED <<provider, running>>
         /\ pc'["epg"] = pc["epg"] /\ back'["epg"] = back["epg"]
         /\ Loc' # "join"
         /\ connected' = connected \/ Publish
<1>1. pc = [u \in Thread |-> pc[u]] /\ back = [u \in Thread |-> back[u]]
  BY DEF TypeOK
<1>2. UNCHANGED <<provider, running>> /\ (connected' = connected \/ Publish)
  BY DEF Poll, LoadAppId, SendHello, HelloFails, GetSession, AccountLogin, Unreachable,
         GiveUp, LoadChannels, Publish, Announce, sessionVars
<1>3. \/ \E l \in {"appid", "hello", "session", "account", "delete", "poll", "append",
                   "giveup", "announce"} : Go("login", l)
      \/ \E l \in {"unreachable", "session", "giveup"} : ResetThen("login", l)
  <2>1. CASE Poll \/ LoadAppId \/ SendHello \/ HelloFails
    BY <2>1 DEF Poll, LoadAppId, SendHello, HelloFails
  <2>2. CASE GetSession \/ AccountLogin \/ Unreachable \/ GiveUp
    BY <2>2 DEF GetSession, AccountLogin, Unreachable, GiveUp
  <2>3. CASE LoadChannels("login") \/ Publish \/ Announce
    BY <2>3 DEF LoadChannels, Unloaded, Publish, Announce
  <2> QED BY <2>1, <2>2, <2>3
<1>4. /\ pc'["epg"] = pc["epg"] /\ back'["epg"] = back["epg"]
      /\ Loc' # "join"
  <2>1. ASSUME NEW l \in {"appid", "hello", "session", "account", "delete", "poll", "append",
                          "giveup", "announce"}, Go("login", l)
        PROVE  <1>4!1 /\ <1>4!2
    BY <1>1, <2>1 DEF Go, Loc, Thread, Resetting
  <2>2. ASSUME NEW l \in {"unreachable", "session", "giveup"}, ResetThen("login", l)
        PROVE  <1>4!1 /\ <1>4!2
    BY <1>1, <2>2 DEF ResetThen, Loc, Thread, Resetting
  <2> QED BY <1>3, <2>1, <2>2
<1> QED BY <1>2, <1>4

\* The three steps of SessionInitialized() that handle a provider.
LEMMA ProviderIs ==
  ASSUME TypeOK, Delete \/ Join \/ AppendChannels
  PROVE  /\ UNCHANGED connected /\ back'["epg"] = back["epg"]
         /\ pc["login"] \notin Resetting
         /\ \/ /\ Delete /\ provider = "live" /\ provider' = "live" /\ ~running'
               /\ pc'["epg"] = pc["epg"]
            \/ /\ Delete /\ provider # "live" /\ UNCHANGED <<provider, running>>
               /\ pc'["epg"] = pc["epg"] /\ Loc' # "join"
            \/ /\ Join /\ provider' = "freed" /\ UNCHANGED running
               /\ pc["epg"] = "done" /\ pc'["epg"] = "done" /\ Loc' # "join"
            \/ /\ AppendChannels /\ provider' = "live" /\ running'
               /\ pc'["epg"] = "sleep" /\ Loc' # "join"
<1>1. pc = [u \in Thread |-> pc[u]] /\ back = [u \in Thread |-> back[u]]
  BY DEF TypeOK
<1>2. CASE Delete
  <2>1. CASE provider = "live"
    BY <1>1, <1>2, <2>1 DEF Delete, At, Go, sessionVars, Thread, Resetting
  <2>2. CASE provider # "live"
    BY <1>1, <1>2, <2>2 DEF Delete, At, Go, sessionVars, Thread, Resetting, Loc
  <2> QED BY <2>1, <2>2
<1>3. CASE Join
  BY <1>1, <1>3 DEF Join, At, Go, sessionVars, Thread, Resetting, Loc
<1>4. CASE AppendChannels
  BY <1>1, <1>4 DEF AppendChannels, At, sessionVars, Thread, Resetting, Loc
<1> QED BY <1>2, <1>3, <1>4

\* A step of main(), outside Reset(), or from outside the process.
LEMMA MainIs ==
  ASSUME TypeOK,
         Connected \/ LoadChannels("main") \/ MainAppends \/ Request \/ StreamAnswer
           \/ Elapse \/ Expire \/ Race \/ UNCHANGED vars
  PROVE  /\ UNCHANGED <<connected, provider, running>>
         /\ pc'["epg"] = pc["epg"] /\ back'["epg"] = back["epg"]
         /\ Loc' = Loc
<1>1. pc = [u \in Thread |-> pc[u]] /\ back = [u \in Thread |-> back[u]]
  BY DEF TypeOK
<1>2. UNCHANGED <<connected, provider, running>>
  BY DEF Connected, LoadChannels, MainAppends, Request, StreamAnswer, Elapse, Expire, Race,
         vars, sessionVars
<1>3. UNCHANGED <<pc, back>> \/ \E l : Go("main", l) \/ ResetThen("main", l)
  BY DEF Connected, LoadChannels, MainAppends, Request, StreamAnswer, Elapse, Expire, Race, vars
<1>4. ASSUME NEW l, Go("main", l) \/ ResetThen("main", l)
      PROVE  \A u \in Thread \ {"main"} : pc'[u] = pc[u] /\ back'[u] = back[u]
  BY <1>1, <1>4 DEF Go, ResetThen
<1>5. \A u \in {"login", "epg"} : pc'[u] = pc[u] /\ back'[u] = back[u]
  BY <1>3, <1>4 DEF Thread
<1> QED BY <1>2, <1>5 DEF Loc

\* A step of the details thread outside Reset(): it leaves its loop only when
\* it was told to.
LEMMA EpgIs ==
  ASSUME TypeOK, Wake \/ VdrAnswers \/ Work \/ LoadEPG \/ Nap
  PROVE  /\ UNCHANGED <<connected, provider, running>>
         /\ pc["epg"] \notin {"none", "done"}
         /\ pc'["epg"] # "none" /\ (pc'["epg"] = "done" => ~running)
         /\ back'["epg"] # "done"
         /\ Loc' = Loc
<1>1. pc = [u \in Thread |-> pc[u]] /\ back = [u \in Thread |-> back[u]]
  BY DEF TypeOK
<1>2. pc["epg"] \in {"sleep", "vdr", "work", "load", "nap"} /\ back["epg"] = "none"
  BY DEF Wake, VdrAnswers, Work, LoadEPG, Nap, At, TypeOK, Thread, Resetting
<1>3. UNCHANGED <<connected, provider, running>>
  BY DEF Wake, VdrAnswers, Work, LoadEPG, Nap, sessionVars
<1>4. \/ \E l \in {"vdr", "work", "load", "nap"} : Go("epg", l)
      \/ Go("epg", "done") /\ ~running
      \/ ResetThen("epg", "nap")
  <2>1. CASE Work
    BY <2>1 DEF Work
  <2>2. CASE Wake \/ VdrAnswers \/ LoadEPG \/ Nap
    BY <2>2 DEF Wake, VdrAnswers, LoadEPG, Nap
  <2> QED BY <2>1, <2>2
<1> QED BY <1>1, <1>2, <1>3, <1>4 DEF Go, ResetThen, Loc, Thread

\* Initially there is no details thread, and none is to go on.
LEMMA InitGoesOn == Init => JInv
<1> SUFFICES ASSUME Init PROVE ThreadGoesOn
  BY InitHolds DEF JInv
<1> QED BY DEF Init, ThreadGoesOn, Loc, Resetting, Thread

\* The two facts about the details thread are kept by every step.
LEMMA StepGoesOn == JInv /\ [Next]_vars => JInv'
<1> SUFFICES ASSUME JInv, [Next]_vars PROVE ThreadGoesOn'
  BY StepHolds DEF JInv
<1>1. TypeOK /\ ThreadGoesOn
  BY DEF JInv, IInv
<1>2. CASE \E t \in Thread : Reset(t)
  BY <1>2, ResetGoesOn
<1>3. CASE Poll \/ LoadAppId \/ SendHello \/ HelloFails \/ GetSession \/ AccountLogin
             \/ Unreachable \/ GiveUp \/ LoadChannels("login") \/ Publish \/ Announce
  BY <1>1, <1>3, LoginIs DEF ThreadGoesOn
<1>4. CASE Delete \/ Join \/ AppendChannels
  BY <1>1, <1>4, ProviderIs DEF ThreadGoesOn
<1>5. CASE Connected \/ LoadChannels("main") \/ MainAppends \/ Request \/ StreamAnswer
             \/ Elapse \/ Expire \/ Race \/ UNCHANGED vars
  BY <1>1, <1>5, MainIs DEF ThreadGoesOn
<1>6. CASE Wake \/ VdrAnswers \/ Work \/ LoadEPG \/ Nap
  BY <1>1, <1>6, EpgIs DEF ThreadGoesOn
<1> QED
  BY <1>2, <1>3, <1>4, <1>5, <1>6 DEF Next, LoginStep, MainStep, EpgStep, Thread

\* What the stop flag, the provider and LoginThread()'s place say together.
LEMMA ProviderFacts ==
  ASSUME JInv
  PROVE  /\ connected \in BOOLEAN /\ running \in BOOLEAN
         /\ pc["epg"] \notin {"none", "done"} => provider = "live"
         /\ provider = "live" /\ Loc # "join" => running
         /\ running => pc["epg"] \notin {"none", "done"}
         /\ connected => provider = "live" /\ Loc \in {"poll", "announce"}
         /\ Loc = "publish" => provider = "live"
         /\ Loc = "append" => provider # "live"
         /\ Loc = "join" => provider = "live" /\ ~running
BY DEF JInv, IInv, TypeOK, EpgThreadHasProvider, ProviderRuns, SetupKnowsProvider,
       ConnectedIsIdle, ThreadGoesOn

\* Initially there is nothing to serve.
LEMMA InitServes == Init => ServedBy!Init
BY DEF Init, ServedBy!Init

\* Reset() takes the connection away, or nothing.
LEMMA ResetServes ==
  ASSUME JInv, NEW t \in Thread, Reset(t)
  PROVE  ServedBy!Disconnect \/ UNCHANGED ServedBy!vars
<1>1. TypeOK /\ ThreadGoesOn
  BY DEF JInv, IInv
<1>2. back["epg"] # "done" /\ (pc["epg"] \in Resetting => back["epg"] \notin {"none", "done"})
  BY <1>1 DEF ThreadGoesOn, TypeOK, Thread
<1>3. pc["epg"] \notin {"none", "done"} <=> pc'["epg"] \notin {"none", "done"}
  <2>1. CASE t = "epg"
    BY <1>1, <1>2, <2>1, ResetIs DEF Resetting
  <2>2. CASE t # "epg"
    BY <1>1, <2>2, ResetIs DEF Thread
  <2> QED BY <2>1, <2>2
<1>4. UNCHANGED <<provider, running>> /\ (connected' = connected \/ ~connected')
  BY <1>1, ResetIs
<1>5. connected \in BOOLEAN /\ connected' \in BOOLEAN
  <2>1. connected' = connected \/ connected' = FALSE
    BY DEF Reset, ResetConnected, ResetToken, ResetState
  <2> QED BY <1>1, <2>1 DEF TypeOK
<1>6. (provider = "live") = (provider' = "live")
      /\ (pc["epg"] \notin {"none", "done"}) = (pc'["epg"] \notin {"none", "done"})
  BY <1>3, <1>4
<1>7. CASE connected /\ ~connected'
  BY <1>4, <1>6, <1>7 DEF ServedBy!Disconnect
<1>8. CASE connected' = connected
  BY <1>4, <1>6, <1>8 DEF ServedBy!vars
<1> QED BY <1>4, <1>5, <1>7, <1>8

\* LoginThread() connects a session that is served.
LEMMA LoginServes ==
  ASSUME JInv,
         Poll \/ LoadAppId \/ SendHello \/ HelloFails \/ GetSession \/ AccountLogin
           \/ Unreachable \/ GiveUp \/ LoadChannels("login") \/ Publish \/ Announce
  PROVE  ServedBy!Connect \/ UNCHANGED ServedBy!vars
<1>1. TypeOK
  BY DEF JInv, IInv
<1>2. UNCHANGED <<provider, running>> /\ pc'["epg"] = pc["epg"]
      /\ (connected' = connected \/ Publish)
  BY <1>1, LoginIs
<1>3. (provider = "live") = (provider' = "live")
      /\ (pc["epg"] \notin {"none", "done"}) = (pc'["epg"] \notin {"none", "done"})
  BY <1>2
<1>4. CASE connected' = connected
  BY <1>2, <1>3, <1>4 DEF ServedBy!vars
<1>5. CASE Publish
  <2>1. Loc = "publish" /\ connected' = TRUE
    BY <1>5 DEF Publish, At, Loc, Resetting
  <2>2. ~connected /\ provider = "live" /\ running
    BY <2>1, ProviderFacts
  <2> QED BY <1>2, <1>3, <2>1, <2>2 DEF ServedBy!Connect
<1> QED BY <1>2, <1>4, <1>5

\* SessionInitialized() tells the details thread of a provider to stop, waits
\* for it, and creates the next provider; the second deletion of a provider
\* is a fault of which this says nothing.
LEMMA SetupServes ==
  ASSUME JInv, Delete \/ Join \/ AppendChannels
  PROVE  ServedBy!Stop \/ ServedBy!Retire \/ ServedBy!Create \/ UNCHANGED ServedBy!vars
<1>1. TypeOK
  BY DEF JInv, IInv
<1>2. UNCHANGED connected /\ Loc = pc["login"]
  BY <1>1, ProviderIs DEF Loc
<1>3. CASE Delete /\ provider = "live" /\ provider' = "live" /\ ~running'
             /\ pc'["epg"] = pc["epg"]
  <2>1. ~connected /\ running
    BY <1>2, <1>3, ProviderFacts DEF Delete, At
  <2> QED BY <1>2, <1>3, <2>1 DEF ServedBy!Stop
<1>4. CASE Delete /\ provider # "live" /\ UNCHANGED <<provider, running>>
             /\ pc'["epg"] = pc["epg"]
  BY <1>2, <1>4 DEF ServedBy!vars
<1>5. CASE Join /\ provider' = "freed" /\ UNCHANGED running
             /\ pc["epg"] = "done" /\ pc'["epg"] = "done"
  <2>1. ~connected /\ provider = "live" /\ ~running
    BY <1>2, <1>5, ProviderFacts DEF Join, At
  <2> QED BY <1>2, <1>5, <2>1 DEF ServedBy!Retire
<1>6. CASE AppendChannels /\ provider' = "live" /\ running' /\ pc'["epg"] = "sleep"
  <2>1. ~connected /\ provider # "live" /\ pc["epg"] \in {"none", "done"}
    BY <1>2, <1>6, ProviderFacts DEF AppendChannels, At
  <2> QED BY <1>2, <1>6, <2>1 DEF ServedBy!Create
<1> QED BY <1>1, <1>3, <1>4, <1>5, <1>6, ProviderIs

\* main() and what comes from outside.
LEMMA OutsideServes ==
  ASSUME JInv,
         Connected \/ LoadChannels("main") \/ MainAppends \/ Request \/ StreamAnswer
           \/ Elapse \/ Expire \/ Race \/ UNCHANGED vars
  PROVE  UNCHANGED ServedBy!vars
<1>1. TypeOK
  BY DEF JInv, IInv
<1> QED BY <1>1, MainIs DEF ServedBy!vars

\* The details thread works on, or leaves when it has been told to.
LEMMA EpgServes ==
  ASSUME JInv, Wake \/ VdrAnswers \/ Work \/ LoadEPG \/ Nap
  PROVE  ServedBy!Leave \/ UNCHANGED ServedBy!vars
<1>1. TypeOK
  BY DEF JInv, IInv
<1>2. UNCHANGED <<connected, provider, running>> /\ pc["epg"] \notin {"none", "done"}
  BY <1>1, EpgIs
<1>3. CASE pc'["epg"] = "done"
  <2>1. ~running
    BY <1>1, <1>3, EpgIs
  <2> QED BY <1>2, <1>3, <2>1 DEF ServedBy!Leave
<1>4. CASE pc'["epg"] # "done"
  <2>1. pc'["epg"] \notin {"none", "done"}
    BY <1>1, <1>4, EpgIs
  <2>2. (pc["epg"] \notin {"none", "done"}) = (pc'["epg"] \notin {"none", "done"})
    BY <1>2, <2>1
  <2> QED BY <1>2, <2>2 DEF ServedBy!vars
<1> QED BY <1>3, <1>4

\* Every step of the three threads is a step of ServedSession or none.
LEMMA StepServes == JInv /\ [Next]_vars => [ServedBy!Next]_ServedBy!vars
<1> SUFFICES ASSUME JInv, [Next]_vars PROVE [ServedBy!Next]_ServedBy!vars
  OBVIOUS
<1>1. CASE \E t \in Thread : Reset(t)
  BY <1>1, ResetServes DEF ServedBy!Next
<1>2. CASE Poll \/ LoadAppId \/ SendHello \/ HelloFails \/ GetSession \/ AccountLogin
             \/ Unreachable \/ GiveUp \/ LoadChannels("login") \/ Publish \/ Announce
  BY <1>2, LoginServes DEF ServedBy!Next
<1>3. CASE Delete \/ Join \/ AppendChannels
  BY <1>3, SetupServes DEF ServedBy!Next
<1>4. CASE Connected \/ LoadChannels("main") \/ MainAppends \/ Request \/ StreamAnswer
             \/ Elapse \/ Expire \/ Race \/ UNCHANGED vars
  BY <1>4, OutsideServes
<1>5. CASE Wake \/ VdrAnswers \/ Work \/ LoadEPG \/ Nap
  BY <1>5, EpgServes DEF ServedBy!Next
<1> QED
  BY <1>1, <1>2, <1>3, <1>4, <1>5 DEF Next, LoginStep, MainStep, EpgStep, Thread

\* The session with its three threads, Reset() in any of them, implements
\* ServedSession, for any number of failures of the servers.
THEOREM Refinement == Spec => IsServedSession
<1>1. Spec => []JInv
  BY InitGoesOn, StepGoesOn, PTL DEF Spec
<1> QED
  BY <1>1, InitServes, StepServes, PTL DEF Spec, IsServedSession, ServedBy!Spec

\* What ServedSession promises: a connected session has a provider and a
\* details thread that goes on.
LEMMA ServedStep ==
  ServedBy!Served /\ [ServedBy!Next]_ServedBy!vars => ServedBy!Served'
<1> SUFFICES ASSUME ServedBy!Served, [ServedBy!Next]_ServedBy!vars PROVE ServedBy!Served'
  OBVIOUS
<1> USE DEF ServedBy!Served
<1>1. CASE ServedBy!Create
  BY <1>1 DEF ServedBy!Create
<1>2. CASE ServedBy!Connect
  BY <1>2 DEF ServedBy!Connect
<1>3. CASE ServedBy!Disconnect
  BY <1>3 DEF ServedBy!Disconnect
<1>4. CASE ServedBy!Stop
  BY <1>4 DEF ServedBy!Stop
<1>5. CASE ServedBy!Leave
  BY <1>5 DEF ServedBy!Leave
<1>6. CASE ServedBy!Retire
  BY <1>6 DEF ServedBy!Retire
<1>7. CASE UNCHANGED ServedBy!vars
  BY <1>7 DEF ServedBy!vars
<1> QED BY <1>1, <1>2, <1>3, <1>4, <1>5, <1>6, <1>7 DEF ServedBy!Next

\* Whatever implements ServedSession keeps the promise, so the session does: a
\* connected session has a details thread, which gets the 403 when the
\* servers forget the session (DetailsThread(), LoginThread()).
THEOREM Promise == Spec => []ServedBy!Served
<1>1. ServedBy!Init => ServedBy!Served
  BY DEF ServedBy!Init, ServedBy!Served
<1>2. IsServedSession => []ServedBy!Served
  BY <1>1, ServedStep, PTL DEF IsServedSession, ServedBy!Spec
<1> QED BY <1>2, Refinement, PTL
=============================================================================
