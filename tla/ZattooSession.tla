--------------------------- MODULE ZattooSession ---------------------------
(***************************************************************************)
(* The session of zattood with the Zattoo servers: src/zattoo/src/         *)
(* Session.cpp, SessionInitialized() and the channel list of ZatData.cpp,  *)
(* the life of ZattooEpgProvider and the requests of main() in             *)
(* zattood.cpp.                                                            *)
(*                                                                         *)
(* Three threads share the session without a lock: LoginThread() logs in   *)
(* and sets up, main() waits for the connection and then asks for streams, *)
(* the details thread of the EPG provider asks for the programme.  A       *)
(* request of any of them that is answered with 403 runs Reset() in that   *)
(* thread, one assignment at a time, beside whatever the others do.        *)
(*                                                                         *)
(* Abstracted: the contents of answers (what counts is whether the server  *)
(* knows the account), the waiting times (wait is TRUE until               *)
(* m_nextLoginAttempt), the three ways to find the application token, the  *)
(* four loads of an EPG round (one here) and a second Reset() that follows *)
(* another one of the same thread.  A request for a channel whose url is   *)
(* saved changes nothing and is left out.                                  *)
(***************************************************************************)
EXTENDS Naturals

CONSTANTS
  MaxTroubles,  \* how often the servers forget the session or fail to answer
  VdrRuns       \* VDR answers the list-of-channels command

ASSUME SessionAssumption == MaxTroubles \in Nat /\ VdrRuns \in BOOLEAN

VARIABLES
  session,    \* what the servers know of the session cookie
  connected,  \* m_isConnected
  state,      \* ConnectionState
  token,      \* m_appToken is not empty
  wait,       \* m_nextLoginAttempt is in the future
  provider,   \* m_epgProvider: NULL, an object, or one that was deleted
  running,    \* m_detailsThreadRunning
  own,        \* ownChannel of GetChannelStreamProperties()
  pc,         \* where each thread is
  back,       \* where it goes on after Reset()
  troubles,
  fault       \* what was done to memory that must not be

sessionVars == <<connected, state, token, wait>>
vars == <<session, sessionVars, provider, running, own, pc, back, troubles, fault>>

Thread == {"login", "main", "epg"}

Init ==
  /\ session \in {"none", "account"}    \* the cookie of an earlier process
  /\ connected = FALSE
  /\ state = "connecting"
  /\ token = FALSE
  /\ wait = FALSE
  /\ provider = "null"
  /\ running = FALSE
  /\ own = "none"
  /\ pc = [login |-> "poll", main |-> "wait", epg |-> "none"]
  /\ back = [t \in Thread |-> "none"]
  /\ troubles = 0
  /\ fault = "none"

Sound == fault = "none"
At(t, label) == pc[t] = label /\ Sound
Go(t, label) == pc' = [pc EXCEPT ![t] = label] /\ UNCHANGED back

\* Reset(), then label
ResetThen(t, label) ==
  /\ pc' = [pc EXCEPT ![t] = "reset"]
  /\ back' = [back EXCEPT ![t] = label]

Trouble == troubles < MaxTroubles /\ troubles' = troubles + 1
NoTrouble == UNCHANGED troubles

-----------------------------------------------------------------------------
(* Session::Reset(), also from ErrorStatusCode() *)

ResetConnected(t) ==
  /\ At(t, "reset")
  /\ connected' = FALSE
  /\ Go(t, "resetToken")
  /\ UNCHANGED <<session, state, token, wait, provider, running, own, troubles, fault>>

ResetToken(t) ==
  /\ At(t, "resetToken")
  /\ token' = FALSE
  /\ Go(t, "resetState")
  /\ UNCHANGED <<session, connected, state, wait, provider, running, own, troubles, fault>>

ResetState(t) ==
  /\ At(t, "resetState")
  /\ state' = "connecting"
  /\ pc' = [pc EXCEPT ![t] = back[t]]
  /\ back' = [back EXCEPT ![t] = "none"]
  /\ UNCHANGED <<session, connected, token, wait, provider, running, own, troubles, fault>>

-----------------------------------------------------------------------------
(* LoginThread() and Login() *)

\* Mutant: LoginThread() does not look at m_isConnected.
PollAnyway ==
  /\ At("login", "poll") /\ ~wait
  /\ Go("login", "appid")
  /\ UNCHANGED <<session, sessionVars, provider, running, own, troubles, fault>>

Poll ==
  /\ At("login", "poll") /\ ~connected /\ ~wait
  /\ Go("login", "appid")
  /\ UNCHANGED <<session, sessionVars, provider, running, own, troubles, fault>>

LoadAppId ==
  /\ At("login", "appid")
  /\ \/ token' = TRUE /\ Go("login", "hello") /\ NoTrouble
     \/ ~token /\ Trouble /\ ResetThen("login", "unreachable") /\ UNCHANGED token
  /\ UNCHANGED <<session, connected, state, wait, provider, running, own, fault>>

\* Login() ignores what SendHello() returns.
SendHello ==
  /\ At("login", "hello")
  /\ token
  /\ session' = IF session = "none" THEN "active" ELSE session
  /\ Go("login", "session")
  /\ UNCHANGED <<sessionVars, provider, running, own, troubles, fault>>

HelloFails ==
  /\ At("login", "hello")
  /\ IF token THEN Trouble ELSE NoTrouble
  /\ Go("login", "session") \/ ResetThen("login", "session")
  /\ UNCHANGED <<session, sessionVars, provider, running, own, fault>>

GetSession ==
  /\ At("login", "session")
  /\ \/ session = "none" /\ wait' = TRUE /\ Go("login", "poll") /\ NoTrouble
     \/ session = "active" /\ Go("login", "account") /\ NoTrouble /\ UNCHANGED wait
     \/ session = "account" /\ Go("login", "delete") /\ NoTrouble /\ UNCHANGED wait
     \/ Trouble /\ ResetThen("login", "unreachable") /\ UNCHANGED wait
  /\ UNCHANGED <<session, connected, state, token, provider, running, own, fault>>

AccountLogin ==
  /\ At("login", "account")
  /\ \/ session' = "account" /\ Go("login", "delete") /\ NoTrouble
     \/ Trouble /\ ResetThen("login", "giveup") /\ UNCHANGED session
  /\ UNCHANGED <<sessionVars, provider, running, own, fault>>

Unreachable ==
  /\ At("login", "unreachable")
  /\ state' = "unreachable"
  /\ wait' = TRUE
  /\ Go("login", "poll")
  /\ UNCHANGED <<session, connected, token, provider, running, own, troubles, fault>>

GiveUp ==
  /\ At("login", "giveup")
  /\ wait' = TRUE
  /\ Go("login", "poll")
  /\ UNCHANGED <<session, connected, state, token, provider, running, own, troubles, fault>>

Elapse ==
  /\ wait /\ Sound
  /\ wait' = FALSE
  /\ UNCHANGED <<session, connected, state, token, provider, running, own, pc, back, troubles, fault>>

-----------------------------------------------------------------------------
(* SessionInitialized(), LoadChannels() *)

\* delete m_epgProvider: the destructor stops the details thread and joins it,
\* and the pointer stays as it is.
Delete ==
  /\ At("login", "delete")
  /\ \/ provider = "null" /\ Go("login", "load") /\ UNCHANGED <<running, fault>>
     \/ provider = "live" /\ running' = FALSE /\ Go("login", "join") /\ UNCHANGED fault
     \/ provider = "freed" /\ fault' = "deletedTwice" /\ UNCHANGED <<running, pc, back>>
  /\ UNCHANGED <<session, sessionVars, provider, own, troubles>>

\* Mutant: the destructor does not join.
NotJoined ==
  /\ At("login", "join")
  /\ provider' = "freed"
  /\ Go("login", "load")
  /\ UNCHANGED <<session, sessionVars, running, own, troubles, fault>>

Join ==
  /\ At("login", "join")
  /\ pc["epg"] = "done"
  /\ provider' = "freed"
  /\ Go("login", "load")
  /\ UNCHANGED <<session, sessionVars, running, own, troubles, fault>>

\* Where a thread goes on when LoadChannels() returns false
Unloaded(t) == IF t = "login" THEN "giveup" ELSE "idle"

LoadChannels(t) ==
  /\ At(t, "load")
  /\ \/ session = "account" /\ Go(t, "append") /\ NoTrouble
     \/ session # "account" /\ ResetThen(t, Unloaded(t)) /\ NoTrouble
     \/ Trouble /\ Go(t, Unloaded(t))
  /\ UNCHANGED <<session, sessionVars, provider, running, own, fault>>

\* The channels are appended to the groups that are there; vectors that grow
\* move the channel ownChannel points to.  Then new ZattooEpgProvider.
AppendChannels ==
  /\ At("login", "append")
  /\ own' \in IF own = "none" THEN {"none"} ELSE {own, "dangling"}
  /\ provider' = "live"
  /\ running' = TRUE
  /\ pc' = [pc EXCEPT !["login"] = "publish", !["epg"] = "sleep"]
  /\ UNCHANGED <<session, sessionVars, back, troubles, fault>>

MainAppends ==
  /\ At("main", "append")
  /\ Go("main", "idle")
  /\ UNCHANGED <<session, sessionVars, provider, running, own, troubles, fault>>

Publish ==
  /\ At("login", "publish")
  /\ connected' = TRUE
  /\ Go("login", "announce")
  /\ UNCHANGED <<session, state, token, wait, provider, running, own, troubles, fault>>

\* Mutant: the login is not announced.
AnnounceNothing ==
  /\ At("login", "announce")
  /\ Go("login", "poll")
  /\ UNCHANGED <<session, sessionVars, provider, running, own, troubles, fault>>

Announce ==
  /\ At("login", "announce")
  /\ state' = "connected"
  /\ Go("login", "poll")
  /\ UNCHANGED <<session, connected, token, wait, provider, running, own, troubles, fault>>

\* Two threads use the channel groups, or the visible channels, and one of
\* them changes them.
Race ==
  /\ Sound
  /\ \/ pc["login"] = "append" /\ pc["main"] \in {"append", "idle"}
     \/ pc["main"] = "append" /\ pc["epg"] = "load"
  /\ fault' = "raced"
  /\ UNCHANGED <<session, sessionVars, provider, running, own, pc, back, troubles>>

-----------------------------------------------------------------------------
(* main() *)

Connected ==
  /\ At("main", "wait") /\ state = "connected"
  /\ Go("main", "load")
  /\ UNCHANGED <<session, sessionVars, provider, running, own, troubles, fault>>

\* A request on the fifo: ownChannel points into the channel groups while the
\* servers are asked for the url.
Request ==
  /\ At("main", "idle")
  /\ own' = "valid"
  /\ Go("main", "post")
  /\ UNCHANGED <<session, sessionVars, provider, running, troubles, fault>>

StreamAnswer ==
  /\ At("main", "post")
  /\ \/ session = "account" /\ own = "valid" /\ Go("main", "idle") /\ NoTrouble /\ UNCHANGED fault
     \/ session = "account" /\ own = "dangling" /\ fault' = "usedFreed" /\ NoTrouble /\ UNCHANGED <<pc, back>>
     \/ session # "account" /\ ResetThen("main", "idle") /\ NoTrouble /\ UNCHANGED fault
     \/ Trouble /\ Go("main", "idle") /\ UNCHANGED fault
  /\ own' = "none"
  /\ UNCHANGED <<session, sessionVars, provider, running>>

-----------------------------------------------------------------------------
(* DetailsThread() *)

\* It sleeps for ten seconds and main() looks at the state every three.
Wake ==
  /\ At("epg", "sleep")
  /\ ~(pc["main"] = "wait" /\ state = "connected")
  /\ Go("epg", "vdr")
  /\ UNCHANGED <<session, sessionVars, provider, running, own, troubles, fault>>

\* Until VDR has listed its channels the loop runs on, whatever
\* m_detailsThreadRunning is.
VdrAnswers ==
  /\ At("epg", "vdr") /\ VdrRuns
  /\ Go("epg", "work")
  /\ UNCHANGED <<session, sessionVars, provider, running, own, troubles, fault>>

\* Mutant: the loop of DetailsThread() does not look at m_detailsThreadRunning.
WorkForever ==
  /\ At("epg", "work")
  /\ Go("epg", "load")
  /\ UNCHANGED <<session, sessionVars, provider, running, own, troubles, fault>>

Work ==
  /\ At("epg", "work")
  /\ Go("epg", IF running THEN "load" ELSE "done")
  /\ UNCHANGED <<session, sessionVars, provider, running, own, troubles, fault>>

\* Mutant: the details thread's client has no status code handler.
LoadEPGUnhandled ==
  /\ At("epg", "load")
  /\ \/ Go("epg", "nap") /\ NoTrouble
     \/ Trouble /\ Go("epg", "nap")
  /\ UNCHANGED <<session, sessionVars, provider, running, own, fault>>

LoadEPG ==
  /\ At("epg", "load")
  /\ \/ session = "account" /\ Go("epg", "nap") /\ NoTrouble
     \/ session # "account" /\ ResetThen("epg", "nap") /\ NoTrouble
     \/ Trouble /\ Go("epg", "nap")
  /\ UNCHANGED <<session, sessionVars, provider, running, own, fault>>

Nap ==
  /\ At("epg", "nap")
  /\ Go("epg", "work")
  /\ UNCHANGED <<session, sessionVars, provider, running, own, troubles, fault>>

-----------------------------------------------------------------------------
\* The servers forget the session.
Expire ==
  /\ session = "account" /\ Trouble /\ Sound
  /\ session' = "none"
  /\ UNCHANGED <<sessionVars, provider, running, own, pc, back, fault>>

Reset(t) == ResetConnected(t) \/ ResetToken(t) \/ ResetState(t)

LoginStep ==
  \/ Reset("login")
  \/ Poll \/ LoadAppId \/ SendHello \/ HelloFails \/ GetSession \/ AccountLogin
  \/ Unreachable \/ GiveUp
  \/ Delete \/ Join \/ LoadChannels("login") \/ AppendChannels \/ Publish \/ Announce

MainStep ==
  \/ Reset("main")
  \/ Connected \/ LoadChannels("main") \/ MainAppends \/ StreamAnswer

EpgStep ==
  \/ Reset("epg")
  \/ Wake \/ VdrAnswers \/ Work \/ LoadEPG \/ Nap

Next ==
  \/ LoginStep \/ MainStep \/ EpgStep
  \/ Elapse \/ Request \/ Race \/ Expire

Spec == Init /\ [][Next]_vars

\* Every thread that can go on does, and waiting times end.  Reset() takes
\* microseconds and logins are at least a minute apart, so another thread does
\* not clear the token between LoadAppId() and SendHello() every time.
\* Nobody has to send a request.
FairSpec ==
  /\ Spec
  /\ WF_vars(LoginStep) /\ WF_vars(MainStep) /\ WF_vars(EpgStep) /\ WF_vars(Elapse)
  /\ SF_vars(SendHello)
-----------------------------------------------------------------------------
Label ==
  [login |-> {"poll", "appid", "hello", "session", "account", "unreachable", "giveup",
            "delete", "join", "load", "append", "publish", "announce"},
   main |-> {"wait", "load", "append", "idle", "post"},
   epg |-> {"none", "sleep", "vdr", "work", "load", "nap", "done"}]

Resetting == {"reset", "resetToken", "resetState"}

\* The range of every variable; a thread that is in Reset() knows where to go
\* on, and only then.
TypeOK ==
  /\ session \in {"none", "active", "account"}
  /\ connected \in BOOLEAN
  /\ state \in {"connecting", "unreachable", "connected"}
  /\ token \in BOOLEAN /\ wait \in BOOLEAN /\ running \in BOOLEAN
  /\ provider \in {"null", "live", "freed"}
  /\ own \in {"none", "valid", "dangling"}
  /\ troubles \in 0 .. MaxTroubles
  /\ fault \in {"none", "deletedTwice", "usedFreed", "raced"}
  /\ pc = [t \in Thread |-> pc[t]] /\ back = [t \in Thread |-> back[t]]
  /\ \A t \in Thread :
       IF pc[t] \in Resetting
         THEN back[t] \in Label[t] \ {"none"}
         ELSE pc[t] \in Label[t] /\ back[t] = "none"

\* The details thread uses the members of the provider it was started by: while
\* it runs, also in a Reset() of its own, the provider is not deleted, although
\* it is another thread that deletes it (ZattooEpgProvider.cpp, destructor).
EpgThreadHasProvider == pc["epg"] \notin {"none", "done"} => provider = "live"

\* While the session is connected there is a provider with a details thread
\* that has not been told to stop, and LoginThread() is not about to replace
\* it, whichever threads reset the session in between.
ConnectedIsServed ==
  connected => /\ provider = "live"
               /\ running
               /\ {pc["login"], back["login"]} \cap {"delete", "join", "load", "append"} = {}

\* A provider is only created when no details thread is left of an earlier one.
OneDetailsThread ==
  [][provider # "live" /\ provider' = "live" => pc["epg"] \in {"none", "done"}]_vars

\* Whatever the three threads do, a provider is replaced as a whole: its thread
\* is told to stop and has ended before the provider is deleted, and this never
\* happens to a session that is connected (SessionInitialized(), Reset(), the
\* destructor of ZattooEpgProvider).
ServedBy == INSTANCE ServedSession WITH
              provider <- provider = "live",
              thread <- pc["epg"] \notin {"none", "done"}
IsServedSession == ServedBy!Spec

\* After a Reset(), whoever ran it, LoginThread() connects again, if nothing
\* breaks memory on the way (Session.cpp, "Try to re-init session").
Reinit == (~connected ~> connected \/ ~Sound)

\* A session that the servers have forgotten is logged in again even if no
\* stream is asked for: the details thread gets the 403.
SessionRecovers == (session # "account" ~> session = "account" \/ ~Sound)

\* main() comes to wait for requests on the fifo, and comes back to it.
MainServes == (pc["main"] # "idle" ~> pc["main"] = "idle" \/ ~Sound)

\* A provider is deleted once, also when the new login after a 403 does not
\* succeed at once (Session.cpp, "Try to re-init session").
DeletedOnce == fault # "deletedTwice"
=============================================================================
