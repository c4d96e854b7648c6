----------------------------- MODULE OAChannel ------------------------------
(***************************************************************************)
(* The web channel (pkg/channels/oaChannel): browser tabs, each a          *)
(* WebSocket connection with a session, and the map from sessions to       *)
(* clients by which answers find their tab.  A tab runs its handler and    *)
(* its read loop on one goroutine; the router sends from another, and Stop *)
(* closes the connections from a third.  A tab is one connection: it does  *)
(* not come back, another one may resume its session.                      *)
(***************************************************************************)
EXTENDS Sessions, Functions

CONSTANT Tab

ASSUME WebAssumption == Tab \subseteq Requester

VARIABLES
  tab,       \* the connections: where the handler is, its session, the session it
             \* was opened with, and whether the connection is closed under it
  clients,   \* g.clients: sessions to tabs
  stop,      \* how far the channel's end is: the interrupt, then Stop
  shared     \* history: sessions that more than one connection used

webVars == <<tab, clients, stop, shared>>

Where == {"none", "closed", "connecting", "open", "ending", "renewing", "replacing"}

WebTypeOK ==
  /\ tab \in [Tab -> [at : Where, session : Id, url : Id, broken : BOOLEAN]]
  /\ DOMAIN clients \subseteq Id /\ Range(clients) \subseteq Tab
  /\ stop \in {"running", "closing", "waiting", "stopped"}
  /\ shared \subseteq Id

At(here, id) == [at |-> here, session |-> id, url |-> id, broken |-> FALSE]

WebInit ==
  /\ tab = [t \in Tab |-> At("none", 0)]
  /\ clients = << >>
  /\ stop = "running"
  /\ shared = {}

\* sync.Map
Store(session, t) == [s \in DOMAIN clients \cup {session} |-> IF s = session THEN t ELSE clients[s]]
Delete(session) == Restrict(clients, DOMAIN clients \ {session})

Connected(t) == tab[t].at \notin {"none", "connecting", "closed"}

Users(session) == {t \in Tab : Connected(t) /\ session \in {tab[t].session, tab[t].url}}

Goto(t, there) == tab' = [tab EXCEPT ![t].at = there]
-----------------------------------------------------------------------------
\* A connection with a session id to resume, or with none: then the kernel is
\* asked for a new one.
WSHandler(t) ==
  /\ tab[t].at = "none"
  /\ \/ \E id \in DOMAIN conversations :
          /\ tab' = [tab EXCEPT ![t] = At("open", id)]
          /\ clients' = Store(id, t)
          /\ shared' = IF Users(id) = {} THEN shared ELSE shared \cup {id}
          /\ UNCHANGED sessionVars
     \/ /\ Publish(Event("new", "onlyagents", "executive", 0, t))
        /\ Goto(t, "connecting")
        /\ UNCHANGED <<conversations, replies, storeFailed, clients, shared>>
  /\ UNCHANGED stop

Register(t) ==
  /\ tab[t].at = "connecting"
  /\ replies[t] # NoReply
  /\ LET id == replies[t]
     IN IF id = 0
        THEN tab' = [tab EXCEPT ![t] = At("closed", 0)] /\ UNCHANGED <<clients, shared>>
        ELSE /\ tab' = [tab EXCEPT ![t] = At("open", id)]
             /\ clients' = Store(id, t)
             /\ shared' = IF Users(id) = {} THEN shared ELSE shared \cup {id}
  /\ replies' = [replies EXCEPT ![t] = NoReply]
  /\ UNCHANGED <<conversations, bus, storeFailed, stop>>

\* The browser gives up before the session is there.
GiveUp(t) ==
  /\ tab[t].at = "connecting"
  /\ tab' = [tab EXCEPT ![t] = At("closed", 0)]
  /\ Abandon(t)
  /\ UNCHANGED <<conversations, storeFailed, clients, stop, shared>>

\* The handler returns: its deferred Delete names the session it was opened with.
Leave(t) ==
  /\ tab[t].at = "open"
  /\ clients' = Delete(tab[t].url)
  /\ tab' = [tab EXCEPT ![t] = At("closed", 0)]
  /\ UNCHANGED <<sessionVars, stop, shared>>

\* The browser disconnects, or the read loop finds the connection closed.
Disconnect(t) == ~tab[t].broken /\ Leave(t)
ReadFails(t) == tab[t].broken /\ Leave(t)

handleMessage(t) ==
  /\ tab[t].at = "open" /\ ~tab[t].broken
  /\ Publish(Event("message", "onlyagents", "executive", tab[t].session, Nobody))
  /\ UNCHANGED <<conversations, replies, storeFailed, webVars>>

\* handleNewSession: two sends on the bus, a wait, and three writes that the
\* router's sends may come between.
AskForEnd(t) ==
  /\ tab[t].at = "open" /\ ~tab[t].broken
  /\ Publish(Event("end", "oaChannel", "executive", tab[t].session, Nobody))
  /\ Goto(t, "ending")
  /\ UNCHANGED <<conversations, replies, storeFailed, clients, stop, shared>>

AskForNew(t) ==
  /\ tab[t].at = "ending"
  /\ Publish(Event("new", "oaChannel", "executive", 0, t))
  /\ Goto(t, "renewing")
  /\ UNCHANGED <<conversations, replies, storeFailed, clients, stop, shared>>

\* Bug: the old entry stays.
KeepOldEntry(t) ==
  /\ tab[t].at = "renewing"
  /\ replies[t] # NoReply
  /\ Goto(t, "replacing")
  /\ UNCHANGED <<sessionVars, clients, stop, shared>>

ForgetOld(t) ==
  /\ tab[t].at = "renewing"
  /\ replies[t] # NoReply
  /\ clients' = Delete(tab[t].session)
  /\ Goto(t, "replacing")
  /\ UNCHANGED <<sessionVars, stop, shared>>

\* The new id may be the empty one.
EnterNew(t) ==
  /\ tab[t].at = "replacing"
  /\ LET id == replies[t]
     IN /\ tab' = [tab EXCEPT ![t].at = "open", ![t].session = id]
        /\ clients' = Store(id, t)
        /\ shared' = IF Users(id) \subseteq {t} THEN shared ELSE shared \cup {id}
  /\ replies' = [replies EXCEPT ![t] = NoReply]
  /\ UNCHANGED <<conversations, bus, storeFailed, stop>>

\* g.ctx is done while the tab waits for its new session.
StopsWaiting(t) ==
  /\ tab[t].at = "renewing" /\ stop # "running"
  /\ Goto(t, "open")
  /\ Abandon(t)
  /\ UNCHANGED <<conversations, storeFailed, clients, stop, shared>>
-----------------------------------------------------------------------------
\* Send, for the answer to a message.  The write loop of the client's tab sends it
\* on; without a client, or with a full buffer, it is dropped and Send succeeds.
Send ==
  /\ Take("message")
  /\ UNCHANGED <<conversations, replies, storeFailed, webVars>>

\* An interrupt cancels the context: the router ends, and waiting tabs go on.
Interrupt ==
  /\ stop = "running"
  /\ stop' = "closing"
  /\ UNCHANGED <<sessionVars, tab, clients, shared>>

\* Stop: the connections in the map are closed, then it waits for the write loops of
\* all connections.
CloseClients ==
  /\ stop = "closing"
  /\ stop' = "waiting"
  /\ tab' = [t \in Tab |-> IF t \in Range(clients) THEN [tab[t] EXCEPT !.broken = Connected(t)] ELSE tab[t]]
  /\ UNCHANGED <<sessionVars, clients, shared>>

WaitForWriters ==
  /\ stop = "waiting"
  /\ \A t \in Tab : ~Connected(t)
  /\ stop' = "stopped"
  /\ UNCHANGED <<sessionVars, tab, clients, shared>>

\* The router, until the context is cancelled.
Route == stop = "running" /\ (Send \/ (RouteSession /\ UNCHANGED webVars))

WebNext ==
  \/ \E t \in Tab :
       \/ WSHandler(t) \/ Register(t) \/ GiveUp(t) \/ Disconnect(t) \/ ReadFails(t)
       \/ handleMessage(t)
       \/ AskForEnd(t) \/ AskForNew(t) \/ ForgetOld(t) \/ EnterNew(t) \/ StopsWaiting(t)
  \/ Interrupt \/ CloseClients \/ WaitForWriters
  \/ Route
  \/ EndByAPI /\ UNCHANGED webVars

WebSpec == SessionInit /\ WebInit /\ [][WebNext]_<<sessionVars, webVars>>
-----------------------------------------------------------------------------
\* The map by which answers find their tab agrees with the tabs, even while they
\* renew their sessions, leave and resume each other's: the answers of a session
\* never go to a connected tab that is in another one, and a tab that is not
\* changing its session gets the answers of its session, unless another
\* connection used that session as well.
AnswersFindTheirTab ==
  /\ \A s \in DOMAIN clients : Connected(clients[s]) => tab[clients[s]].session = s
  /\ \A t \in Tab :
       (tab[t].at = "open" /\ tab[t].session \notin shared)
         => tab[t].session \in DOMAIN clients /\ clients[tab[t].session] = t
==============================================================================
