---------------------------- MODULE ChannelProofs ----------------------------
(***************************************************************************)
(* What holds around the kernel for all sets of tabs, chats, handlers and  *)
(* turns, and all sizes of the bus and of what is bounded for the search.  *)
(***************************************************************************)
EXTENDS OAChannel, Telegram, TokenBudget, GeminiCache, Access, Lifecycle, TLAPS, FiniteSetTheorems

USE SessionsAssumption, WebAssumption, TelegramAssumption

\* Rows and events as they are: all agents are the executive.
SessionRow == [channel : ChannelName, agent : {"executive"}, ended : BOOLEAN]
SessionEvent ==
  [type : EventType, channel : ChannelName, agent : {"executive"}, session : Id,
   from : Requester \cup {Nobody}]

SessionTypes ==
  /\ conversations \in Seq(SessionRow) /\ Len(conversations) <= MaxConversations
  /\ bus \in Seq(SessionEvent) /\ Len(bus) <= BusSize
  /\ replies \in [Requester -> Id \cup {NoReply}]
  /\ storeFailed \in BOOLEAN

LEMMA SessionTypesOK == SessionTypes => SessionTypeOK
<1> SUFFICES ASSUME SessionTypes PROVE SessionTypeOK
  OBVIOUS
<1>1. \A i \in DOMAIN conversations : conversations[i] \in SessionRow
  BY DEF SessionTypes
<1>2. \A i \in DOMAIN bus : bus[i] \in SessionEvent
  BY DEF SessionTypes
<1> QED
  BY <1>1, <1>2 DEF SessionTypes, SessionTypeOK, SessionRow, SessionEvent

LEMMA SessionTypesInit == SessionInit => SessionTypes
<1> SUFFICES ASSUME SessionInit PROVE SessionTypes
  OBVIOUS
<1>1. conversations \in Seq(SessionRow) /\ Len(conversations) <= MaxConversations
  BY DEF SessionInit
<1>2. bus \in Seq(SessionEvent) /\ Len(bus) <= BusSize
  BY DEF SessionInit
<1> QED
  BY <1>1, <1>2 DEF SessionInit, SessionTypes

\* Rows that were there stay, with one of them ended.
LEMMA Ended ==
  ASSUME NEW rows \in Seq(SessionRow), NEW id
  PROVE  /\ EndConversation(rows, id) \in Seq(SessionRow)
         /\ Len(EndConversation(rows, id)) = Len(rows)
         /\ \A i \in 1 .. Len(rows) :
              /\ EndConversation(rows, id)[i].channel = rows[i].channel
              /\ EndConversation(rows, id)[i].ended <=> (rows[i].ended \/ i = id)
<1> DEFINE after == [i \in 1 .. Len(rows) |-> IF i = id THEN [rows[i] EXCEPT !.ended = TRUE] ELSE rows[i]]
<1>1. EndConversation(rows, id) = after
  BY DEF EndConversation
<1>2. \A i \in 1 .. Len(rows) : rows[i] \in SessionRow
  OBVIOUS
<1>3. \A i \in 1 .. Len(rows) : after[i] \in SessionRow
  BY <1>2 DEF SessionRow
<1>4. after \in Seq(SessionRow) /\ Len(after) = Len(rows)
  BY <1>3
<1>5. \A i \in 1 .. Len(rows) : /\ after[i].channel = rows[i].channel
                                /\ after[i].ended <=> (rows[i].ended \/ i = id)
  BY <1>2 DEF SessionRow
<1> QED
  BY <1>1, <1>4, <1>5

\* A send on the bus.
LEMMA Published ==
  ASSUME SessionTypes, NEW e \in SessionEvent, Publish(e)
  PROVE  bus' \in Seq(SessionEvent) /\ Len(bus') <= BusSize
BY DEF SessionTypes, Publish

\* The router takes the next event.
LEMMA TakenFromBus ==
  ASSUME SessionTypes, NEW type, Take(type)
  PROVE  /\ Head(bus) \in SessionEvent
         /\ bus' \in Seq(SessionEvent) /\ Len(bus') <= BusSize
BY DEF SessionTypes, Take

\* A reply that is there is not taken away, though another may take its place.
RepliesStay == \A r \in Requester : replies[r] # NoReply => replies'[r] # NoReply

LEMMA Replied ==
  ASSUME SessionTypes, NEW id \in Id, Head(bus) \in SessionEvent, Reply(id)
  PROVE  replies' \in [Requester -> Id \cup {NoReply}] /\ RepliesStay
<1>1. id # NoReply
  BY DEF Id, NoReply
<1> QED
  BY <1>1 DEF SessionTypes, Reply, SessionEvent, RepliesStay

\* A new row, if it was stored, is the last one.
LEMMA NewRow ==
  ASSUME SessionTypes, NEW rows \in Seq(SessionRow), NEW stored \in BOOLEAN,
         Len(rows) = Len(conversations), Head(bus) \in SessionEvent,
         NewSession(rows, Head(bus), stored)
  PROVE  /\ conversations' \in Seq(SessionRow) /\ Len(conversations') <= MaxConversations
         /\ replies' \in [Requester -> Id \cup {NoReply}] /\ RepliesStay
         /\ ~stored => conversations' = rows
         /\ stored => /\ Len(conversations') = Len(rows) + 1
                      /\ \A i \in 1 .. Len(rows) : conversations'[i] = rows[i]
                      /\ conversations'[Len(rows) + 1].channel = Head(bus).channel
<1> DEFINE row == [channel |-> Head(bus).channel, agent |-> Head(bus).agent, ended |-> FALSE]
<1>1. row \in SessionRow /\ row.channel = Head(bus).channel
  BY DEF SessionRow, SessionEvent
<1>2. CASE stored
  <2>1. conversations' = Append(rows, row) /\ Len(rows) + 1 \in Id /\ Reply(Len(rows) + 1)
    BY <1>2 DEF NewSession, CreateConversation, Id
  <2>2. replies' \in [Requester -> Id \cup {NoReply}] /\ RepliesStay
    BY <2>1, Replied
  <2> HIDE DEF row
  <2> QED
    BY <1>1, <1>2, <2>1, <2>2 DEF Id
<1>3. CASE ~stored
  <2>1. conversations' = rows /\ 0 \in Id /\ Reply(0)
    BY <1>3 DEF NewSession, Id
  <2> QED
    BY <1>3, <2>1, Replied DEF SessionTypes
<1> QED
  BY <1>2, <1>3

\* A conversation that is found is a row.
LEMMA FoundIsRow ==
  ASSUME SessionTypes, NEW channel, NEW agent,
         NEW i \in GetActiveConversationByChannel(channel, agent)
  PROVE  i \in 1 .. Len(conversations) /\ i \in Id
<1>1. i \in DOMAIN conversations
  BY DEF GetActiveConversationByChannel
<1>2. conversations \in Seq(SessionRow) /\ Len(conversations) <= MaxConversations
  BY DEF SessionTypes
<1>3. DOMAIN conversations = 1 .. Len(conversations) /\ Len(conversations) \in Nat
  BY <1>2
<1> QED
  BY <1>1, <1>2, <1>3 DEF Id

\* One session request: the rows stay but for the ended ones, with at most one more.
LEMMA RouteSessionTypes ==
  ASSUME SessionTypes, RouteSession \/ EndByAPI
  PROVE  SessionTypes' /\ RepliesStay
<1>1. CASE handleSessionNew
  <2>1. Head(bus) \in SessionEvent /\ bus' \in Seq(SessionEvent) /\ Len(bus') <= BusSize
    BY <1>1, TakenFromBus DEF handleSessionNew
  <2>2. PICK stored \in BOOLEAN :
          \/ \E old : NewSession(EndConversation(conversations, old), Head(bus), stored)
          \/ NewSession(conversations, Head(bus), stored)
    BY <1>1 DEF handleSessionNew
  <2>3. /\ conversations' \in Seq(SessionRow) /\ Len(conversations') <= MaxConversations
        /\ replies' \in [Requester -> Id \cup {NoReply}] /\ RepliesStay
    BY <2>1, <2>2, NewRow, Ended DEF SessionTypes
  <2>4. storeFailed' \in BOOLEAN
    BY <1>1 DEF handleSessionNew, Failing, SessionTypes
  <2> QED
    BY <2>1, <2>3, <2>4 DEF SessionTypes
<1>2. CASE handleSessionEnsure
  <2>1. Head(bus) \in SessionEvent /\ bus' \in Seq(SessionEvent) /\ Len(bus') <= BusSize
    BY <1>2, TakenFromBus DEF handleSessionEnsure
  <2>2. CASE \E id \in GetActiveConversationByChannel(Head(bus).channel, Head(bus).agent) :
               Reply(id) /\ UNCHANGED <<conversations, storeFailed>>
    BY <2>1, <2>2, FoundIsRow, Replied DEF SessionTypes
  <2>3. CASE \E stored \in BOOLEAN : NewSession(conversations, Head(bus), stored)
    <3>1. storeFailed' \in BOOLEAN
      BY <1>2 DEF handleSessionEnsure, Failing, SessionTypes
    <3> QED
      BY <2>1, <2>3, <3>1, NewRow DEF SessionTypes
  <2> QED
    BY <1>2, <2>2, <2>3 DEF handleSessionEnsure
<1>3. CASE handleSessionEnd
  <2>1. bus' \in Seq(SessionEvent) /\ Len(bus') <= BusSize
    BY <1>3, TakenFromBus DEF handleSessionEnd
  <2>2. conversations' \in Seq(SessionRow) /\ Len(conversations') <= MaxConversations
    BY <1>3, Ended DEF handleSessionEnd, SessionTypes
  <2> QED
    BY <1>3, <2>1, <2>2 DEF handleSessionEnd, SessionTypes, RepliesStay
<1>4. CASE EndByAPI
  BY <1>4, Ended DEF EndByAPI, SessionTypes, RepliesStay
<1> QED
  BY <1>1, <1>2, <1>3, <1>4 DEF RouteSession
-----------------------------------------------------------------------------
\* While the store works, the active conversations of a channel are one.
ActiveOnce(rows) ==
  \A i, j \in 1 .. Len(rows) :
    (~rows[i].ended /\ ~rows[j].ended /\ rows[i].channel = rows[j].channel) => i = j

OnlyActive == storeFailed \/ ActiveOnce(conversations)

\* The active conversation of a channel is found, when the lookup does not fail.
LEMMA Found ==
  ASSUME SessionTypes, NEW channel, NEW i \in 1 .. Len(conversations),
         conversations[i].channel = channel, ~conversations[i].ended
  PROVE  i \in GetActiveConversationByChannel(channel, "executive")
<1>1. conversations[i] \in SessionRow /\ i \in DOMAIN conversations
  BY DEF SessionTypes
<1> QED
  BY <1>1 DEF SessionRow, GetActiveConversationByChannel

LEMMA EndedOnce ==
  ASSUME NEW rows \in Seq(SessionRow), ActiveOnce(rows), NEW id
  PROVE  ActiveOnce(EndConversation(rows, id))
<1>1. /\ Len(EndConversation(rows, id)) = Len(rows)
      /\ \A i \in 1 .. Len(rows) :
           /\ EndConversation(rows, id)[i].channel = rows[i].channel
           /\ ~EndConversation(rows, id)[i].ended => ~rows[i].ended
  BY Ended
<1> QED
  BY <1>1 DEF ActiveOnce

\* A new row is active alone, if its channel had no active row before.
LEMMA NewOnce ==
  ASSUME SessionTypes, NEW rows \in Seq(SessionRow), NEW stored \in BOOLEAN,
         Len(rows) = Len(conversations), Head(bus) \in SessionEvent,
         NewSession(rows, Head(bus), stored), ActiveOnce(rows),
         \A i \in 1 .. Len(rows) : rows[i].channel = Head(bus).channel => rows[i].ended
  PROVE  ActiveOnce(conversations')
<1>1. CASE ~stored
  BY <1>1, NewRow
<1>2. CASE stored
  <2>1. /\ Len(conversations') = Len(rows) + 1
        /\ \A i \in 1 .. Len(rows) : conversations'[i] = rows[i]
        /\ conversations'[Len(rows) + 1].channel = Head(bus).channel
    BY <1>2, NewRow
  <2>2. Len(rows) \in Nat
    OBVIOUS
  <2> SUFFICES ASSUME NEW i \in 1 .. Len(rows) + 1, NEW j \in 1 .. Len(rows) + 1,
                      ~conversations'[i].ended, ~conversations'[j].ended,
                      conversations'[i].channel = conversations'[j].channel
               PROVE  i = j
    BY <2>1 DEF ActiveOnce
  <2>3. CASE i \in 1 .. Len(rows) /\ j \in 1 .. Len(rows)
    BY <2>1, <2>3 DEF ActiveOnce
  <2>4. CASE i = Len(rows) + 1 /\ j \in 1 .. Len(rows)
    BY <2>1, <2>4
  <2>5. CASE j = Len(rows) + 1 /\ i \in 1 .. Len(rows)
    BY <2>1, <2>5
  <2>6. \A k \in 1 .. Len(rows) + 1 : k \in 1 .. Len(rows) \/ k = Len(rows) + 1
    BY <2>2
  <2> QED
    BY <2>3, <2>4, <2>5, <2>6
<1> QED
  BY <1>1, <1>2

LEMMA RouteSessionOnce ==
  ASSUME SessionTypes, OnlyActive, RouteSession \/ EndByAPI
  PROVE  OnlyActive'
<1> SUFFICES ASSUME ~storeFailed' PROVE ActiveOnce(conversations')
  BY DEF OnlyActive
<1> DEFINE theActive == GetActiveConversationByChannel(Head(bus).channel, Head(bus).agent)
<1>0. conversations \in Seq(SessionRow)
  BY DEF SessionTypes
<1>1. CASE handleSessionNew
  <2>1. Head(bus) \in SessionEvent /\ Head(bus).agent = "executive"
    BY <1>1, TakenFromBus DEF handleSessionNew, SessionEvent
  <2>2. PICK stored \in BOOLEAN :
          /\ Failing(~stored)
          /\ \/ \E old \in theActive : NewSession(EndConversation(conversations, old), Head(bus), stored)
             \/ theActive = {} /\ NewSession(conversations, Head(bus), stored)
    BY <1>1 DEF handleSessionNew, Failing
  <2>3. ActiveOnce(conversations)
    BY <2>2 DEF Failing, OnlyActive
  <2>4. CASE theActive = {} /\ NewSession(conversations, Head(bus), stored)
    <3>1. \A i \in 1 .. Len(conversations) :
            conversations[i].channel = Head(bus).channel => conversations[i].ended
      BY <2>1, <2>4, Found
    <3> QED
      BY <1>0, <2>1, <2>3, <2>4, <3>1, NewOnce
  <2>5. ASSUME NEW old \in theActive, NewSession(EndConversation(conversations, old), Head(bus), stored)
        PROVE  ActiveOnce(conversations')
    <3> DEFINE rows == EndConversation(conversations, old)
    <3>1. /\ rows \in Seq(SessionRow) /\ Len(rows) = Len(conversations)
          /\ \A i \in 1 .. Len(rows) : /\ rows[i].channel = conversations[i].channel
                                       /\ rows[i].ended <=> (conversations[i].ended \/ i = old)
      BY <1>0, Ended
    <3>2. ActiveOnce(rows)
      BY <1>0, <2>3, EndedOnce
    <3>3. /\ old \in 1 .. Len(conversations) /\ ~conversations[old].ended
          /\ conversations[old].channel = Head(bus).channel
      <4>1. old \in 1 .. Len(conversations)
        BY FoundIsRow
      <4> QED
        BY <4>1 DEF GetActiveConversationByChannel
    <3>4. \A i \in 1 .. Len(rows) : rows[i].channel = Head(bus).channel => rows[i].ended
      BY <2>3, <3>1, <3>3 DEF ActiveOnce, SessionRow
    <3> HIDE DEF rows
    <3> QED
      BY <2>1, <2>5, <3>1, <3>2, <3>4, NewOnce DEF rows
  <2> QED
    BY <2>2, <2>4, <2>5
<1>2. CASE handleSessionEnsure
  <2>1. Head(bus) \in SessionEvent /\ Head(bus).agent = "executive"
    BY <1>2, TakenFromBus DEF handleSessionEnsure, SessionEvent
  <2>2. CASE UNCHANGED <<conversations, storeFailed>>
    BY <2>2 DEF OnlyActive
  <2>3. CASE \E stored \in BOOLEAN :
               NewSession(conversations, Head(bus), stored) /\ Failing(~stored \/ theActive # {})
    <3>1. theActive = {} /\ ActiveOnce(conversations)
      BY <2>3 DEF Failing, OnlyActive
    <3>2. \A i \in 1 .. Len(conversations) :
            conversations[i].channel = Head(bus).channel => conversations[i].ended
      BY <2>1, <3>1, Found
    <3> QED
      BY <1>0, <2>1, <2>3, <3>1, <3>2, NewOnce
  <2> QED
    BY <1>2, <2>2, <2>3 DEF handleSessionEnsure
<1>3. CASE handleSessionEnd
  BY <1>0, <1>3, EndedOnce DEF handleSessionEnd, OnlyActive
<1>4. CASE EndByAPI
  BY <1>0, <1>4, EndedOnce DEF EndByAPI, OnlyActive
<1> QED
  BY <1>1, <1>2, <1>3, <1>4 DEF RouteSession

LEMMA OnlyActiveIsOne == SessionTypes /\ OnlyActive => OneActive
<1> SUFFICES ASSUME SessionTypes, ActiveOnce(conversations), NEW channel \in ChannelName
             PROVE  Cardinality(GetActiveConversationByChannel(channel, "executive")) <= 1
  BY DEF OnlyActive, OneActive
<1> DEFINE A == GetActiveConversationByChannel(channel, "executive")
<1>1. \A i, j \in A : i = j
  BY DEF SessionTypes, ActiveOnce, GetActiveConversationByChannel
<1>2. CASE A = {}
  BY <1>2, FS_EmptySet
<1>3. CASE A # {}
  <2>1. PICK i : A = {i}
    BY <1>1, <1>3
  <2> QED
    BY <2>1, FS_Singleton
<1> QED
  BY <1>2, <1>3
-----------------------------------------------------------------------------
\* The web channel's state.
TabState == [at : Where, session : Id, url : Id, broken : BOOLEAN]

WebTypes ==
  /\ tab \in [Tab -> TabState]
  /\ clients \in [DOMAIN clients -> Tab] /\ DOMAIN clients \subseteq Id
  /\ stop \in {"running", "closing", "waiting", "stopped"}
  /\ shared \subseteq Id

LEMMA WebTypesOK == WebTypes => WebTypeOK
BY DEF WebTypes, WebTypeOK, TabState, Range

LEMMA WebTypesInit == WebInit => WebTypes
<1> SUFFICES ASSUME WebInit PROVE WebTypes
  OBVIOUS
<1>1. At("none", 0) \in TabState
  BY DEF At, TabState, Where, Id
<1>2. clients \in [DOMAIN clients -> Tab] /\ DOMAIN clients = {}
  BY DEF WebInit
<1> QED
  BY <1>1, <1>2 DEF WebInit, WebTypes

\* sync.Map: what is under the other sessions stays.
LEMMA Stored ==
  ASSUME WebTypes, NEW s \in Id, NEW t \in Tab, clients' = Store(s, t)
  PROVE  /\ DOMAIN clients' = DOMAIN clients \cup {s}
         /\ clients' \in [DOMAIN clients' -> Tab] /\ DOMAIN clients' \subseteq Id
         /\ clients'[s] = t
         /\ \A r \in DOMAIN clients \ {s} : clients'[r] = clients[r]
BY DEF WebTypes, Store

LEMMA Deleted ==
  ASSUME WebTypes, NEW s, clients' = Delete(s)
  PROVE  /\ DOMAIN clients' = DOMAIN clients \ {s}
         /\ clients' \in [DOMAIN clients' -> Tab] /\ DOMAIN clients' \subseteq Id
         /\ \A r \in DOMAIN clients \ {s} : clients'[r] = clients[r]
BY DEF WebTypes, Delete, Restrict

\* The other tabs stay as they are.
Others(t) == \A u \in Tab \ {t} : tab'[u] = tab[u]

LEMMA Gone ==
  ASSUME WebTypes, NEW t \in Tab, NEW there \in Where, Goto(t, there)
  PROVE  /\ tab' \in [Tab -> TabState] /\ Others(t)
         /\ tab'[t].at = there
         /\ tab'[t].session = tab[t].session /\ tab'[t].url = tab[t].url
BY DEF WebTypes, Goto, TabState, Others

LEMMA Placed ==
  ASSUME WebTypes, NEW t \in Tab, NEW there \in Where, NEW id \in Id,
         tab' = [tab EXCEPT ![t] = At(there, id)]
  PROVE  /\ tab' \in [Tab -> TabState] /\ Others(t)
         /\ tab'[t].at = there /\ tab'[t].session = id /\ tab'[t].url = id
BY DEF WebTypes, At, TabState, Others

\* A requester that leaves is forgotten on the bus.
LEMMA Abandoned ==
  ASSUME SessionTypes, NEW r \in Requester, Abandon(r), UNCHANGED <<conversations, storeFailed>>
  PROVE  SessionTypes' /\ \A q \in Requester \ {r} : replies'[q] = replies[q]
<1>1. Len(bus) \in Nat /\ DOMAIN bus = 1 .. Len(bus) /\ \A i \in 1 .. Len(bus) : bus[i] \in SessionEvent
  BY DEF SessionTypes
<1> DEFINE after == [i \in 1 .. Len(bus) |-> IF bus[i].from = r THEN [bus[i] EXCEPT !.from = Nobody] ELSE bus[i]]
<1>2. \A i \in 1 .. Len(bus) : after[i] \in SessionEvent
  BY <1>1 DEF SessionEvent
<1>3. after \in Seq(SessionEvent) /\ Len(after) = Len(bus)
  BY <1>1, <1>2
<1>4. bus' = after
  BY <1>1 DEF Abandon
<1>5. /\ replies' \in [Requester -> Id \cup {NoReply}]
      /\ \A q \in Requester \ {r} : replies'[q] = replies[q]
  BY DEF Abandon, SessionTypes
<1> QED
  BY <1>3, <1>4, <1>5 DEF SessionTypes

\* A request of a channel: rows and replies stay.
LEMMA Asked ==
  ASSUME SessionTypes, NEW e \in SessionEvent, Publish(e),
         UNCHANGED <<conversations, replies, storeFailed>>
  PROVE  SessionTypes'
BY Published DEF SessionTypes

\* A reply is read.
LEMMA ReplyRead ==
  ASSUME SessionTypes, NEW r \in Requester, replies' = [replies EXCEPT ![r] = NoReply],
         UNCHANGED <<conversations, bus, storeFailed>>
  PROVE  /\ SessionTypes'
         /\ \A q \in Requester \ {r} : replies'[q] = replies[q]
BY DEF SessionTypes

LEMMA ReadId ==
  ASSUME SessionTypes, NEW r \in Requester, replies[r] # NoReply
  PROVE  replies[r] \in Id
BY DEF SessionTypes

\* The events of the web channel.
LEMMA WebEvents ==
  ASSUME NEW type \in EventType, NEW channel \in ChannelName, NEW session \in Id,
         NEW from \in Requester \cup {Nobody}
  PROVE  Event(type, channel, "executive", session, from) \in SessionEvent
BY DEF Event, SessionEvent
-----------------------------------------------------------------------------
\* What a tab in each stage finds in the map and among the other tabs.
EntriesFit ==
  \A s \in DOMAIN clients :
    /\ Connected(clients[s]) => tab[clients[s]].session = s /\ tab[clients[s]].at # "replacing"
    /\ tab[clients[s]].at \notin {"none", "connecting"}

TabsAreFound ==
  \A t \in Tab :
    (tab[t].at \in {"open", "ending", "renewing"} /\ tab[t].session \notin shared)
      => tab[t].session \in DOMAIN clients /\ clients[tab[t].session] = t

Uses(t) == {tab[t].session, tab[t].url}

UsersShare ==
  \A t, u \in Tab : t # u /\ Connected(t) /\ Connected(u) => Uses(t) \cap Uses(u) \subseteq shared

ReplyIsThere == \A t \in Tab : tab[t].at = "replacing" => replies[t] # NoReply

WebSound == EntriesFit /\ TabsAreFound /\ UsersShare /\ ReplyIsThere

\* A step that leaves the map and the sessions of the tabs as they are.
LEMMA WebQuiet ==
  ASSUME SessionTypes, WebTypes, WebSound, UNCHANGED <<clients, shared>>, RepliesStay,
         \A t \in Tab : /\ tab'[t].session = tab[t].session /\ tab'[t].url = tab[t].url
                        /\ tab'[t].at = tab[t].at
  PROVE  WebSound'
<1>1. \A t \in Tab : Connected(t)' <=> Connected(t)
  BY DEF Connected
<1>2. \A t \in Tab : Uses(t)' = Uses(t)
  BY DEF Uses
<1>3. \A s \in DOMAIN clients : clients[s] \in Tab
  BY DEF WebTypes
<1>4. EntriesFit'
  BY <1>1, <1>3 DEF WebSound, EntriesFit
<1>5. TabsAreFound'
  BY DEF WebSound, TabsAreFound
<1>6. UsersShare'
  BY <1>1, <1>2 DEF WebSound, UsersShare
<1>7. ReplyIsThere'
  BY DEF WebSound, ReplyIsThere, RepliesStay
<1> QED
  BY <1>4, <1>5, <1>6, <1>7 DEF WebSound

\* The replies of the other tabs are not taken away.
OthersReplies(t) == \A u \in Tab \ {t} : replies[u] # NoReply => replies'[u] # NoReply

\* A tab goes on with the session it has.
LEMMA WebMoves ==
  ASSUME WebTypes, WebSound, NEW t \in Tab, NEW there \in {"open", "ending", "renewing"},
         tab[t].at \in {"open", "ending", "renewing"}, Goto(t, there),
         UNCHANGED <<clients, shared>>, OthersReplies(t)
  PROVE  WebSound'
<1>1. /\ Others(t) /\ tab'[t].at = there
      /\ tab'[t].session = tab[t].session /\ tab'[t].url = tab[t].url
  BY Gone DEF Where
<1>2. \A u \in Tab : Connected(u)' <=> Connected(u)
  BY <1>1 DEF Connected, Others
<1>3. \A u \in Tab : Uses(u)' = Uses(u) /\ tab'[u].session = tab[u].session
  BY <1>1 DEF Uses, Others
<1>4. \A s \in DOMAIN clients : clients[s] \in Tab
  BY DEF WebTypes
<1>5. EntriesFit'
  BY <1>1, <1>2, <1>3, <1>4 DEF WebSound, EntriesFit, Others
<1>6. TabsAreFound'
  BY <1>1, <1>3 DEF WebSound, TabsAreFound, Others
<1>7. UsersShare'
  BY <1>2, <1>3 DEF WebSound, UsersShare
<1>8. ReplyIsThere'
  BY <1>1 DEF WebSound, ReplyIsThere, Others, OthersReplies
<1> QED
  BY <1>5, <1>6, <1>7, <1>8 DEF WebSound

\* A tab that was not connected asks for a session, or gives up.
LEMMA WebWaits ==
  ASSUME WebTypes, WebSound, NEW t \in Tab, tab[t].at \in {"none", "connecting"},
         Others(t), tab'[t].at \in {"connecting", "closed"},
         UNCHANGED <<clients, shared>>, OthersReplies(t)
  PROVE  WebSound'
<1>1. \A s \in DOMAIN clients : clients[s] \in Tab \ {t}
  BY DEF WebTypes, WebSound, EntriesFit
<1>2. ~Connected(t)' /\ \A u \in Tab \ {t} : Connected(u)' <=> Connected(u)
  BY DEF Connected, Others
<1>3. \A u \in Tab \ {t} : Uses(u)' = Uses(u)
  BY DEF Uses, Others
<1>4. EntriesFit'
  BY <1>1, <1>2 DEF WebSound, EntriesFit, Others
<1>5. TabsAreFound'
  BY DEF WebSound, TabsAreFound, Others
<1>6. UsersShare'
  BY <1>2, <1>3 DEF WebSound, UsersShare
<1>7. ReplyIsThere'
  BY DEF WebSound, ReplyIsThere, Others, OthersReplies
<1> QED
  BY <1>4, <1>5, <1>6, <1>7 DEF WebSound

\* A connection opens with a session; who uses the session shares it from now on.
LEMMA WebOpens ==
  ASSUME WebTypes, WebSound, NEW t \in Tab, tab[t].at \in {"none", "connecting"}, NEW id \in Id,
         tab' = [tab EXCEPT ![t] = At("open", id)], clients' = Store(id, t),
         shared' = IF Users(id) = {} THEN shared ELSE shared \cup {id}, OthersReplies(t)
  PROVE  WebSound'
<1>1. /\ Others(t) /\ tab'[t].at = "open" /\ tab'[t].session = id /\ tab'[t].url = id
  BY Placed DEF Where
<1>2. /\ DOMAIN clients' = DOMAIN clients \cup {id}
      /\ clients'[id] = t
      /\ \A s \in DOMAIN clients \ {id} : clients'[s] = clients[s]
  BY Stored
<1>3. \A s \in DOMAIN clients : clients[s] \in Tab \ {t}
  BY DEF WebTypes, WebSound, EntriesFit
<1>4. /\ ~Connected(t) /\ Connected(t)'
      /\ \A u \in Tab \ {t} : (Connected(u)' <=> Connected(u)) /\ Uses(u)' = Uses(u)
  BY <1>1 DEF Connected, Others, Uses
<1>5. \A u \in Tab \ {t} : Connected(u) /\ id \in Uses(u) => id \in shared'
  BY DEF Users, Uses
<1>6. shared \subseteq shared' /\ Uses(t)' = {id}
  BY <1>1 DEF Uses
<1>7. EntriesFit'
  BY <1>1, <1>2, <1>3, <1>4 DEF WebSound, EntriesFit, Others
<1>8. TabsAreFound'
  <2> SUFFICES ASSUME NEW u \in Tab, tab'[u].at \in {"open", "ending", "renewing"},
                      tab'[u].session \notin shared'
               PROVE  tab'[u].session \in DOMAIN clients' /\ clients'[tab'[u].session] = u
    BY DEF TabsAreFound
  <2>1. CASE u = t
    BY <1>1, <1>2, <2>1
  <2>2. CASE u # t
    <3>1. tab'[u] = tab[u] /\ Connected(u)
      BY <2>2, <1>1 DEF Others, Connected
    <3>2. tab[u].session # id
      BY <1>5, <2>2, <3>1 DEF Uses
    <3>3. tab[u].session \in DOMAIN clients /\ clients[tab[u].session] = u
      BY <1>6, <3>1 DEF WebSound, TabsAreFound
    <3> QED
      BY <1>2, <3>1, <3>2, <3>3
  <2> QED
    BY <2>1, <2>2
<1>9. UsersShare'
  BY <1>4, <1>5, <1>6 DEF WebSound, UsersShare
<1>10. ReplyIsThere'
  BY <1>1 DEF WebSound, ReplyIsThere, Others, OthersReplies
<1> QED
  BY <1>7, <1>8, <1>9, <1>10 DEF WebSound

\* A tab leaves: the entry of the session it was opened with goes, which is of no
\* other tab unless that session is shared.
LEMMA WebLeaves ==
  ASSUME WebTypes, WebSound, NEW t \in Tab, Leave(t)
  PROVE  WebSound'
<1>0. tab[t].at = "open" /\ UNCHANGED <<replies, shared>>
  BY DEF Leave, sessionVars
<1>1. Others(t) /\ tab'[t].at = "closed"
  <2>1. 0 \in Id /\ "closed" \in Where
    BY DEF Id, Where
  <2> QED
    BY <2>1, Placed DEF Leave
<1>2. /\ DOMAIN clients' = DOMAIN clients \ {tab[t].url}
      /\ \A s \in DOMAIN clients' : clients'[s] = clients[s]
  BY Deleted DEF Leave
<1>3. \A s \in DOMAIN clients : clients[s] \in Tab
  BY DEF WebTypes
<1>4. /\ Connected(t) /\ ~Connected(t)'
      /\ \A u \in Tab \ {t} : (Connected(u)' <=> Connected(u)) /\ Uses(u)' = Uses(u)
  BY <1>0, <1>1 DEF Connected, Others, Uses
<1>5. EntriesFit'
  BY <1>1, <1>2, <1>3, <1>4 DEF WebSound, EntriesFit, Others
<1>6. TabsAreFound'
  <2> SUFFICES ASSUME NEW u \in Tab, tab'[u].at \in {"open", "ending", "renewing"},
                      tab'[u].session \notin shared
               PROVE  tab'[u].session \in DOMAIN clients' /\ clients'[tab'[u].session] = u
    BY <1>0 DEF TabsAreFound
  <2>1. u # t /\ tab'[u] = tab[u] /\ Connected(u)
    BY <1>1 DEF Others, Connected
  <2>2. tab[u].session # tab[t].url
    BY <1>4, <2>1 DEF WebSound, UsersShare, Uses
  <2>3. tab[u].session \in DOMAIN clients /\ clients[tab[u].session] = u
    BY <2>1 DEF WebSound, TabsAreFound
  <2> QED
    BY <1>2, <2>1, <2>2, <2>3
<1>7. UsersShare'
  BY <1>0, <1>4 DEF WebSound, UsersShare
<1>8. ReplyIsThere'
  BY <1>0, <1>1 DEF WebSound, ReplyIsThere, Others
<1> QED
  BY <1>5, <1>6, <1>7, <1>8 DEF WebSound

\* A tab in a new session first forgets the old one, so it has no entry then.
LEMMA WebForgets ==
  ASSUME WebTypes, WebSound, NEW t \in Tab, ForgetOld(t)
  PROVE  WebSound'
<1>0. tab[t].at = "renewing" /\ UNCHANGED <<replies, shared>> /\ replies[t] # NoReply
  BY DEF ForgetOld, sessionVars
<1>1. /\ Others(t) /\ tab'[t].at = "replacing"
      /\ tab'[t].session = tab[t].session /\ tab'[t].url = tab[t].url
  BY Gone DEF ForgetOld, Where
<1>2. /\ DOMAIN clients' = DOMAIN clients \ {tab[t].session}
      /\ \A s \in DOMAIN clients' : clients'[s] = clients[s]
  BY Deleted DEF ForgetOld
<1>3. \A s \in DOMAIN clients : clients[s] \in Tab
  BY DEF WebTypes
<1>4. \A u \in Tab : (Connected(u)' <=> Connected(u)) /\ Uses(u)' = Uses(u)
  BY <1>0, <1>1 DEF Connected, Others, Uses
<1>5. Connected(t) /\ \A s \in DOMAIN clients' : clients[s] # t
  BY <1>0, <1>2 DEF Connected, WebSound, EntriesFit
<1>6. EntriesFit'
  BY <1>1, <1>2, <1>3, <1>4, <1>5 DEF WebSound, EntriesFit, Others
<1>7. TabsAreFound'
  <2> SUFFICES ASSUME NEW u \in Tab, tab'[u].at \in {"open", "ending", "renewing"},
                      tab'[u].session \notin shared
               PROVE  tab'[u].session \in DOMAIN clients' /\ clients'[tab'[u].session] = u
    BY <1>0 DEF TabsAreFound
  <2>1. u # t /\ tab'[u] = tab[u] /\ Connected(u)
    BY <1>1 DEF Others, Connected
  <2>2. tab[u].session # tab[t].session
    BY <1>5, <2>1 DEF WebSound, UsersShare, Uses
  <2>3. tab[u].session \in DOMAIN clients /\ clients[tab[u].session] = u
    BY <2>1 DEF WebSound, TabsAreFound
  <2> QED
    BY <1>2, <2>1, <2>2, <2>3
<1>8. UsersShare'
  BY <1>0, <1>4 DEF WebSound, UsersShare
<1>9. ReplyIsThere'
  BY <1>0, <1>1 DEF WebSound, ReplyIsThere, Others
<1> QED
  BY <1>6, <1>7, <1>8, <1>9 DEF WebSound

\* Then it enters the new one.
LEMMA WebEnters ==
  ASSUME SessionTypes, WebTypes, WebSound, NEW t \in Tab, EnterNew(t)
  PROVE  WebTypes' /\ WebSound'
<1> DEFINE id == replies[t]
<1>0. tab[t].at = "replacing" /\ id \in Id /\ OthersReplies(t)
  BY ReadId DEF EnterNew, WebSound, ReplyIsThere, OthersReplies, SessionTypes
<1>1. /\ tab' \in [Tab -> TabState] /\ Others(t)
      /\ tab'[t].at = "open" /\ tab'[t].session = id /\ tab'[t].url = tab[t].url
  BY <1>0 DEF EnterNew, WebTypes, TabState, Where, Others
<1>2. clients' = Store(id, t) /\ stop' = stop
      /\ shared' = IF Users(id) \subseteq {t} THEN shared ELSE shared \cup {id}
  BY DEF EnterNew
<1> HIDE DEF id
<1>3. /\ DOMAIN clients' = DOMAIN clients \cup {id}
      /\ clients' \in [DOMAIN clients' -> Tab] /\ DOMAIN clients' \subseteq Id
      /\ clients'[id] = t
      /\ \A s \in DOMAIN clients \ {id} : clients'[s] = clients[s]
  BY <1>0, <1>2, Stored
<1>4. \A s \in DOMAIN clients : clients[s] \in Tab \ {t}
  BY <1>0 DEF WebTypes, WebSound, EntriesFit, Connected
<1>5. /\ \A u \in Tab : Connected(u)' <=> Connected(u)
      /\ \A u \in Tab \ {t} : Uses(u)' = Uses(u)
      /\ Uses(t)' = {id, tab[t].url} /\ Connected(t)
  BY <1>0, <1>1 DEF Connected, Others, Uses
<1>6. \A u \in Tab \ {t} : Connected(u) /\ id \in Uses(u) => id \in shared'
  BY <1>2 DEF Users, Uses
<1>7. shared \subseteq shared' /\ shared' \subseteq Id
  BY <1>0, <1>2 DEF WebTypes
<1>8. EntriesFit'
  BY <1>1, <1>3, <1>4, <1>5 DEF WebSound, EntriesFit, Others
<1>9. TabsAreFound'
  <2> SUFFICES ASSUME NEW u \in Tab, tab'[u].at \in {"open", "ending", "renewing"},
                      tab'[u].session \notin shared'
               PROVE  tab'[u].session \in DOMAIN clients' /\ clients'[tab'[u].session] = u
    BY DEF TabsAreFound
  <2>1. CASE u = t
    BY <1>1, <1>3, <2>1
  <2>2. CASE u # t
    <3>1. tab'[u] = tab[u] /\ Connected(u)
      BY <2>2, <1>1 DEF Others, Connected
    <3>2. tab[u].session # id
      BY <1>6, <2>2, <3>1 DEF Uses
    <3>3. tab[u].session \in DOMAIN clients /\ clients[tab[u].session] = u
      BY <1>7, <3>1 DEF WebSound, TabsAreFound
    <3> QED
      BY <1>3, <3>1, <3>2, <3>3
  <2> QED
    BY <2>1, <2>2
<1>10. UsersShare'
  <2>1. \A u \in Tab \ {t} : Connected(u) => Uses(u) \cap Uses(t)' \subseteq shared'
    BY <1>5, <1>6, <1>7 DEF WebSound, UsersShare, Uses
  <2> QED
    BY <1>5, <1>7, <2>1 DEF WebSound, UsersShare
<1>11. ReplyIsThere'
  BY <1>0, <1>1 DEF WebSound, ReplyIsThere, Others, OthersReplies
<1> QED
  BY <1>1, <1>2, <1>3, <1>7, <1>8, <1>9, <1>10, <1>11 DEF WebSound, WebTypes
-----------------------------------------------------------------------------
WebInductive == SessionTypes /\ WebTypes /\ OnlyActive /\ WebSound

LEMMA WebInit0 == SessionInit /\ WebInit => WebInductive
<1> SUFFICES ASSUME SessionInit, WebInit PROVE WebInductive
  OBVIOUS
<1>1. OnlyActive
  BY DEF OnlyActive, ActiveOnce, SessionInit
<1>2. DOMAIN clients = {} /\ \A t \in Tab : tab[t].at = "none"
  BY DEF WebInit, At
<1>3. WebSound
  BY <1>2 DEF WebSound, EntriesFit, TabsAreFound, UsersShare, ReplyIsThere, Connected
<1> QED
  BY <1>1, <1>3, SessionTypesInit, WebTypesInit DEF WebInductive

\* What a step of the web channel leaves of the rows.
LEMMA RowsStay ==
  ASSUME OnlyActive, UNCHANGED <<conversations, storeFailed>>
  PROVE  OnlyActive'
BY DEF OnlyActive

LEMMA WebNextStep ==
  WebInductive /\ [WebNext]_<<sessionVars, webVars>> => WebInductive'
<1> SUFFICES ASSUME SessionTypes, WebTypes, OnlyActive, WebSound,
                    [WebNext]_<<sessionVars, webVars>>
             PROVE  SessionTypes' /\ WebTypes' /\ OnlyActive' /\ WebSound'
  BY DEF WebInductive
<1> USE DEF sessionVars, webVars
<1>0. /\ 0 \in Id /\ \A t \in Tab : tab[t].session \in Id
      /\ {"closed", "connecting", "open", "ending", "renewing", "replacing"} \subseteq Where
      /\ {"onlyagents", "oaChannel"} \subseteq ChannelName
      /\ {"new", "end", "message"} \subseteq EventType
  BY DEF Id, Where, ChannelName, EventType, WebTypes, TabState
<1>1. ASSUME NEW t \in Tab, WSHandler(t)
      PROVE  SessionTypes' /\ WebTypes' /\ OnlyActive' /\ WebSound'
  <2>1. ASSUME NEW id \in DOMAIN conversations, tab' = [tab EXCEPT ![t] = At("open", id)],
               clients' = Store(id, t),
               shared' = IF Users(id) = {} THEN shared ELSE shared \cup {id}, UNCHANGED sessionVars
        PROVE  SessionTypes' /\ WebTypes' /\ OnlyActive' /\ WebSound'
    <3>1. id \in Id
      BY DEF SessionTypes, Id
    <3>2. WebSound'
      BY <1>1, <2>1, <3>1, WebOpens DEF WSHandler, OthersReplies
    <3>3. WebTypes'
      <4>1. tab' \in [Tab -> TabState]
        BY <1>0, <2>1, <3>1, Placed
      <4>2. clients' \in [DOMAIN clients' -> Tab] /\ DOMAIN clients' \subseteq Id
        BY <2>1, <3>1, Stored
      <4>3. stop' = stop /\ shared' \subseteq Id
        BY <1>1, <2>1, <3>1 DEF WSHandler, WebTypes
      <4> QED
        BY <4>1, <4>2, <4>3 DEF WebTypes
    <3>4. SessionTypes'
      BY <2>1 DEF SessionTypes
    <3> QED
      BY <2>1, <3>2, <3>3, <3>4, RowsStay
  <2>2. ASSUME Publish(Event("new", "onlyagents", "executive", 0, t)), Goto(t, "connecting"),
               UNCHANGED <<conversations, replies, storeFailed, clients, shared>>
        PROVE  SessionTypes' /\ WebTypes' /\ OnlyActive' /\ WebSound'
    <3>1. SessionTypes'
      BY <1>0, <2>2, WebEvents, Asked
    <3>2. WebTypes' /\ Others(t) /\ tab'[t].at = "connecting"
      BY <1>0, <1>1, <2>2, Gone DEF WSHandler, WebTypes
    <3>3. WebSound'
      BY <1>1, <2>2, <3>2, WebWaits DEF WSHandler, OthersReplies
    <3> QED
      BY <2>2, <3>1, <3>2, <3>3, RowsStay
  <2> QED
    BY <1>1, <2>1, <2>2 DEF WSHandler
<1>2. ASSUME NEW t \in Tab, Register(t)
      PROVE  SessionTypes' /\ WebTypes' /\ OnlyActive' /\ WebSound'
  <2> DEFINE id == replies[t]
  <2>1. id \in Id
    BY <1>2, ReadId DEF Register
  <2>2. SessionTypes' /\ OthersReplies(t) /\ OnlyActive'
    BY <1>2, ReplyRead, RowsStay DEF Register, OthersReplies
  <2>3. CASE id = 0
    <3>1. tab' = [tab EXCEPT ![t] = At("closed", 0)] /\ UNCHANGED <<clients, shared, stop>>
      BY <1>2, <2>3 DEF Register
    <3>2. WebTypes' /\ Others(t) /\ tab'[t].at = "closed"
      BY <1>0, <3>1, Placed DEF WebTypes
    <3> QED
      BY <1>2, <2>2, <3>1, <3>2, WebWaits DEF Register
  <2>4. CASE id # 0
    <3>1. /\ tab' = [tab EXCEPT ![t] = At("open", id)] /\ clients' = Store(id, t)
          /\ shared' = (IF Users(id) = {} THEN shared ELSE shared \cup {id}) /\ stop' = stop
      BY <1>2, <2>4 DEF Register
    <3>2. WebTypes'
      BY <1>0, <2>1, <3>1, Stored, Placed DEF WebTypes
    <3>3. WebSound'
      BY <1>2, <2>1, <2>2, <3>1, WebOpens DEF Register
    <3> QED
      BY <2>2, <3>2, <3>3
  <2> QED
    BY <2>3, <2>4
<1>3. ASSUME NEW t \in Tab, GiveUp(t)
      PROVE  SessionTypes' /\ WebTypes' /\ OnlyActive' /\ WebSound'
  <2>1. SessionTypes' /\ OthersReplies(t) /\ OnlyActive'
    BY <1>3, Abandoned, RowsStay DEF GiveUp, OthersReplies
  <2>2. WebTypes' /\ Others(t) /\ tab'[t].at = "closed"
    BY <1>0, <1>3, Placed DEF GiveUp, WebTypes
  <2> QED
    BY <1>3, <2>1, <2>2, WebWaits DEF GiveUp
<1>4. ASSUME NEW t \in Tab, Disconnect(t) \/ ReadFails(t)
      PROVE  SessionTypes' /\ WebTypes' /\ OnlyActive' /\ WebSound'
  <2>1. Leave(t)
    BY <1>4 DEF Disconnect, ReadFails
  <2>2. WebTypes'
    BY <1>0, <2>1, Deleted, Placed DEF Leave, WebTypes
  <2>3. SessionTypes' /\ OnlyActive'
    BY <2>1, RowsStay DEF Leave, SessionTypes
  <2> QED
    BY <2>1, <2>2, <2>3, WebLeaves
<1>5. ASSUME NEW t \in Tab, handleMessage(t)
      PROVE  SessionTypes' /\ WebTypes' /\ OnlyActive' /\ WebSound'
  <2>1. SessionTypes'
    BY <1>0, <1>5, WebEvents, Asked DEF handleMessage
  <2>2. WebTypes' /\ RepliesStay
    BY <1>5 DEF handleMessage, WebTypes, RepliesStay
  <2> QED
    BY <1>5, <2>1, <2>2, WebQuiet, RowsStay DEF handleMessage
<1>6. ASSUME NEW t \in Tab, AskForEnd(t) \/ AskForNew(t)
      PROVE  SessionTypes' /\ WebTypes' /\ OnlyActive' /\ WebSound'
  <2>1. SessionTypes'
    BY <1>0, <1>6, WebEvents, Asked DEF AskForEnd, AskForNew
  <2>2. WebTypes'
    BY <1>0, <1>6, Gone DEF AskForEnd, AskForNew, WebTypes
  <2>3. WebSound'
    BY <1>6, WebMoves DEF AskForEnd, AskForNew, OthersReplies
  <2> QED
    BY <1>6, <2>1, <2>2, <2>3, RowsStay DEF AskForEnd, AskForNew
<1>7. ASSUME NEW t \in Tab, ForgetOld(t)
      PROVE  SessionTypes' /\ WebTypes' /\ OnlyActive' /\ WebSound'
  <2>1. WebTypes'
    BY <1>0, <1>7, Gone, Deleted DEF ForgetOld, WebTypes
  <2>2. SessionTypes' /\ OnlyActive'
    BY <1>7, RowsStay DEF ForgetOld, SessionTypes
  <2> QED
    BY <1>7, <2>1, <2>2, WebForgets
<1>8. ASSUME NEW t \in Tab, EnterNew(t)
      PROVE  SessionTypes' /\ WebTypes' /\ OnlyActive' /\ WebSound'
  <2>1. SessionTypes' /\ OnlyActive'
    BY <1>8, ReplyRead, RowsStay DEF EnterNew
  <2> QED
    BY <1>8, <2>1, WebEnters
<1>9. ASSUME NEW t \in Tab, StopsWaiting(t)
      PROVE  SessionTypes' /\ WebTypes' /\ OnlyActive' /\ WebSound'
  <2>1. SessionTypes' /\ OthersReplies(t) /\ OnlyActive'
    BY <1>9, Abandoned, RowsStay DEF StopsWaiting, OthersReplies
  <2>2. WebTypes'
    BY <1>0, <1>9, Gone DEF StopsWaiting, WebTypes
  <2> QED
    BY <1>9, <2>1, <2>2, WebMoves DEF StopsWaiting
<1>10. ASSUME Interrupt \/ WaitForWriters
       PROVE  SessionTypes' /\ WebTypes' /\ OnlyActive' /\ WebSound'
  <2>1. UNCHANGED <<sessionVars, tab, clients, shared>> /\ stop' \in {"closing", "stopped"}
    BY <1>10 DEF Interrupt, WaitForWriters
  <2>2. SessionTypes' /\ WebTypes' /\ RepliesStay
    BY <2>1 DEF SessionTypes, WebTypes, RepliesStay
  <2> QED
    BY <2>1, <2>2, WebQuiet, RowsStay
<1>11. ASSUME CloseClients
       PROVE  SessionTypes' /\ WebTypes' /\ OnlyActive' /\ WebSound'
  <2>1. \A t \in Tab : tab[t] \in TabState /\ Connected(t) \in BOOLEAN
    BY DEF WebTypes, Connected
  <2>2. tab' \in [Tab -> TabState]
    BY <1>11, <2>1 DEF CloseClients, TabState
  <2>3. \A t \in Tab : /\ tab'[t].session = tab[t].session /\ tab'[t].url = tab[t].url
                       /\ tab'[t].at = tab[t].at
    BY <1>11, <2>1 DEF CloseClients, TabState
  <2>4. SessionTypes' /\ WebTypes' /\ RepliesStay
    BY <1>11, <2>2 DEF CloseClients, SessionTypes, WebTypes, RepliesStay
  <2> QED
    BY <1>11, <2>3, <2>4, WebQuiet, RowsStay DEF CloseClients
<1>12. ASSUME Take("message"), UNCHANGED <<conversations, replies, storeFailed, webVars>>
       PROVE  SessionTypes' /\ WebTypes' /\ OnlyActive' /\ WebSound'
  <2>1. SessionTypes' /\ WebTypes' /\ RepliesStay
    BY <1>12, TakenFromBus DEF SessionTypes, WebTypes, RepliesStay
  <2> QED
    BY <1>12, <2>1, WebQuiet, RowsStay
<1>13. ASSUME RouteSession \/ EndByAPI, UNCHANGED webVars
       PROVE  SessionTypes' /\ WebTypes' /\ OnlyActive' /\ WebSound'
  <2>1. WebTypes'
    BY <1>13 DEF WebTypes
  <2> QED
    BY <1>13, <2>1, RouteSessionTypes, RouteSessionOnce, WebQuiet
<1>14. CASE UNCHANGED <<sessionVars, webVars>>
  <2>1. SessionTypes' /\ WebTypes' /\ RepliesStay
    BY <1>14 DEF SessionTypes, WebTypes, RepliesStay
  <2> QED
    BY <1>14, <2>1, WebQuiet, RowsStay
<1> QED
  BY <1>1, <1>2, <1>3, <1>4, <1>5, <1>6, <1>7, <1>8, <1>9, <1>10, <1>11, <1>12, <1>13, <1>14
  DEF WebNext, Route, Send

\* The types of the web channel and of the sessions it asks for.
THEOREM WebTypeCorrect == WebSpec => [](SessionTypeOK /\ WebTypeOK)
<1>1. WebInductive => SessionTypeOK /\ WebTypeOK
  BY SessionTypesOK, WebTypesOK DEF WebInductive
<1> QED
  BY <1>1, WebInit0, WebNextStep, PTL DEF WebSpec

\* While the store works, a channel has at most one active conversation, however
\* the requests of its tabs and the API's are interleaved.
THEOREM OneActiveOnTheWeb == WebSpec => []OneActive
<1>1. WebInductive => OneActive
  BY OnlyActiveIsOne DEF WebInductive
<1> QED
  BY <1>1, WebInit0, WebNextStep, PTL DEF WebSpec

\* The map by which answers find their tab agrees with the tabs, while they renew
\* their sessions, leave, and resume each other's.
THEOREM AnswersReachTheirTab == WebSpec => []AnswersFindTheirTab
<1>1. WebInductive => AnswersFindTheirTab
  BY DEF WebInductive, WebSound, EntriesFit, TabsAreFound, AnswersFindTheirTab
<1> QED
  BY <1>1, WebInit0, WebNextStep, PTL DEF WebSpec
-----------------------------------------------------------------------------
\* The Telegram channel's state.
HandlerState == [chat : Chat, at : Step, new : BOOLEAN]

TelegramTypes ==
  /\ handler \in [Handler -> HandlerState]
  /\ current \in Id
  /\ placeholders \in [Chat -> Nat] /\ shown \in [Chat -> Seq(Nat)]
  /\ sends \in [Chat -> 0 .. MaxSends] /\ owed \in [Chat -> Nat]
  /\ \A c \in Chat : /\ placeholders[c] <= Len(shown[c])
                     /\ \A i \in 1 .. Len(shown[c]) : shown[c][i] <= sends[c]
  /\ thinkingCtx \in [Chat -> Handler \cup {Nobody}]
  /\ typing \subseteq Handler
  /\ overlapped \in BOOLEAN /\ disturbed \subseteq Chat

\* All events are of the channel's handlers, and none ends a session.
BusIsTelegram ==
  \A i \in 1 .. Len(bus) :
    bus[i].channel = "telegram" /\ bus[i].from \in Handler /\ bus[i].type \in {"new", "ensure", "message"}

LEMMA TelegramTypesOK == TelegramTypes => TelegramTypeOK
<1> SUFFICES ASSUME TelegramTypes PROVE TelegramTypeOK
  OBVIOUS
<1>1. ASSUME NEW c \in Chat PROVE placeholders[c] \in 0 .. Len(shown[c]) /\ shown[c] \in Seq(0 .. sends[c])
  <2>1. /\ shown[c] \in Seq(Nat) /\ placeholders[c] \in Nat /\ sends[c] \in Nat
        /\ placeholders[c] <= Len(shown[c])
        /\ \A i \in 1 .. Len(shown[c]) : shown[c][i] <= sends[c]
    BY DEF TelegramTypes
  <2> DEFINE list == shown[c]
  <2>2. \A i \in 1 .. Len(list) : list[i] \in 0 .. sends[c]
    BY <2>1
  <2>3. list \in Seq(0 .. sends[c])
    BY <2>1, <2>2
  <2> QED
    BY <2>1, <2>3
<1> QED
  BY <1>1 DEF TelegramTypes, TelegramTypeOK, HandlerState

LEMMA TelegramTypesInit == TelegramInit => TelegramTypes
<1> SUFFICES ASSUME TelegramInit PROVE TelegramTypes
  OBVIOUS
<1>1. handler \in [Handler -> HandlerState]
  BY DEF TelegramInit, HandlerState, Step
<1>2. shown \in [Chat -> Seq(Nat)] /\ \A c \in Chat : Len(shown[c]) = 0
  BY DEF TelegramInit
<1>3. placeholders \in [Chat -> Nat] /\ owed \in [Chat -> Nat] /\ sends \in [Chat -> 0 .. MaxSends]
  BY DEF TelegramInit
<1>4. \A c \in Chat : /\ placeholders[c] <= Len(shown[c])
                      /\ \A i \in 1 .. Len(shown[c]) : shown[c][i] <= sends[c]
  BY <1>2 DEF TelegramInit
<1>5. thinkingCtx \in [Chat -> Handler \cup {Nobody}] /\ current \in Id
  BY DEF TelegramInit, Id
<1> QED
  BY <1>1, <1>2, <1>3, <1>4, <1>5 DEF TelegramInit, TelegramTypes

LEMMA Moved ==
  ASSUME TelegramTypes, NEW h \in Handler, NEW there \in Step, Move(h, there)
  PROVE  /\ handler' \in [Handler -> HandlerState]
         /\ handler'[h].at = there
         /\ \A g \in Handler : /\ handler'[g].chat = handler[g].chat /\ handler'[g].new = handler[g].new
                               /\ g # h => handler'[g].at = handler[g].at
BY DEF TelegramTypes, Move, HandlerState

LEMMA Disturbed ==
  ASSUME TelegramTypes, NEW c \in Chat, NEW if, Disturb(c, if)
  PROVE  /\ disturbed' \subseteq Chat /\ disturbed \subseteq disturbed'
         /\ c \notin disturbed' => ~if
         /\ \A d \in Chat \ {c} : d \in disturbed' <=> d \in disturbed
BY DEF TelegramTypes, Disturb

LEMMA ChatOfHandler ==
  ASSUME TelegramTypes, NEW h \in Handler
  PROVE  ChatOf(h) \in Chat
BY DEF TelegramTypes, HandlerState, ChatOf

LEMMA TelegramEvents ==
  ASSUME TelegramTypes, NEW type \in {"new", "ensure", "message"}, NEW session \in Id, NEW h \in Handler
  PROVE  Event(type, "telegram", "executive", session, h) \in SessionEvent
BY DEF Event, SessionEvent, EventType, ChannelName

\* A list of messages with one more.
LEMMA OneMore ==
  ASSUME NEW list \in Seq(Nat), NEW n \in Nat
  PROVE  /\ Append(list, n) \in Seq(Nat)
         /\ Len(Append(list, n)) = Len(list) + 1
         /\ Append(list, n)[Len(list) + 1] = n
         /\ \A i \in 1 .. Len(list) : Append(list, n)[i] = list[i]
         /\ \A i \in 1 .. Len(list) + 1 : i \in 1 .. Len(list) \/ i = Len(list) + 1
OBVIOUS

\* The first message of a send: either the placeholder was replaced, or what was
\* there is still there; so it is stuck, or there was none, or it is gone.
LEMMA FirstShown ==
  ASSUME NEW list \in Seq(Nat), NEW p \in 0 .. Len(list), NEW n \in Nat \ {0},
         \A i \in 1 .. Len(list) : list[i] <= n,
         NEW after \in (IF p = 0 THEN {} ELSE {[list EXCEPT ![p] = n]}) \cup {Append(list, n), list}
  PROVE  /\ after \in Seq(Nat)
         /\ \A i \in 1 .. Len(after) : after[i] <= n
         /\ (/\ \A i \in 1 .. Len(list) : list[i] = 0 => i = p
             /\ ~(p # 0 /\ after[p] = list[p]))
              => \A i \in 1 .. Len(after) : after[i] # 0
<1>1. CASE after = list
  BY <1>1
<1>2. CASE after = Append(list, n)
  BY <1>2, OneMore
<1>3. CASE p # 0 /\ after = [list EXCEPT ![p] = n]
  <2>1. /\ after \in Seq(Nat) /\ Len(after) = Len(list) /\ after[p] = n
        /\ \A i \in 1 .. Len(list) : i # p => after[i] = list[i]
    BY <1>3
  <2>2. \A i \in 1 .. Len(after) : i = p \/ after[i] = list[i]
    BY <2>1
  <2>3. \A i \in 1 .. Len(after) : after[i] <= n
    <3> SUFFICES ASSUME NEW i \in 1 .. Len(list) PROVE after[i] <= n
      BY <2>1
    <3>1. list[i] <= n /\ n <= n
      OBVIOUS
    <3>2. CASE i = p
      BY <2>1, <3>1, <3>2
    <3>3. CASE i # p
      BY <2>1, <3>1, <3>3
    <3> QED
      BY <3>2, <3>3
  <2>4. (\A i \in 1 .. Len(list) : list[i] = 0 => i = p) => \A i \in 1 .. Len(after) : after[i] # 0
    BY <2>1, <2>2
  <2> QED
    BY <2>1, <2>3, <2>4
<1> QED
  BY <1>1, <1>2, <1>3

\* What a send makes of a chat: what may be shown in it, and that no placeholder
\* is left but in a disturbed one.
LEMMA SendShown ==
  ASSUME TelegramTypes, NEW c \in Chat, SendMessage(c)
  PROVE  /\ sends' \in [Chat -> 0 .. MaxSends]
         /\ placeholders' \in [Chat -> Nat] /\ shown' \in [Chat -> Seq(Nat)]
         /\ \A d \in Chat : /\ placeholders'[d] <= Len(shown'[d])
                            /\ \A i \in 1 .. Len(shown'[d]) : shown'[d][i] <= sends'[d]
         /\ disturbed' \subseteq Chat /\ disturbed \subseteq disturbed'
         /\ \A d \in Chat \ {c} : /\ placeholders'[d] = placeholders[d] /\ shown'[d] = shown[d]
                                  /\ d \in disturbed' <=> d \in disturbed
         /\ (/\ c \notin disturbed'
             /\ \A i \in 1 .. Len(shown[c]) : shown[c][i] = Thinking => i = placeholders[c])
              => /\ placeholders'[c] = 0
                 /\ \A i \in 1 .. Len(shown'[c]) : shown'[c][i] # Thinking
<1> DEFINE n == sends[c] + 1
           list == shown[c]
           p == placeholders[c]
<1>1. /\ list \in Seq(Nat) /\ p \in 0 .. Len(list) /\ sends[c] \in 0 .. MaxSends /\ sends[c] < MaxSends
      /\ n \in Nat \ {0}
      /\ \A i \in 1 .. Len(list) : list[i] <= sends[c]
  BY DEF SendMessage, TelegramTypes
<1>2. /\ sends' \in [Chat -> 0 .. MaxSends] /\ sends'[c] = n
      /\ \A d \in Chat \ {c} : sends'[d] = sends[d]
  BY <1>1 DEF SendMessage, TelegramTypes
<1>3. PICK first \in FirstMessages(c, n) \cup {list} :
        \/ /\ Disturb(c, Stuck(c, first)) /\ LoadAndDelete(c)
           /\ \/ shown' = [shown EXCEPT ![c] = Append(first, n)]
              \/ shown' = [shown EXCEPT ![c] = first]
        \/ Disturb(c, TRUE) /\ UNCHANGED <<placeholders, shown>>
  <2>1. CASE sendSingle(c, n)
    BY <2>1 DEF sendSingle
  <2>2. CASE sendChunked(c, n)
    BY <2>2 DEF sendChunked
  <2>3. CASE sendAsFile(c, n)
    <3>1. PICK after \in {list} \cup {[list EXCEPT ![q] = n] : q \in {p} \ {0}} :
            /\ \/ shown' = [shown EXCEPT ![c] = Append(after, n)]
               \/ shown' = [shown EXCEPT ![c] = after]
            /\ Disturb(c, Stuck(c, after))
      BY <2>3 DEF sendAsFile
    <3>2. after \in FirstMessages(c, n)
      BY DEF FirstMessages
    <3>3. LoadAndDelete(c)
      BY <2>3 DEF sendAsFile
    <3> QED
      BY <3>1, <3>2, <3>3
  <2>4. CASE Disturb(c, TRUE) /\ UNCHANGED <<placeholders, shown>>
    BY <2>4
  <2> QED
    BY <2>1, <2>2, <2>3, <2>4 DEF SendMessage
<1> HIDE DEF n
<1>4. first \in (IF p = 0 THEN {} ELSE {[list EXCEPT ![p] = n]}) \cup {Append(list, n), list}
  BY DEF FirstMessages
<1>5. \A i \in 1 .. Len(list) : list[i] <= n
  BY <1>1 DEF n
<1>6. /\ first \in Seq(Nat)
      /\ \A i \in 1 .. Len(first) : first[i] <= n
      /\ (/\ \A i \in 1 .. Len(list) : list[i] = 0 => i = p
          /\ ~(p # 0 /\ first[p] = list[p]))
           => \A i \in 1 .. Len(first) : first[i] # 0
  <2> HIDE DEF list, p
  <2> QED
    BY <1>1, <1>4, <1>5, FirstShown
<1>7. /\ Append(first, n) \in Seq(Nat)
      /\ \A i \in 1 .. Len(Append(first, n)) : Append(first, n)[i] <= n
      /\ (\A i \in 1 .. Len(first) : first[i] # 0)
           => \A i \in 1 .. Len(Append(first, n)) : Append(first, n)[i] # 0
  BY <1>1, <1>6, OneMore
<1>8. CASE Disturb(c, TRUE) /\ UNCHANGED <<placeholders, shown>>
  <2>1. c \in disturbed' /\ \A i \in 1 .. Len(list) : list[i] <= sends'[c]
    BY <1>2, <1>5, <1>8 DEF Disturb
  <2> QED
    BY <1>2, <1>8, <2>1, Disturbed DEF TelegramTypes
<1>9. CASE /\ Disturb(c, Stuck(c, first)) /\ LoadAndDelete(c)
           /\ \/ shown' = [shown EXCEPT ![c] = Append(first, n)]
              \/ shown' = [shown EXCEPT ![c] = first]
  <2>1. PICK final \in {Append(first, n), first} : shown' = [shown EXCEPT ![c] = final]
    BY <1>9
  <2>2. /\ final \in Seq(Nat)
        /\ \A i \in 1 .. Len(final) : final[i] <= n
        /\ (/\ \A i \in 1 .. Len(list) : list[i] = 0 => i = p
            /\ ~(p # 0 /\ first[p] = list[p]))
             => \A i \in 1 .. Len(final) : final[i] # 0
    BY <1>6, <1>7, <2>1
  <2>3. /\ shown' \in [Chat -> Seq(Nat)] /\ shown'[c] = final
        /\ \A d \in Chat \ {c} : shown'[d] = shown[d]
    BY <2>1, <2>2 DEF TelegramTypes
  <2>4. /\ placeholders' \in [Chat -> Nat] /\ placeholders'[c] = 0
        /\ \A d \in Chat \ {c} : placeholders'[d] = placeholders[d]
    BY <1>9 DEF LoadAndDelete, TelegramTypes
  <2>5. /\ disturbed' \subseteq Chat /\ disturbed \subseteq disturbed'
        /\ c \notin disturbed' => ~Stuck(c, first)
        /\ \A d \in Chat \ {c} : d \in disturbed' <=> d \in disturbed
    BY <1>9, Disturbed
  <2>6. \A d \in Chat : /\ placeholders'[d] <= Len(shown'[d])
                        /\ \A i \in 1 .. Len(shown'[d]) : shown'[d][i] <= sends'[d]
    <3>1. \A d \in Chat \ {c} : /\ placeholders'[d] <= Len(shown'[d])
                                /\ \A i \in 1 .. Len(shown'[d]) : shown'[d][i] <= sends'[d]
      BY <1>2, <2>3, <2>4 DEF TelegramTypes
    <3>2. Len(final) \in Nat
      BY <2>2
    <3> QED
      BY <1>2, <2>2, <2>3, <2>4, <3>1, <3>2
  <2>7. c \notin disturbed' => ~(p # 0 /\ first[p] = list[p])
    BY <2>5 DEF Stuck
  <2> QED
    BY <1>2, <2>2, <2>3, <2>4, <2>5, <2>6, <2>7 DEF Thinking
<1> QED
  BY <1>3, <1>8, <1>9
-----------------------------------------------------------------------------
\* The bus after a send, and after the router has taken an event, by positions.
LEMMA BusGrows ==
  ASSUME SessionTypes, NEW e \in SessionEvent, Publish(e)
  PROVE  /\ Len(bus) \in Nat /\ Len(bus') = Len(bus) + 1
         /\ \A i \in 1 .. Len(bus) : bus'[i] = bus[i]
         /\ bus'[Len(bus) + 1] = e
         /\ \A i \in 1 .. Len(bus) + 1 : i \in 1 .. Len(bus) \/ i = Len(bus) + 1
BY DEF SessionTypes, Publish

LEMMA BusShrinks ==
  ASSUME SessionTypes, NEW type, Take(type)
  PROVE  /\ Len(bus) \in Nat \ {0} /\ Len(bus') = Len(bus) - 1
         /\ \A i \in 1 .. Len(bus') : i + 1 \in 1 .. Len(bus) /\ bus'[i] = bus[i + 1]
         /\ Head(bus) = bus[1] /\ 1 \in 1 .. Len(bus) /\ bus[1].type = type
BY DEF SessionTypes, Take

\* The steps of the Telegram channel.
LEMMA TelegramSteps ==
  ASSUME TelegramNext
  PROVE  \/ \E h \in Handler :
              \/ sendThinkingIndicator(h) \/ isAllowed(h) \/ createPlaceholder(h)
              \/ stopThinkingIndicator(h) \/ resolveSessionID(h) \/ handleNewSession(h)
              \/ EnterSession(h) \/ FireMessage(h)
         \/ handleMessageReceived
         \/ \E c \in Chat : SendMessage(c) /\ (Answer(c) \/ Notify(c))
         \/ (RouteSession \/ EndByAPI) /\ UNCHANGED telegramVars
BY DEF TelegramNext, Answer, Notify

LEMMA TelegramTypesNext ==
  SessionTypes /\ TelegramTypes /\ BusIsTelegram /\ [TelegramNext]_<<sessionVars, telegramVars>>
    => TelegramTypes'
<1> SUFFICES ASSUME SessionTypes, TelegramTypes, BusIsTelegram,
                    [TelegramNext]_<<sessionVars, telegramVars>>
             PROVE  TelegramTypes'
  OBVIOUS
<1> USE DEF sessionVars, telegramVars
<1>0. {"typing", "placed", "resolving", "asked", "resolved", "done"} \subseteq Step
  BY DEF Step
<1>1. ASSUME NEW h \in Handler, sendThinkingIndicator(h) PROVE TelegramTypes'
  <2>1. ChatOf(h) \in Chat
    BY ChatOfHandler
  <2>2. handler' \in [Handler -> HandlerState]
    BY <1>0, <1>1, Moved DEF sendThinkingIndicator
  <2>3. disturbed' \subseteq Chat
    BY <1>1, <2>1, Disturbed DEF sendThinkingIndicator
  <2> QED
    BY <1>1, <2>1, <2>2, <2>3 DEF sendThinkingIndicator, TelegramTypes
<1>2. ASSUME NEW h \in Handler, isAllowed(h) PROVE TelegramTypes'
  BY <1>0, <1>2, Moved DEF isAllowed, TelegramTypes
<1>3. ASSUME NEW h \in Handler, createPlaceholder(h) PROVE TelegramTypes'
  <2> DEFINE c == ChatOf(h)
  <2>1. c \in Chat
    BY ChatOfHandler
  <2>2. handler' \in [Handler -> HandlerState]
    BY <1>0, <1>3, Moved DEF createPlaceholder
  <2>3. CASE UNCHANGED <<shown, placeholders>>
    BY <1>3, <2>2, <2>3 DEF createPlaceholder, TelegramTypes
  <2>4. CASE /\ shown' = [shown EXCEPT ![c] = Append(@, Thinking)]
             /\ placeholders' = [placeholders EXCEPT ![c] = Len(shown[c]) + 1]
    <3> DEFINE list == shown[c]
    <3>1. /\ list \in Seq(Nat) /\ sends[c] \in Nat
          /\ \A i \in 1 .. Len(list) : list[i] <= sends[c]
      BY <2>1 DEF TelegramTypes
    <3>2. /\ Append(list, 0) \in Seq(Nat) /\ Len(Append(list, 0)) = Len(list) + 1
          /\ \A i \in 1 .. Len(Append(list, 0)) : Append(list, 0)[i] <= sends[c]
      <4> HIDE DEF list
      <4> QED
        BY <3>1, OneMore
    <3>3. /\ shown' \in [Chat -> Seq(Nat)] /\ shown'[c] = Append(list, 0)
          /\ \A d \in Chat \ {c} : shown'[d] = shown[d]
      BY <2>1, <2>4, <3>2 DEF TelegramTypes, Thinking
    <3>4. /\ placeholders' \in [Chat -> Nat] /\ placeholders'[c] = Len(list) + 1
          /\ \A d \in Chat \ {c} : placeholders'[d] = placeholders[d]
      BY <2>1, <2>4, <3>1 DEF TelegramTypes
    <3>5. UNCHANGED <<current, sends, owed, thinkingCtx, typing, overlapped, disturbed>>
      BY <1>3 DEF createPlaceholder
    <3>6. \A d \in Chat : /\ placeholders'[d] <= Len(shown'[d])
                          /\ \A i \in 1 .. Len(shown'[d]) : shown'[d][i] <= sends[d]
      <4>1. \A d \in Chat \ {c} : /\ placeholders'[d] <= Len(shown'[d])
                                  /\ \A i \in 1 .. Len(shown'[d]) : shown'[d][i] <= sends[d]
        BY <3>3, <3>4 DEF TelegramTypes
      <4>2. Len(list) + 1 <= Len(Append(list, 0))
        BY <3>1, <3>2
      <4> HIDE DEF list
      <4> QED
        BY <3>2, <3>3, <3>4, <4>1, <4>2
    <3> QED
      BY <2>2, <3>3, <3>4, <3>5, <3>6 DEF TelegramTypes
  <2> QED
    BY <1>3, <2>3, <2>4 DEF createPlaceholder
<1>4. ASSUME NEW h \in Handler, stopThinkingIndicator(h) PROVE TelegramTypes'
  <2>1. ChatOf(h) \in Chat
    BY ChatOfHandler
  <2>2. handler' \in [Handler -> HandlerState]
    BY <1>0, <1>4, Moved DEF stopThinkingIndicator
  <2> QED
    BY <1>4, <2>1, <2>2 DEF stopThinkingIndicator, TelegramTypes
<1>5. ASSUME NEW h \in Handler, resolveSessionID(h) PROVE TelegramTypes'
  <2>1. handler' \in [Handler -> HandlerState]
    BY <1>0, <1>5, Moved DEF resolveSessionID
  <2>2. overlapped' \in BOOLEAN
    BY <1>5 DEF resolveSessionID, Ask, TelegramTypes, Stands
  <2> QED
    BY <1>5, <2>1, <2>2 DEF resolveSessionID, TelegramTypes
<1>6. ASSUME NEW h \in Handler, handleNewSession(h) PROVE TelegramTypes'
  <2>1. handler' \in [Handler -> HandlerState]
    BY <1>0, <1>6 DEF handleNewSession, TelegramTypes, HandlerState
  <2>2. overlapped' \in BOOLEAN
    BY <1>6 DEF handleNewSession, Ask, TelegramTypes, Stands
  <2> QED
    BY <1>6, <2>1, <2>2 DEF handleNewSession, TelegramTypes
<1>7. ASSUME NEW h \in Handler, EnterSession(h) PROVE TelegramTypes'
  <2>1. handler' \in [Handler -> HandlerState] /\ replies[h] \in Id
    BY <1>0, <1>7, Moved, ReadId DEF EnterSession
  <2>2. disturbed' \subseteq Chat
    BY <1>7, ChatOfHandler, Disturbed DEF EnterSession
  <2> QED
    BY <1>7, <2>1, <2>2 DEF EnterSession, TelegramTypes
<1>8. ASSUME NEW h \in Handler, FireMessage(h) PROVE TelegramTypes'
  BY <1>0, <1>8, Moved DEF FireMessage, TelegramTypes
<1>9. ASSUME handleMessageReceived PROVE TelegramTypes'
  <2>1. Head(bus).from \in Handler
    BY <1>9, BusShrinks DEF handleMessageReceived, BusIsTelegram
  <2> DEFINE c == ChatOf(Head(bus).from)
  <2>2. c \in Chat
    BY <2>1, ChatOfHandler
  <2>3. CASE owed' = [owed EXCEPT ![c] = @ + 1] /\ UNCHANGED disturbed
    BY <1>9, <2>2, <2>3 DEF handleMessageReceived, TelegramTypes
  <2>4. CASE Disturb(c, TRUE) /\ UNCHANGED owed
    <3>1. disturbed' \subseteq Chat
      BY <2>2, <2>4, Disturbed
    <3> QED
      BY <1>9, <2>4, <3>1 DEF handleMessageReceived, TelegramTypes
  <2> QED
    BY <1>9, <2>3, <2>4 DEF handleMessageReceived
<1>10. ASSUME NEW c \in Chat, SendMessage(c), Answer(c) \/ Notify(c) PROVE TelegramTypes'
  <2>1. owed' \in [Chat -> Nat]
    BY <1>10 DEF Answer, Notify, TelegramTypes
  <2>2. UNCHANGED <<handler, current, thinkingCtx, typing, overlapped>>
    BY <1>10 DEF SendMessage
  <2> QED
    BY <1>10, <2>1, <2>2, SendShown DEF TelegramTypes
<1>11. CASE UNCHANGED telegramVars
  BY <1>11 DEF TelegramTypes
<1> QED
  BY <1>1, <1>2, <1>3, <1>4, <1>5, <1>6, <1>7, <1>8, <1>9, <1>10, <1>11, TelegramSteps
-----------------------------------------------------------------------------
\* What the router does to the rows: their channels stay, with at most one row more.
ChannelsStay ==
  /\ Len(conversations') >= Len(conversations)
  /\ \A i \in 1 .. Len(conversations) : conversations'[i].channel = conversations[i].channel

\* A request of a handler is answered: with nothing, with the new row, or, if it was
\* to ensure a session, with a row that was there.
Answers(h, id) ==
  /\ replies' = [replies EXCEPT ![h] = id]
  /\ ChannelsStay
  /\ \/ id = 0 /\ Len(conversations') = Len(conversations)
     \/ id = Len(conversations')
     \/ /\ bus[1].type = "ensure" /\ Len(conversations') = Len(conversations)
        /\ id \in 1 .. Len(conversations) /\ conversations[id].channel = "telegram"

LEMMA Routed ==
  ASSUME SessionTypes, BusIsTelegram, RouteSession
  PROVE  /\ Take(bus[1].type) /\ bus[1].type # "message" /\ bus[1].from \in Handler
         /\ \E id \in Id : Answers(bus[1].from, id)
<1> DEFINE h == Head(bus).from
<1>0. conversations \in Seq(SessionRow) /\ Len(conversations) \in Nat
  BY DEF SessionTypes
<1>1. ASSUME NEW rows \in Seq(SessionRow), Len(rows) = Len(conversations),
             \A i \in 1 .. Len(rows) : rows[i].channel = conversations[i].channel,
             NEW stored \in BOOLEAN, NewSession(rows, Head(bus), stored),
             Head(bus) \in SessionEvent, h \in Handler
      PROVE  \E id \in Id : Answers(h, id)
  <2>1. /\ ~stored => conversations' = rows
        /\ stored => /\ Len(conversations') = Len(rows) + 1
                     /\ \A i \in 1 .. Len(rows) : conversations'[i] = rows[i]
    BY <1>1, NewRow
  <2>2. ChannelsStay
    BY <1>0, <1>1, <2>1 DEF ChannelsStay
  <2>3. replies' = [replies EXCEPT ![h] = IF stored THEN Len(rows) + 1 ELSE 0]
    BY <1>1 DEF NewSession, Reply
  <2>4. stored => Len(rows) + 1 \in Id
    BY <1>0, <1>1 DEF NewSession, Id
  <2>5. 0 \in Id
    BY DEF Id
  <2> HIDE DEF h
  <2>6. CASE stored
    BY <1>1, <2>1, <2>2, <2>3, <2>4, <2>6 DEF Answers
  <2>7. CASE ~stored
    BY <1>1, <2>1, <2>2, <2>3, <2>5, <2>7 DEF Answers
  <2> QED
    BY <2>6, <2>7
<1>2. ASSUME NEW type, Take(type)
      PROVE  Head(bus) = bus[1] /\ bus[1].type = type /\ type # "end" /\ h \in Handler /\ Head(bus) \in SessionEvent
  BY <1>2, BusShrinks, TakenFromBus DEF BusIsTelegram
<1>3. CASE handleSessionNew
  <2>1. Take("new")
    BY <1>3 DEF handleSessionNew
  <2>2. PICK stored \in BOOLEAN :
          \/ \E old : NewSession(EndConversation(conversations, old), Head(bus), stored)
          \/ NewSession(conversations, Head(bus), stored)
    BY <1>3 DEF handleSessionNew
  <2>3. \E id \in Id : Answers(h, id)
    <3>1. CASE NewSession(conversations, Head(bus), stored)
      BY <1>0, <1>1, <1>2, <2>1, <3>1
    <3>2. ASSUME NEW old, NewSession(EndConversation(conversations, old), Head(bus), stored)
          PROVE  \E id \in Id : Answers(h, id)
      <4> DEFINE rows == EndConversation(conversations, old)
      <4>1. /\ rows \in Seq(SessionRow) /\ Len(rows) = Len(conversations)
            /\ \A i \in 1 .. Len(conversations) : rows[i].channel = conversations[i].channel
        BY <1>0, Ended
      <4> HIDE DEF rows, h
      <4>2. NewSession(rows, Head(bus), stored) /\ h \in Handler /\ Head(bus) \in SessionEvent
        BY <1>2, <2>1, <3>2 DEF rows, h
      <4> QED
        BY <1>1, <4>1, <4>2
    <3> QED
      BY <2>2, <3>1, <3>2
  <2> QED
    BY <1>2, <2>1, <2>3
<1>4. CASE handleSessionEnsure
  <2>1. Take("ensure")
    BY <1>4 DEF handleSessionEnsure
  <2>2. Head(bus) = bus[1] /\ bus[1].type = "ensure" /\ h \in Handler /\ Head(bus).channel = "telegram"
    BY <1>2, <2>1, BusShrinks DEF BusIsTelegram
  <2>3. ASSUME NEW id \in GetActiveConversationByChannel(Head(bus).channel, Head(bus).agent),
               Reply(id), UNCHANGED conversations
        PROVE  \E i \in Id : Answers(h, i)
    <3>1. id \in Id /\ id \in 1 .. Len(conversations)
      BY <2>3, FoundIsRow
    <3>2. conversations[id].channel = "telegram"
      BY <2>2 DEF GetActiveConversationByChannel
    <3>3. replies' = [replies EXCEPT ![h] = id]
      BY <2>2, <2>3 DEF Reply
    <3>4. ChannelsStay /\ Len(conversations') = Len(conversations)
      BY <1>0, <2>3 DEF ChannelsStay
    <3> HIDE DEF h
    <3>5. Answers(h, id)
      BY <2>2, <3>1, <3>2, <3>3, <3>4 DEF Answers
    <3> QED
      BY <3>1, <3>5
  <2>4. ASSUME NEW stored \in BOOLEAN, NewSession(conversations, Head(bus), stored)
        PROVE  \E id \in Id : Answers(h, id)
    BY <1>0, <1>1, <1>2, <2>1, <2>4
  <2>5. \E id \in Id : Answers(h, id)
    BY <1>4, <2>3, <2>4 DEF handleSessionEnsure
  <2> QED
    BY <1>2, <2>1, <2>5
<1>5. ~handleSessionEnd
  BY <1>2 DEF handleSessionEnd
<1> QED
  BY <1>3, <1>4, <1>5 DEF RouteSession

LEMMA EndedByAPI ==
  ASSUME SessionTypes, EndByAPI
  PROVE  ChannelsStay /\ Len(conversations') = Len(conversations) /\ UNCHANGED <<bus, replies>>
<1>1. PICK id \in DOMAIN conversations : conversations' = EndConversation(conversations, id)
  BY DEF EndByAPI
<1>2. conversations \in Seq(SessionRow)
  BY DEF SessionTypes
<1>3. /\ Len(conversations') = Len(conversations)
      /\ \A i \in 1 .. Len(conversations) : conversations'[i].channel = conversations[i].channel
  BY <1>1, <1>2, Ended
<1>4. ChannelsStay
  BY <1>2, <1>3 DEF ChannelsStay
<1> QED
  BY <1>3, <1>4 DEF EndByAPI
-----------------------------------------------------------------------------
\* A handler asks for a new session at once.
NewOnlyAsks == \A h \in Handler : handler[h].new => handler[h].at \in {"asked", "done"}

\* No row of the channel is later than the one with this id.
Latest(id) == \A i \in 1 .. Len(conversations) : i > id => conversations[i].channel # "telegram"

Answered(h) == replies[h] # NoReply /\ replies[h] # 0

\* While requests do not overlap, there is at most one, on the bus or answered; the
\* answer, and then the channel's session, is the latest.
RequestsFit ==
  /\ \A h, g \in Handler : Stands(h, "asked") /\ Stands(g, "asked") => h = g
  /\ \A i, j \in 1 .. Len(bus) : bus[i].type # "message" /\ bus[j].type # "message" => i = j
  /\ \A i \in 1 .. Len(bus) : bus[i].type # "message" =>
       /\ Stands(bus[i].from, "asked") /\ replies[bus[i].from] = NoReply
       /\ bus[i].type = "ensure" => current = 0
  /\ \A h \in Handler : replies[h] # NoReply => Stands(h, "asked")
  /\ \A h \in Handler : Answered(h) => Latest(replies[h])
  /\ (\A h \in Handler : ~Answered(h)) => Latest(current)

RequestsSound == overlapped \/ RequestsFit

USE DEF Stands

\* The requests on the bus are the ones that were there.
RequestsStay ==
  \E k \in {0, 1} : \A i \in 1 .. Len(bus') :
    bus'[i].type # "message" => i + k \in 1 .. Len(bus) /\ bus'[i] = bus[i + k]

LEMMA RequestsStayPut ==
  ASSUME SessionTypes,
         \/ UNCHANGED bus
         \/ \E e \in SessionEvent : Publish(e) /\ e.type = "message"
         \/ \E type : Take(type)
  PROVE  RequestsStay
<1>0. Len(bus) \in Nat
  BY DEF SessionTypes
<1>1. CASE UNCHANGED bus
  <2>1. \A i \in 1 .. Len(bus') : i + 0 \in 1 .. Len(bus) /\ bus'[i] = bus[i + 0]
    BY <1>0, <1>1
  <2> QED
    BY <2>1 DEF RequestsStay
<1>2. CASE \E e \in SessionEvent : Publish(e) /\ e.type = "message"
  <2>1. PICK e \in SessionEvent : Publish(e) /\ e.type = "message"
    BY <1>2
  <2>2. \A i \in 1 .. Len(bus') : bus'[i].type # "message" => i + 0 \in 1 .. Len(bus) /\ bus'[i] = bus[i + 0]
    BY <2>1, BusGrows
  <2> QED
    BY <2>2 DEF RequestsStay
<1>3. CASE \E type : Take(type)
  BY <1>3, BusShrinks DEF RequestsStay
<1> QED
  BY <1>1, <1>2, <1>3

\* A step that is not about sessions.
LEMMA RequestsQuiet ==
  ASSUME RequestsFit, BusIsTelegram, RequestsStay, ChannelsStay, Len(conversations') = Len(conversations),
         UNCHANGED <<replies, current>>,
         \A h \in Handler : handler'[h].at = "asked" <=> Stands(h, "asked")
  PROVE  RequestsFit'
<1>1. PICK k \in {0, 1} : \A i \in 1 .. Len(bus') :
        bus'[i].type # "message" => i + k \in 1 .. Len(bus) /\ bus'[i] = bus[i + k]
  BY DEF RequestsStay
<1>2. \A i, j \in 1 .. Len(bus') : bus'[i].type # "message" /\ bus'[j].type # "message" => i = j
  <2> SUFFICES ASSUME NEW i \in 1 .. Len(bus'), NEW j \in 1 .. Len(bus'),
                      bus'[i].type # "message", bus'[j].type # "message"
               PROVE  i = j
    OBVIOUS
  <2>1. i + k = j + k
    BY <1>1 DEF RequestsFit
  <2> QED
    BY <2>1
<1>3. \A i \in 1 .. Len(bus') : bus'[i].type # "message" =>
       /\ handler'[bus'[i].from].at = "asked" /\ replies'[bus'[i].from] = NoReply
       /\ bus'[i].type = "ensure" => current' = 0
  BY <1>1 DEF RequestsFit, BusIsTelegram
<1>4. \A id : Latest(id) => \A i \in 1 .. Len(conversations') : i > id => conversations'[i].channel # "telegram"
  BY DEF Latest, ChannelsStay
<1>5. \A h \in Handler : Answered(h)' <=> Answered(h)
  BY DEF Answered
<1>6. \A h \in Handler : Answered(h)' => Latest(replies[h])'
  BY <1>4, <1>5 DEF RequestsFit, Latest
<1>7. (\A h \in Handler : ~Answered(h)') => Latest(current)'
  BY <1>4, <1>5 DEF RequestsFit, Latest
<1> QED
  BY <1>2, <1>3, <1>6, <1>7 DEF RequestsFit

\* A handler asks: no other does, so nothing else is under way.
LEMMA RequestsAsked ==
  ASSUME SessionTypes, TelegramTypes, BusIsTelegram, RequestsFit,
         NEW h \in Handler, NEW type \in {"new", "ensure"}, Ask(h, type), ~overlapped',
         UNCHANGED <<conversations, replies, current>>, type = "ensure" => current = 0,
         handler'[h].at = "asked", \A g \in Handler \ {h} : handler'[g].at = "asked" <=> Stands(g, "asked")
  PROVE  RequestsFit'
<1> DEFINE e == Event(type, "telegram", "executive", 0, h)
<1>1. \A g \in Handler : ~Stands(g, "asked") /\ replies[g] = NoReply
  BY DEF Ask, RequestsFit
<1>2. \A i \in 1 .. Len(bus) : bus[i].type = "message"
  BY <1>1 DEF RequestsFit, BusIsTelegram
<1>3. e \in SessionEvent /\ Publish(e) /\ e.type = type /\ e.from = h
  BY TelegramEvents DEF Ask, Event, Id
<1> HIDE DEF e
<1>4. /\ Len(bus) \in Nat /\ Len(bus') = Len(bus) + 1 /\ bus'[Len(bus) + 1] = e
      /\ \A i \in 1 .. Len(bus') : bus'[i].type # "message" => i = Len(bus) + 1
  BY <1>2, <1>3, BusGrows
<1>5. \A i, j \in 1 .. Len(bus') : bus'[i].type # "message" /\ bus'[j].type # "message" => i = j
  BY <1>4
<1>6. \A i \in 1 .. Len(bus') : bus'[i].type # "message" =>
       /\ handler'[bus'[i].from].at = "asked" /\ replies'[bus'[i].from] = NoReply
       /\ bus'[i].type = "ensure" => current' = 0
  BY <1>1, <1>3, <1>4
<1>7. \A g \in Handler : ~Answered(g) /\ ~Answered(g)'
  BY <1>1 DEF Answered
<1>8. Latest(current)'
  BY <1>7 DEF RequestsFit, Latest
<1>9. \A g, f \in Handler : handler'[g].at = "asked" /\ handler'[f].at = "asked" => g = f
  BY <1>1
<1> QED
  BY <1>1, <1>5, <1>6, <1>7, <1>8, <1>9 DEF RequestsFit

\* The request is answered with the latest session.
LEMMA RequestsAnswered ==
  ASSUME SessionTypes, TelegramTypes, BusIsTelegram, RequestsFit, RouteSession, UNCHANGED telegramVars
  PROVE  RequestsFit'
<1>1. PICK h \in Handler : /\ h = bus[1].from /\ bus[1].type # "message" /\ Take(bus[1].type)
                           /\ \E id \in Id : Answers(h, id)
  BY Routed
<1>2. PICK id \in Id : Answers(h, id)
  BY <1>1
<1>3. /\ Len(bus) \in Nat \ {0} /\ 1 \in 1 .. Len(bus) /\ Len(bus') = Len(bus) - 1
      /\ \A i \in 1 .. Len(bus') : i + 1 \in 1 .. Len(bus) /\ bus'[i] = bus[i + 1]
  BY <1>1, BusShrinks
<1>4. Stands(h, "asked") /\ replies[h] = NoReply /\ (bus[1].type = "ensure" => current = 0)
  BY <1>1, <1>3 DEF RequestsFit
<1>5. \A i \in 1 .. Len(bus') : bus'[i].type = "message"
  BY <1>1, <1>3 DEF RequestsFit
<1>6. \A g \in Handler \ {h} : ~Stands(g, "asked") /\ replies[g] = NoReply
  BY <1>4 DEF RequestsFit
<1>7. Latest(current)
  BY <1>4, <1>6 DEF RequestsFit, Answered
<1>8. /\ \A g \in Handler : handler'[g].at = "asked" <=> Stands(g, "asked")
      /\ current' = current
  BY DEF telegramVars, Stands
<1>9. replies'[h] = id /\ \A g \in Handler \ {h} : replies'[g] = NoReply
  BY <1>2, <1>6 DEF Answers, SessionTypes
<1>10. Len(conversations) \in Nat /\ current \in Int
  BY DEF SessionTypes, TelegramTypes, Id
<1>11. CASE id = 0
  <2>1. \A g \in Handler : ~Answered(g)'
    BY <1>9, <1>11 DEF Answered
  <2>2. Latest(current)'
    BY <1>2, <1>7, <1>8, <1>10, <1>11 DEF Answers, Latest, ChannelsStay
  <2> QED
    BY <1>4, <1>5, <1>6, <1>8, <1>9, <2>1, <2>2 DEF RequestsFit
<1>12. CASE id # 0
  <2>1. id = Len(conversations')
    <3>1. ASSUME bus[1].type = "ensure", id \in 1 .. Len(conversations), conversations[id].channel = "telegram"
          PROVE  FALSE
      BY <1>4, <1>7, <3>1 DEF Latest
    <3> QED
      BY <1>2, <1>12, <3>1 DEF Answers
  <2>2. Answered(h)' /\ \A g \in Handler : Answered(g)' => g = h
    BY <1>9, <1>12 DEF Answered, Id, NoReply
  <2>3. Latest(replies[h])'
    BY <1>9, <2>1 DEF Latest
  <2> QED
    BY <1>4, <1>5, <1>6, <1>8, <1>9, <2>2, <2>3 DEF RequestsFit
<1> QED
  BY <1>11, <1>12

\* The answer is read: the channel is in the latest session then.
LEMMA RequestsEnter ==
  ASSUME SessionTypes, TelegramTypes, BusIsTelegram, RequestsFit, NEW h \in Handler, EnterSession(h)
  PROVE  RequestsFit'
<1>1. /\ Stands(h, "asked") /\ replies[h] # NoReply
      /\ current' = IF replies[h] = 0 THEN current ELSE replies[h]
      /\ replies' = [replies EXCEPT ![h] = NoReply]
      /\ UNCHANGED <<conversations, bus>>
  BY DEF EnterSession
<1>2. handler'[h].at # "asked" /\ \A g \in Handler \ {h} : handler'[g].at = handler[g].at
  <2>1. PICK there \in {"done", "resolved"} : Move(h, there)
    BY DEF EnterSession
  <2> QED
    BY <2>1, Moved DEF Step
<1>3. \A g \in Handler \ {h} : ~Stands(g, "asked") /\ replies[g] = NoReply
  BY <1>1 DEF RequestsFit
<1>4. \A i \in 1 .. Len(bus) : bus[i].type = "message"
  BY <1>1, <1>3 DEF RequestsFit, BusIsTelegram
<1>5. \A g \in Handler : ~handler'[g].at = "asked"
  BY <1>2, <1>3 DEF Stands
<1>6. \A g \in Handler : replies'[g] = NoReply
  BY <1>1, <1>3 DEF SessionTypes
<1>7. Latest(current')
  BY <1>1, <1>3 DEF RequestsFit, Answered
<1>8. Latest(current)'
  BY <1>1, <1>7 DEF Latest
<1> QED
  BY <1>1, <1>4, <1>5, <1>6, <1>8 DEF RequestsFit, Answered
-----------------------------------------------------------------------------
\* A chat's messages: being handled, and on the bus.
InProgress(c) ==
  {h \in Handler : ChatOf(h) = c /\ ~handler[h].new /\ handler[h].at \notin {"none", "done"}}

Mail(c) == {i \in 1 .. Len(bus) : bus[i].type = "message" /\ ChatOf(bus[i].from) = c}

\* A chat nothing disturbed has one message at a time, being handled, on the bus, or
\* with the agents.
OneAtATime(c) ==
  /\ \A h, g \in InProgress(c) : h = g
  /\ \A i, j \in Mail(c) : i = j
  /\ owed[c] <= 1
  /\ InProgress(c) # {} => Mail(c) = {} /\ owed[c] = 0
  /\ Mail(c) # {} => owed[c] = 0

\* Its placeholder is known, and is there only for a message that has no answer; so
\* is its typing indicator, until the placeholder replaces it.
PlaceholderFits(c) ==
  /\ \A i \in 1 .. Len(shown[c]) : shown[c][i] = Thinking => i = placeholders[c]
  /\ placeholders[c] # 0 =>
       owed[c] > 0 \/ Mail(c) # {} \/ \E h \in InProgress(c) : handler[h].at # "typing"
  /\ \A h \in typing : ChatOf(h) = c =>
       thinkingCtx[c] = h /\ h \in InProgress(c) /\ handler[h].at \in {"typing", "placed"}

ChatFits(c) == OneAtATime(c) /\ PlaceholderFits(c)

ChatsSound == \A c \in Chat : c \notin disturbed => ChatFits(c)

\* What the bus holds for a chat moves up, if at all.
MailStays(c) ==
  /\ \E k \in {0, 1} : \A i \in Mail(c)' : i + k \in Mail(c)
  /\ Mail(c) # {} => Mail(c)' # {}

\* The handlers' chats stay.
ChatsStay == \A h \in Handler : handler'[h].chat = handler[h].chat

LEMMA MailStaysPut ==
  ASSUME SessionTypes, BusIsTelegram, ChatsStay, NEW c \in Chat,
         \/ UNCHANGED bus
         \/ \E e \in SessionEvent : Publish(e) /\ (e.type # "message" \/ ChatOf(e.from) # c) /\ e.from \in Handler
         \/ \E type : Take(type) /\ (type # "message" \/ ChatOf(bus[1].from) # c)
  PROVE  MailStays(c)
<1>0. Len(bus) \in Nat /\ \A i \in 1 .. Len(bus) : bus[i].from \in Handler
  BY DEF SessionTypes, BusIsTelegram
<1>1. CASE UNCHANGED bus
  <2>1. \A i : i \in Mail(c)' <=> i \in Mail(c)
    BY <1>0, <1>1 DEF Mail, ChatOf, ChatsStay
  <2>2. \A i \in Mail(c)' : i + 0 \in Mail(c)
    BY <1>0, <2>1 DEF Mail
  <2> QED
    BY <2>1, <2>2 DEF MailStays
<1>2. ASSUME NEW e \in SessionEvent, Publish(e), e.type # "message" \/ ChatOf(e.from) # c, e.from \in Handler
      PROVE  MailStays(c)
  <2>1. /\ Len(bus') = Len(bus) + 1 /\ \A i \in 1 .. Len(bus) : bus'[i] = bus[i]
        /\ bus'[Len(bus) + 1] = e
        /\ \A i \in 1 .. Len(bus) + 1 : i \in 1 .. Len(bus) \/ i = Len(bus) + 1
    BY <1>2, BusGrows
  <2>2. \A i : i \in Mail(c)' <=> i \in Mail(c)
    <3>1. ASSUME NEW i \in Mail(c)' PROVE i \in Mail(c)
      <4>1. /\ i \in 1 .. Len(bus) + 1 /\ bus'[i].type = "message" /\ handler'[bus'[i].from].chat = c
        BY <2>1 DEF Mail, ChatOf
      <4>2. i # Len(bus) + 1
        BY <1>2, <2>1, <4>1 DEF ChatOf, ChatsStay
      <4> QED
        BY <1>0, <2>1, <4>1, <4>2 DEF Mail, ChatOf, ChatsStay
    <3>2. ASSUME NEW i \in Mail(c) PROVE i \in Mail(c)'
      <4>1. i \in 1 .. Len(bus) /\ bus[i].type = "message" /\ handler[bus[i].from].chat = c
        BY DEF Mail, ChatOf
      <4>2. i \in 1 .. Len(bus')
        BY <1>0, <2>1, <4>1
      <4> QED
        BY <1>0, <2>1, <4>1, <4>2 DEF Mail, ChatOf, ChatsStay
    <3> QED
      BY <3>1, <3>2
  <2>3. \A i \in Mail(c)' : i + 0 \in Mail(c)
    BY <1>0, <2>2 DEF Mail
  <2> QED
    BY <2>2, <2>3 DEF MailStays
<1>3. ASSUME NEW type, Take(type), type # "message" \/ ChatOf(bus[1].from) # c
      PROVE  MailStays(c)
  <2>1. /\ Len(bus') = Len(bus) - 1 /\ bus[1].type = type
        /\ \A i \in 1 .. Len(bus') : i + 1 \in 1 .. Len(bus) /\ bus'[i] = bus[i + 1]
    BY <1>3, BusShrinks
  <2>2. \A i \in Mail(c)' : i + 1 \in Mail(c)
    BY <1>0, <2>1 DEF Mail, ChatOf, ChatsStay
  <2>3. ASSUME NEW i \in Mail(c) PROVE i - 1 \in Mail(c)'
    <3>1. i \in 1 .. Len(bus) /\ bus[i].type = "message" /\ handler[bus[i].from].chat = c
      BY DEF Mail, ChatOf
    <3>2. i # 1
      BY <1>3, <2>1, <3>1 DEF ChatOf
    <3>3. i - 1 \in 1 .. Len(bus') /\ bus'[i - 1] = bus[i]
      BY <1>0, <2>1, <3>1, <3>2
    <3> QED
      BY <1>0, <3>1, <3>3 DEF Mail, ChatOf, ChatsStay
  <2> QED
    BY <2>2, <2>3 DEF MailStays
<1> QED
  BY <1>1, <1>2, <1>3

\* A step of which the chat notices nothing, but that its handler may go on.
LEMMA ChatQuiet ==
  ASSUME NEW c \in Chat, ChatFits(c), MailStays(c), ChatsStay,
         owed'[c] = owed[c], placeholders'[c] = placeholders[c], shown'[c] = shown[c],
         \A h \in Handler : h \in InProgress(c)' <=> h \in InProgress(c),
         \A h \in InProgress(c) : handler[h].at # "typing" => handler'[h].at # "typing",
         \A h \in typing' : ChatOf(h) = c =>
           /\ h \in typing /\ thinkingCtx'[c] = thinkingCtx[c]
           /\ handler'[h].at = handler[h].at \/ handler'[h].at = "placed",
         typing' \subseteq Handler
  PROVE  ChatFits(c)'
<1>1. PICK k \in {0, 1} : \A i \in Mail(c)' : i + k \in Mail(c)
  BY DEF MailStays
<1>2. /\ Mail(c)' # {} <=> Mail(c) # {}
      /\ InProgress(c)' # {} <=> InProgress(c) # {}
  BY <1>1 DEF MailStays, InProgress
<1>3. \A i, j \in Mail(c)' : i = j
  <2> SUFFICES ASSUME NEW i \in Mail(c)', NEW j \in Mail(c)' PROVE i = j
    OBVIOUS
  <2>1. i + k = j + k
    BY <1>1 DEF ChatFits, OneAtATime
  <2>2. i \in Int /\ j \in Int
    BY DEF Mail
  <2> QED
    BY <2>1, <2>2
<1>4. OneAtATime(c)'
  <2>1. \A h, g \in InProgress(c)' : h = g
    BY DEF ChatFits, OneAtATime, InProgress
  <2> QED
    BY <1>2, <1>3, <2>1 DEF ChatFits, OneAtATime
<1>5. PlaceholderFits(c)'
  <2>1. \A i \in 1 .. Len(shown'[c]) : shown'[c][i] = Thinking => i = placeholders'[c]
    BY DEF ChatFits, PlaceholderFits
  <2>2. (\E h \in InProgress(c) : handler[h].at # "typing")
          => \E h \in InProgress(c)' : handler'[h].at # "typing"
    BY DEF InProgress
  <2>3. placeholders'[c] # 0 =>
          owed'[c] > 0 \/ Mail(c)' # {} \/ \E h \in InProgress(c)' : handler'[h].at # "typing"
    BY <1>2, <2>2 DEF ChatFits, PlaceholderFits
  <2>4. ASSUME NEW h \in typing', ChatOf(h)' = c
        PROVE  thinkingCtx'[c] = h /\ h \in InProgress(c)' /\ handler'[h].at \in {"typing", "placed"}
    <3>1. ChatOf(h) = c /\ h \in Handler
      BY <2>4 DEF ChatOf, ChatsStay
    <3>2. h \in typing /\ thinkingCtx'[c] = thinkingCtx[c]
         /\ (handler'[h].at = handler[h].at \/ handler'[h].at = "placed")
      BY <3>1
    <3> QED
      BY <3>1, <3>2 DEF ChatFits, PlaceholderFits
  <2> QED
    BY <2>1, <2>3, <2>4 DEF PlaceholderFits
<1> QED
  BY <1>4, <1>5 DEF ChatFits
\* A step of one handler, seen from the chats: the others' handlers stay.
OnlyMoves(h) ==
  /\ handler'[h].chat = handler[h].chat
  /\ \A g \in Handler \ {h} : /\ handler'[g].chat = handler[g].chat /\ handler'[g].at = handler[g].at
                              /\ handler'[g].new = handler[g].new

LEMMA ItMoves ==
  ASSUME TelegramTypes, NEW h \in Handler, NEW there \in Step, Move(h, there)
  PROVE  OnlyMoves(h) /\ handler'[h].at = there /\ handler'[h].new = handler[h].new
BY Moved DEF OnlyMoves

LEMMA OtherChats ==
  ASSUME ChatsSound, NEW h \in Handler, OnlyMoves(h), NEW c \in Chat, c # ChatOf(h),
         c \notin disturbed, MailStays(c),
         owed'[c] = owed[c], placeholders'[c] = placeholders[c], shown'[c] = shown[c],
         thinkingCtx'[c] = thinkingCtx[c],
         typing' \subseteq Handler, \A g \in typing' \ {h} : g \in typing
  PROVE  ChatFits(c)'
<1>1. ChatFits(c) /\ ChatsStay
  BY DEF ChatsSound, OnlyMoves, ChatsStay
<1>2. \A g \in Handler : ChatOf(g) = c => g # h
  OBVIOUS
<1>3. \A g \in Handler : g \in InProgress(c)' <=> g \in InProgress(c)
  BY <1>2 DEF InProgress, OnlyMoves, ChatOf
<1>4. \A g \in InProgress(c) : handler'[g].at = handler[g].at
  BY <1>2 DEF InProgress, OnlyMoves
<1>5. \A g \in typing' : ChatOf(g) = c =>
        /\ g \in typing /\ thinkingCtx'[c] = thinkingCtx[c]
        /\ handler'[g].at = handler[g].at \/ handler'[g].at = "placed"
  BY <1>2 DEF OnlyMoves
<1> QED
  BY <1>1, <1>3, <1>4, <1>5, ChatQuiet

\* A handler's own chat, while the handler is neither in progress nor shown typing.
LEMMA OwnChat ==
  ASSUME ChatsSound, NEW h \in Handler, OnlyMoves(h), NEW c \in Chat, c = ChatOf(h),
         c \notin disturbed, MailStays(c), UNCHANGED <<owed, placeholders, shown, thinkingCtx, typing>>,
         typing \subseteq Handler,
         h \in InProgress(c)' <=> h \in InProgress(c),
         handler[h].at \notin {"typing", "placed"}, handler'[h].at # "typing"
  PROVE  ChatFits(c)'
<1>1. ChatFits(c) /\ ChatsStay
  BY DEF ChatsSound, OnlyMoves, ChatsStay
<1>2. h \notin typing
  BY <1>1 DEF ChatFits, PlaceholderFits
<1>3. \A g \in Handler : g \in InProgress(c)' <=> g \in InProgress(c)
  BY DEF InProgress, OnlyMoves, ChatOf
<1>4. \A g \in InProgress(c) : handler[g].at # "typing" => handler'[g].at # "typing"
  BY DEF InProgress, OnlyMoves
<1>5. \A g \in typing' : ChatOf(g) = c =>
        /\ g \in typing /\ thinkingCtx'[c] = thinkingCtx[c]
        /\ handler'[g].at = handler[g].at \/ handler'[g].at = "placed"
  BY <1>2 DEF OnlyMoves
<1> QED
  BY <1>1, <1>3, <1>4, <1>5, ChatQuiet

\* No step of a handler: the chat is quiet but for its bus.
LEMMA NoHandler ==
  ASSUME ChatsSound, NEW c \in Chat, c \notin disturbed, MailStays(c),
         UNCHANGED <<handler, thinkingCtx, typing>>, typing \subseteq Handler,
         owed'[c] = owed[c], placeholders'[c] = placeholders[c], shown'[c] = shown[c]
  PROVE  ChatFits(c)'
<1>1. ChatFits(c) /\ ChatsStay
  BY DEF ChatsSound, ChatsStay
<1>2. \A g \in Handler : g \in InProgress(c)' <=> g \in InProgress(c)
  BY DEF InProgress, ChatOf
<1> QED
  BY <1>1, <1>2, ChatQuiet

\* A message arrives in a chat where nothing is under way.
LEMMA ChatStarts ==
  ASSUME SessionTypes, TelegramTypes, BusIsTelegram, NewOnlyAsks, ChatsSound,
         NEW h \in Handler, sendThinkingIndicator(h), NEW c \in Chat, c = ChatOf(h), c \notin disturbed'
  PROVE  ChatFits(c)'
<1>1. c \notin disturbed /\ Quiet(c)
  BY Disturbed DEF sendThinkingIndicator
<1>2. ChatFits(c)
  BY <1>1 DEF ChatsSound
<1>3. InProgress(c) = {} /\ owed[c] = 0
  BY <1>1 DEF Quiet, HandlersIn, InProgress
<1>4. Mail(c) = {}
  BY <1>1 DEF Quiet, Underway, Mail, BusIsTelegram, SessionTypes
<1>5. placeholders[c] = 0 /\ \A i \in 1 .. Len(shown[c]) : shown[c][i] # Thinking
  BY <1>2, <1>3, <1>4 DEF ChatFits, PlaceholderFits
<1>6. \A g \in typing : ChatOf(g) # c
  BY <1>2, <1>3 DEF ChatFits, PlaceholderFits
<1>7. OnlyMoves(h) /\ handler'[h].at = "typing" /\ handler'[h].new = handler[h].new /\ ~handler[h].new
  <2>1. "typing" \in Step
    BY DEF Step
  <2> QED
    BY <2>1, ItMoves DEF sendThinkingIndicator, NewOnlyAsks, TelegramTypes, HandlerState
<1>8. UNCHANGED <<bus, owed, placeholders, shown>> /\ typing' = typing \cup {h} /\ thinkingCtx'[c] = h
  BY DEF sendThinkingIndicator, sessionVars, TelegramTypes
<1>9. \A g \in InProgress(c)' : g = h
  BY <1>3, <1>7 DEF InProgress, OnlyMoves, ChatOf
<1>10. h \in InProgress(c)'
  BY <1>7 DEF InProgress, OnlyMoves, ChatOf
<1>11. Mail(c)' = {}
  BY <1>4, <1>7, <1>8 DEF Mail, OnlyMoves, ChatOf, BusIsTelegram
<1>12. OneAtATime(c)'
  BY <1>3, <1>8, <1>9, <1>11 DEF OneAtATime
<1>13. PlaceholderFits(c)'
  <2>1. \A g \in typing' : ChatOf(g)' = c => g = h
    BY <1>6, <1>7, <1>8 DEF OnlyMoves, ChatOf, TelegramTypes
  <2> QED
    BY <1>5, <1>7, <1>8, <1>10, <2>1 DEF PlaceholderFits
<1> QED
  BY <1>12, <1>13 DEF ChatFits

\* The placeholder is put in a chat that has none.
LEMMA ChatPlaces ==
  ASSUME SessionTypes, TelegramTypes, BusIsTelegram, NewOnlyAsks, ChatsSound,
         NEW h \in Handler, createPlaceholder(h), NEW c \in Chat, c = ChatOf(h), c \notin disturbed
  PROVE  ChatFits(c)'
<1>1. ChatFits(c)
  BY DEF ChatsSound
<1>2. h \in InProgress(c) /\ handler[h].at = "typing"
  BY DEF createPlaceholder, InProgress, NewOnlyAsks
<1>3. InProgress(c) = {h} /\ Mail(c) = {} /\ owed[c] = 0
  BY <1>1, <1>2 DEF ChatFits, OneAtATime
<1>4. placeholders[c] = 0 /\ \A i \in 1 .. Len(shown[c]) : shown[c][i] # Thinking
  BY <1>1, <1>2, <1>3 DEF ChatFits, PlaceholderFits
<1>5. OnlyMoves(h) /\ handler'[h].at = "placed" /\ handler'[h].new = handler[h].new
  <2>1. "placed" \in Step
    BY DEF Step
  <2> QED
    BY <2>1, ItMoves DEF createPlaceholder
<1>6. UNCHANGED <<bus, owed, thinkingCtx, typing>>
  BY DEF createPlaceholder, sessionVars
<1>7. Mail(c)' = {}
  BY <1>3, <1>5, <1>6 DEF Mail, OnlyMoves, ChatOf, BusIsTelegram
<1>8. \A g \in Handler : g \in InProgress(c)' <=> g = h
  BY <1>2, <1>3, <1>5 DEF InProgress, OnlyMoves, ChatOf
<1>9. \A i \in 1 .. Len(shown'[c]) : shown'[c][i] = Thinking => i = placeholders'[c]
  <2>1. CASE UNCHANGED <<shown, placeholders>>
    BY <1>4, <2>1
  <2>2. CASE /\ shown' = [shown EXCEPT ![c] = Append(@, Thinking)]
             /\ placeholders' = [placeholders EXCEPT ![c] = Len(shown[c]) + 1]
    <3> DEFINE list == shown[c]
    <3>1. list \in Seq(Nat) /\ \A i \in 1 .. Len(list) : list[i] # Thinking
      BY <1>4 DEF TelegramTypes
    <3>2. shown'[c] = Append(list, Thinking) /\ placeholders'[c] = Len(list) + 1
      BY <2>2 DEF TelegramTypes
    <3> HIDE DEF list
    <3> QED
      BY <3>1, <3>2, OneMore DEF Thinking
  <2> QED
    BY <2>1, <2>2 DEF createPlaceholder
<1>10. OneAtATime(c)'
  <2>1. \A g \in InProgress(c)' : g = h
    BY <1>8 DEF InProgress
  <2> QED
    BY <1>3, <1>6, <1>7, <2>1 DEF OneAtATime
<1>11. PlaceholderFits(c)'
  <2>1. \A g \in typing' : ChatOf(g)' = c =>
          thinkingCtx'[c] = g /\ g \in InProgress(c)' /\ handler'[g].at \in {"typing", "placed"}
    <3> SUFFICES ASSUME NEW g \in typing, ChatOf(g)' = c
                 PROVE  thinkingCtx[c] = g /\ g \in InProgress(c)' /\ handler'[g].at \in {"typing", "placed"}
      BY <1>6
    <3>1. g \in Handler /\ ChatOf(g) = c
      BY <1>5 DEF ChatOf, OnlyMoves, TelegramTypes
    <3>2. thinkingCtx[c] = g /\ g \in InProgress(c)
      BY <1>1, <3>1 DEF ChatFits, PlaceholderFits
    <3> QED
      BY <1>3, <1>5, <1>8, <3>2
  <2>2. h \in InProgress(c)' /\ handler'[h].at # "typing"
    BY <1>5, <1>8
  <2> QED
    BY <1>9, <2>1, <2>2 DEF PlaceholderFits
<1> QED
  BY <1>10, <1>11 DEF ChatFits
\* The message goes to the bus: its chat has that one and no handler.
LEMMA ChatFires ==
  ASSUME SessionTypes, TelegramTypes, BusIsTelegram, NewOnlyAsks, ChatsSound,
         NEW h \in Handler, FireMessage(h), NEW c \in Chat, c = ChatOf(h), c \notin disturbed
  PROVE  ChatFits(c)'
<1>1. ChatFits(c)
  BY DEF ChatsSound
<1>2. h \in InProgress(c) /\ handler[h].at = "resolved"
  BY DEF FireMessage, InProgress, NewOnlyAsks
<1>3. InProgress(c) = {h} /\ Mail(c) = {} /\ owed[c] = 0
  BY <1>1, <1>2 DEF ChatFits, OneAtATime
<1>4. OnlyMoves(h) /\ handler'[h].at = "done" /\ handler'[h].new = handler[h].new
  <2>1. "done" \in Step
    BY DEF Step
  <2> QED
    BY <2>1, ItMoves DEF FireMessage
<1>5. UNCHANGED <<owed, placeholders, shown, thinkingCtx, typing>>
  BY DEF FireMessage
<1> DEFINE e == Event("message", "telegram", "executive", current, h)
<1>6. e \in SessionEvent /\ Publish(e) /\ e.type = "message" /\ e.from = h
  BY TelegramEvents DEF FireMessage, Event, TelegramTypes
<1> HIDE DEF e
<1>7. /\ Len(bus) \in Nat /\ Len(bus') = Len(bus) + 1 /\ bus'[Len(bus) + 1] = e
      /\ \A i \in 1 .. Len(bus) : bus'[i] = bus[i]
      /\ \A i \in 1 .. Len(bus) + 1 : i \in 1 .. Len(bus) \/ i = Len(bus) + 1
  BY <1>6, BusGrows
<1>8. \A i \in Mail(c)' : i = Len(bus) + 1
  <2> SUFFICES ASSUME NEW i \in 1 .. Len(bus), bus'[i].type = "message", handler'[bus'[i].from].chat = c
               PROVE  FALSE
    BY <1>7 DEF Mail, ChatOf
  <2>1. i \in Mail(c)
    BY <1>4, <1>7 DEF Mail, ChatOf, OnlyMoves, BusIsTelegram
  <2> QED
    BY <1>3, <2>1
<1>9. Len(bus) + 1 \in Mail(c)'
  BY <1>4, <1>6, <1>7 DEF Mail, ChatOf, OnlyMoves
<1>10. InProgress(c)' = {}
  BY <1>3, <1>4 DEF InProgress, OnlyMoves, ChatOf
<1>11. OneAtATime(c)'
  BY <1>3, <1>5, <1>8, <1>10 DEF OneAtATime
<1>12. \A g \in typing : ChatOf(g)' # c
  <2> SUFFICES ASSUME NEW g \in typing, ChatOf(g)' = c PROVE FALSE
    OBVIOUS
  <2>1. ChatOf(g) = c
    BY <1>4 DEF ChatOf, OnlyMoves, TelegramTypes
  <2>2. g \in InProgress(c) /\ handler[g].at \in {"typing", "placed"}
    BY <1>1, <2>1 DEF ChatFits, PlaceholderFits
  <2> QED
    BY <1>2, <1>3, <2>2
<1>13. PlaceholderFits(c)'
  BY <1>1, <1>5, <1>9, <1>12 DEF ChatFits, PlaceholderFits
<1> QED
  BY <1>11, <1>13 DEF ChatFits

\* The agents have the message: the chat is owed its answer.
LEMMA ChatReceived ==
  ASSUME SessionTypes, TelegramTypes, BusIsTelegram, ChatsSound, handleMessageReceived,
         NEW c \in Chat, c = ChatOf(bus[1].from), c \notin disturbed'
  PROVE  ChatFits(c)'
<1>1. /\ Len(bus) \in Nat \ {0} /\ Len(bus') = Len(bus) - 1
      /\ \A i \in 1 .. Len(bus') : i + 1 \in 1 .. Len(bus) /\ bus'[i] = bus[i + 1]
      /\ Head(bus) = bus[1] /\ 1 \in 1 .. Len(bus) /\ bus[1].type = "message"
  BY BusShrinks DEF handleMessageReceived
<1>2. owed' = [owed EXCEPT ![c] = @ + 1] /\ disturbed' = disturbed
  BY <1>1 DEF handleMessageReceived, Disturb
<1>3. UNCHANGED <<handler, placeholders, shown, thinkingCtx, typing>>
  BY DEF handleMessageReceived
<1>4. ChatFits(c) /\ 1 \in Mail(c)
  BY <1>1, <1>2 DEF ChatsSound, Mail
<1>5. InProgress(c) = {} /\ owed[c] = 0 /\ owed'[c] = 1
  BY <1>2, <1>4 DEF ChatFits, OneAtATime, TelegramTypes
<1>6. InProgress(c)' = {}
  BY <1>3, <1>5 DEF InProgress, ChatOf
<1>7. Mail(c)' = {}
  <2> SUFFICES ASSUME NEW i \in 1 .. Len(bus'), bus'[i].type = "message", ChatOf(bus'[i].from) = c
               PROVE  FALSE
    BY <1>3 DEF Mail, ChatOf
  <2>1. i + 1 \in Mail(c)
    BY <1>1 DEF Mail
  <2>2. i + 1 = 1 /\ i \in Int
    BY <1>4, <2>1 DEF ChatFits, OneAtATime
  <2> QED
    BY <1>1, <2>2
<1>8. OneAtATime(c)'
  BY <1>5, <1>6, <1>7 DEF OneAtATime
<1>9. PlaceholderFits(c)'
  <2>1. \A g \in typing : ChatOf(g) # c
    BY <1>4, <1>5 DEF ChatFits, PlaceholderFits
  <2> QED
    BY <1>3, <1>4, <1>5, <2>1 DEF ChatFits, PlaceholderFits, ChatOf
<1> QED
  BY <1>8, <1>9 DEF ChatFits

\* The answer takes the placeholder's place.
LEMMA ChatAnswered ==
  ASSUME SessionTypes, TelegramTypes, BusIsTelegram, ChatsSound,
         NEW c \in Chat, SendMessage(c), Answer(c) \/ Notify(c), c \notin disturbed'
  PROVE  ChatFits(c)'
<1>1. c \notin disturbed
  BY SendShown
<1>2. ChatFits(c)
  BY <1>1 DEF ChatsSound
<1>3. placeholders'[c] = 0 /\ \A i \in 1 .. Len(shown'[c]) : shown'[c][i] # Thinking
  BY <1>2, SendShown DEF ChatFits, PlaceholderFits
<1>4. UNCHANGED <<bus, handler, thinkingCtx, typing>>
  BY DEF SendMessage, sessionVars
<1>5. owed'[c] <= owed[c] /\ owed'[c] \in Nat /\ owed[c] \in Nat
  BY DEF Answer, Notify, TelegramTypes
<1>6. InProgress(c)' = InProgress(c) /\ Mail(c)' = Mail(c)
  BY <1>4 DEF InProgress, Mail, ChatOf
<1>7. OneAtATime(c)'
  BY <1>2, <1>5, <1>6 DEF ChatFits, OneAtATime
<1>8. PlaceholderFits(c)'
  BY <1>2, <1>3, <1>4, <1>6 DEF ChatFits, PlaceholderFits, ChatOf
<1> QED
  BY <1>7, <1>8 DEF ChatFits
-----------------------------------------------------------------------------
TelegramInductive ==
  /\ SessionTypes /\ TelegramTypes /\ OnlyActive
  /\ BusIsTelegram /\ NewOnlyAsks /\ RequestsSound /\ ChatsSound

LEMMA TelegramInit0 == SessionInit /\ TelegramInit => TelegramInductive
<1> SUFFICES ASSUME SessionInit, TelegramInit PROVE TelegramInductive
  OBVIOUS
<1>1. SessionTypes /\ TelegramTypes
  BY SessionTypesInit, TelegramTypesInit
<1>2. Len(bus) = 0 /\ Len(conversations) = 0 /\ \A h \in Handler : replies[h] = NoReply
  BY DEF SessionInit
<1>3. \A h \in Handler : handler[h].at = "none" /\ ~handler[h].new
  BY DEF TelegramInit
<1>4. OnlyActive /\ BusIsTelegram /\ NewOnlyAsks
  BY <1>2, <1>3 DEF OnlyActive, ActiveOnce, BusIsTelegram, NewOnlyAsks
<1>5. RequestsSound
  BY <1>2, <1>3 DEF RequestsSound, RequestsFit, Answered, Latest
<1>6. ChatsSound
  <2> SUFFICES ASSUME NEW c \in Chat PROVE ChatFits(c)
    BY DEF ChatsSound
  <2>1. InProgress(c) = {} /\ Mail(c) = {}
    BY <1>2, <1>3 DEF InProgress, Mail
  <2>2. owed[c] = 0 /\ placeholders[c] = 0 /\ Len(shown[c]) = 0 /\ typing = {}
    BY DEF TelegramInit
  <2> QED
    BY <2>1, <2>2 DEF ChatFits, OneAtATime, PlaceholderFits
<1> QED
  BY <1>1, <1>4, <1>5, <1>6 DEF TelegramInductive

\* The sessions under a step of the channel.
LEMMA TelegramSessionsNext ==
  ASSUME SessionTypes, TelegramTypes, OnlyActive, BusIsTelegram, NewOnlyAsks,
         [TelegramNext]_<<sessionVars, telegramVars>>
  PROVE  SessionTypes' /\ OnlyActive' /\ BusIsTelegram' /\ NewOnlyAsks'
<1> USE DEF sessionVars, telegramVars
<1>0. {"typing", "placed", "resolving", "asked", "resolved", "done"} \subseteq Step /\ 0 \in Id
  BY DEF Step, Id
<1>1. ASSUME UNCHANGED sessionVars PROVE SessionTypes' /\ OnlyActive' /\ BusIsTelegram'
  BY <1>1 DEF SessionTypes, OnlyActive, BusIsTelegram
<1>2. ASSUME NEW e \in SessionEvent, Publish(e), UNCHANGED <<conversations, replies, storeFailed>>,
             e.channel = "telegram", e.from \in Handler, e.type \in {"new", "ensure", "message"}
      PROVE  SessionTypes' /\ OnlyActive' /\ BusIsTelegram'
  <2>1. SessionTypes' /\ OnlyActive'
    BY <1>2, Asked, RowsStay
  <2>2. BusIsTelegram'
    BY <1>2, BusGrows DEF BusIsTelegram
  <2> QED
    BY <2>1, <2>2
<1>3. ASSUME NEW type, Take(type) PROVE BusIsTelegram'
  BY <1>3, BusShrinks DEF BusIsTelegram
<1>4. ASSUME NEW h \in Handler, NEW there \in Step, Move(h, there),
             handler[h].new => there \in {"asked", "done"}
      PROVE  NewOnlyAsks'
  BY <1>4, Moved DEF NewOnlyAsks, TelegramTypes, HandlerState
<1>5. ASSUME NEW h \in Handler,
             sendThinkingIndicator(h) \/ isAllowed(h) \/ createPlaceholder(h) \/ stopThinkingIndicator(h)
      PROVE  SessionTypes' /\ OnlyActive' /\ BusIsTelegram' /\ NewOnlyAsks'
  <2>1. UNCHANGED sessionVars
    BY <1>5 DEF sendThinkingIndicator, isAllowed, createPlaceholder, stopThinkingIndicator
  <2>2. ~handler[h].new \/ handler[h].at \in {"asked", "done"}
    BY DEF NewOnlyAsks
  <2>3. \E there \in Step : Move(h, there) /\ handler[h].at \notin {"asked", "done"}
    BY <1>0, <1>5 DEF sendThinkingIndicator, isAllowed, createPlaceholder, stopThinkingIndicator
  <2> QED
    BY <1>1, <1>4, <2>1, <2>2, <2>3
<1>6. ASSUME NEW h \in Handler, resolveSessionID(h)
      PROVE  SessionTypes' /\ OnlyActive' /\ BusIsTelegram' /\ NewOnlyAsks'
  <2>1. ~handler[h].new
    BY <1>6 DEF NewOnlyAsks, resolveSessionID
  <2>2. NewOnlyAsks'
    BY <1>0, <1>4, <1>6, <2>1 DEF resolveSessionID
  <2> DEFINE e == Event("ensure", "telegram", "executive", 0, h)
  <2>3. e \in SessionEvent /\ e.channel = "telegram" /\ e.from = h /\ e.type = "ensure"
    BY <1>0, TelegramEvents DEF Event
  <2>4. UNCHANGED sessionVars \/ Publish(e)
    BY <1>6 DEF resolveSessionID, Ask
  <2> HIDE DEF e
  <2> QED
    BY <1>1, <1>2, <1>6, <2>2, <2>3, <2>4 DEF resolveSessionID
<1>7. ASSUME NEW h \in Handler, handleNewSession(h)
      PROVE  SessionTypes' /\ OnlyActive' /\ BusIsTelegram' /\ NewOnlyAsks'
  <2>1. NewOnlyAsks'
    BY <1>7 DEF handleNewSession, NewOnlyAsks, TelegramTypes, HandlerState
  <2> DEFINE e == Event("new", "telegram", "executive", 0, h)
  <2>2. e \in SessionEvent /\ e.channel = "telegram" /\ e.from = h /\ e.type = "new" /\ Publish(e)
    BY <1>0, <1>7, TelegramEvents DEF Event, handleNewSession, Ask
  <2> HIDE DEF e
  <2> QED
    BY <1>2, <1>7, <2>1, <2>2 DEF handleNewSession
<1>8. ASSUME NEW h \in Handler, EnterSession(h)
      PROVE  SessionTypes' /\ OnlyActive' /\ BusIsTelegram' /\ NewOnlyAsks'
  <2>1. NewOnlyAsks'
    BY <1>0, <1>4, <1>8 DEF EnterSession
  <2>2. SessionTypes' /\ OnlyActive'
    BY <1>8, ReplyRead, RowsStay DEF EnterSession
  <2>3. BusIsTelegram'
    BY <1>8 DEF EnterSession, BusIsTelegram
  <2> QED
    BY <2>1, <2>2, <2>3
<1>9. ASSUME NEW h \in Handler, FireMessage(h)
      PROVE  SessionTypes' /\ OnlyActive' /\ BusIsTelegram' /\ NewOnlyAsks'
  <2>1. NewOnlyAsks'
    BY <1>0, <1>4, <1>9 DEF FireMessage
  <2> DEFINE e == Event("message", "telegram", "executive", current, h)
  <2>2. e \in SessionEvent /\ e.channel = "telegram" /\ e.from = h /\ e.type = "message" /\ Publish(e)
    BY <1>9, TelegramEvents DEF Event, FireMessage, TelegramTypes
  <2> HIDE DEF e
  <2> QED
    BY <1>2, <1>9, <2>1, <2>2 DEF FireMessage
<1>10. ASSUME handleMessageReceived
       PROVE  SessionTypes' /\ OnlyActive' /\ BusIsTelegram' /\ NewOnlyAsks'
  <2>1. SessionTypes'
    BY <1>10, TakenFromBus DEF handleMessageReceived, SessionTypes
  <2> QED
    BY <1>3, <1>10, <2>1, RowsStay DEF handleMessageReceived, NewOnlyAsks
<1>11. ASSUME NEW c \in Chat, SendMessage(c)
       PROVE  SessionTypes' /\ OnlyActive' /\ BusIsTelegram' /\ NewOnlyAsks'
  BY <1>1, <1>11 DEF SendMessage, NewOnlyAsks
<1>12. ASSUME RouteSession, UNCHANGED telegramVars
       PROVE  SessionTypes' /\ OnlyActive' /\ BusIsTelegram' /\ NewOnlyAsks'
  <2>1. BusIsTelegram'
    BY <1>3, <1>12, Routed
  <2> QED
    BY <1>12, <2>1, RouteSessionTypes, RouteSessionOnce DEF NewOnlyAsks
<1>13. ASSUME EndByAPI, UNCHANGED telegramVars
       PROVE  SessionTypes' /\ OnlyActive' /\ BusIsTelegram' /\ NewOnlyAsks'
  <2>1. BusIsTelegram'
    BY <1>13 DEF EndByAPI, BusIsTelegram
  <2> QED
    BY <1>13, <2>1, RouteSessionTypes, RouteSessionOnce DEF NewOnlyAsks
<1>14. CASE UNCHANGED <<sessionVars, telegramVars>>
  BY <1>1, <1>14 DEF NewOnlyAsks
<1> QED
  BY <1>5, <1>6, <1>7, <1>8, <1>9, <1>10, <1>11, <1>12, <1>13, <1>14, TelegramSteps
LEMMA RequestsNext ==
  ASSUME SessionTypes, TelegramTypes, BusIsTelegram, NewOnlyAsks, RequestsSound,
         [TelegramNext]_<<sessionVars, telegramVars>>
  PROVE  RequestsSound'
<1> USE DEF sessionVars, telegramVars
<1>0. {"typing", "placed", "resolving", "asked", "resolved", "done"} \subseteq Step /\ 0 \in Id
  BY DEF Step, Id
<1>1. overlapped => overlapped'
  BY TelegramSteps DEF sendThinkingIndicator, isAllowed, createPlaceholder, stopThinkingIndicator,
    resolveSessionID, handleNewSession, EnterSession, FireMessage, handleMessageReceived, SendMessage, Ask
<1> SUFFICES ASSUME RequestsFit, ~overlapped' PROVE RequestsFit'
  BY <1>1 DEF RequestsSound
<1>2. UNCHANGED conversations => ChannelsStay /\ Len(conversations') = Len(conversations)
  BY DEF ChannelsStay, SessionTypes
<1>3. ASSUME NEW h \in Handler, NEW there \in Step, Move(h, there),
             handler[h].at # "asked", there # "asked"
      PROVE  \A g \in Handler : handler'[g].at = "asked" <=> Stands(g, "asked")
  BY <1>3, Moved
<1>4. ASSUME NEW h \in Handler,
             sendThinkingIndicator(h) \/ isAllowed(h) \/ createPlaceholder(h) \/ stopThinkingIndicator(h)
      PROVE  RequestsFit'
  <2>1. UNCHANGED <<sessionVars, current>>
    BY <1>4 DEF sendThinkingIndicator, isAllowed, createPlaceholder, stopThinkingIndicator
  <2>2. \E there \in Step : Move(h, there) /\ there # "asked" /\ handler[h].at # "asked"
    BY <1>0, <1>4 DEF sendThinkingIndicator, isAllowed, createPlaceholder, stopThinkingIndicator
  <2>3. \A g \in Handler : handler'[g].at = "asked" <=> Stands(g, "asked")
    BY <1>3, <2>2
  <2> QED
    BY <1>2, <2>1, <2>3, RequestsStayPut, RequestsQuiet
<1>5. ASSUME NEW h \in Handler, resolveSessionID(h) PROVE RequestsFit'
  <2>1. CASE Move(h, "resolved") /\ UNCHANGED bus
    <3>1. \A g \in Handler : handler'[g].at = "asked" <=> Stands(g, "asked")
      BY <1>0, <1>3, <1>5, <2>1 DEF resolveSessionID
    <3> QED
      BY <1>2, <1>5, <2>1, <3>1, RequestsStayPut, RequestsQuiet DEF resolveSessionID
  <2>2. CASE current = 0 /\ Move(h, "asked") /\ Ask(h, "ensure")
    <3>1. handler'[h].at = "asked" /\ \A g \in Handler \ {h} : handler'[g].at = handler[g].at
      BY <1>0, <2>2, Moved
    <3> QED
      BY <1>5, <2>2, <3>1, RequestsAsked DEF resolveSessionID
  <2> QED
    BY <1>5, <2>1, <2>2 DEF resolveSessionID
<1>6. ASSUME NEW h \in Handler, handleNewSession(h) PROVE RequestsFit'
  <2>1. handler'[h].at = "asked" /\ \A g \in Handler \ {h} : handler'[g].at = handler[g].at
    BY <1>6 DEF handleNewSession, TelegramTypes, HandlerState
  <2> QED
    BY <1>6, <2>1, RequestsAsked DEF handleNewSession
<1>7. ASSUME NEW h \in Handler, EnterSession(h) PROVE RequestsFit'
  BY <1>7, RequestsEnter
<1>8. ASSUME NEW h \in Handler, FireMessage(h) PROVE RequestsFit'
  <2> DEFINE e == Event("message", "telegram", "executive", current, h)
  <2>1. e \in SessionEvent /\ Publish(e) /\ e.type = "message"
    BY <1>8, TelegramEvents DEF FireMessage, Event, TelegramTypes
  <2> HIDE DEF e
  <2>2. \A g \in Handler : handler'[g].at = "asked" <=> Stands(g, "asked")
    BY <1>0, <1>3, <1>8 DEF FireMessage
  <2>3. RequestsStay
    BY <2>1, RequestsStayPut
  <2> QED
    BY <1>2, <1>8, <2>2, <2>3, RequestsQuiet DEF FireMessage
<1>9. ASSUME handleMessageReceived PROVE RequestsFit'
  <2>1. RequestsStay
    BY <1>9, RequestsStayPut DEF handleMessageReceived
  <2> QED
    BY <1>2, <1>9, <2>1, RequestsQuiet DEF handleMessageReceived
<1>10. ASSUME NEW c \in Chat, SendMessage(c) PROVE RequestsFit'
  BY <1>2, <1>10, RequestsStayPut, RequestsQuiet DEF SendMessage
<1>11. ASSUME RouteSession, UNCHANGED telegramVars PROVE RequestsFit'
  BY <1>11, RequestsAnswered
<1>12. ASSUME EndByAPI, UNCHANGED telegramVars PROVE RequestsFit'
  BY <1>12, EndedByAPI, RequestsStayPut, RequestsQuiet
<1>13. CASE UNCHANGED <<sessionVars, telegramVars>>
  BY <1>2, <1>13, RequestsStayPut, RequestsQuiet
<1> QED
  BY <1>4, <1>5, <1>6, <1>7, <1>8, <1>9, <1>10, <1>11, <1>12, <1>13, TelegramSteps

LEMMA ChatsNext ==
  ASSUME SessionTypes, TelegramTypes, BusIsTelegram, NewOnlyAsks, ChatsSound,
         [TelegramNext]_<<sessionVars, telegramVars>>
  PROVE  ChatsSound'
<1> USE DEF sessionVars, telegramVars
<1>0. {"typing", "placed", "resolving", "asked", "resolved", "done"} \subseteq Step /\ 0 \in Id
  BY DEF Step, Id
<1> SUFFICES ASSUME NEW c \in Chat, c \notin disturbed' PROVE ChatFits(c)'
  BY DEF ChatsSound
<1>1. UNCHANGED <<bus, handler>> => MailStays(c)
  BY MailStaysPut DEF ChatsStay
<1>3. ASSUME NEW h \in Handler, sendThinkingIndicator(h) PROVE ChatFits(c)'
  <2>1. CASE c = ChatOf(h)
    BY <1>3, <2>1, ChatStarts
  <2>2. CASE c # ChatOf(h)
    <3>1. OnlyMoves(h) /\ ChatsStay
      BY <1>0, <1>3, ItMoves DEF sendThinkingIndicator, ChatsStay, OnlyMoves
    <3>2. MailStays(c)
      BY <1>3, <3>1, MailStaysPut DEF sendThinkingIndicator
    <3>3. c \notin disturbed
      BY <1>3, ChatOfHandler, Disturbed DEF sendThinkingIndicator
    <3>4. thinkingCtx'[c] = thinkingCtx[c] /\ typing' \subseteq Handler
      BY <1>3, <2>2 DEF sendThinkingIndicator, TelegramTypes
    <3> QED
      BY <1>3, <2>2, <3>1, <3>2, <3>3, <3>4, OtherChats DEF sendThinkingIndicator
  <2> QED
    BY <2>1, <2>2
<1>4. ASSUME NEW h \in Handler, isAllowed(h) PROVE ChatFits(c)'
  <2>1. OnlyMoves(h) /\ ChatsStay /\ handler'[h].at = "done" /\ handler[h].at = "none"
    BY <1>0, <1>4, ItMoves DEF isAllowed, ChatsStay, OnlyMoves
  <2>2. MailStays(c) /\ c \notin disturbed
    BY <1>4, <2>1, MailStaysPut DEF isAllowed
  <2>3. CASE c = ChatOf(h)
    <3>1. h \in InProgress(c)' <=> h \in InProgress(c)
      BY <2>1 DEF InProgress
    <3> QED
      BY <1>4, <2>1, <2>2, <2>3, <3>1, OwnChat DEF isAllowed, TelegramTypes
  <2>4. CASE c # ChatOf(h)
    BY <1>4, <2>1, <2>2, <2>4, OtherChats DEF isAllowed, TelegramTypes
  <2> QED
    BY <2>3, <2>4
<1>5. ASSUME NEW h \in Handler, createPlaceholder(h) PROVE ChatFits(c)'
  <2>0. c \notin disturbed
    BY <1>5 DEF createPlaceholder
  <2>1. CASE c = ChatOf(h)
    BY <1>5, <2>0, <2>1, ChatPlaces
  <2>2. CASE c # ChatOf(h)
    <3>1. OnlyMoves(h) /\ ChatsStay
      BY <1>0, <1>5, ItMoves DEF createPlaceholder, ChatsStay, OnlyMoves
    <3>2. MailStays(c)
      BY <1>5, <3>1, MailStaysPut DEF createPlaceholder
    <3>3. placeholders'[c] = placeholders[c] /\ shown'[c] = shown[c]
      BY <1>5, <2>2 DEF createPlaceholder, TelegramTypes
    <3> QED
      BY <1>5, <2>0, <2>2, <3>1, <3>2, <3>3, OtherChats DEF createPlaceholder, TelegramTypes
  <2> QED
    BY <2>1, <2>2
<1>6. ASSUME NEW h \in Handler, stopThinkingIndicator(h) PROVE ChatFits(c)'
  <2>1. /\ OnlyMoves(h) /\ ChatsStay /\ handler[h].at = "placed" /\ handler'[h].at = "resolving"
        /\ handler'[h].new = handler[h].new
    BY <1>0, <1>6, ItMoves DEF stopThinkingIndicator, ChatsStay, OnlyMoves
  <2>2. MailStays(c) /\ c \notin disturbed
    BY <1>6, <2>1, MailStaysPut DEF stopThinkingIndicator
  <2>3. typing' \subseteq Handler /\ typing' \subseteq typing
    BY <1>6 DEF stopThinkingIndicator, TelegramTypes
  <2>4. CASE c = ChatOf(h)
    <3>1. ChatFits(c)
      BY <2>2 DEF ChatsSound
    <3>2. \A g \in typing' : ChatOf(g) # c
      BY <1>6, <2>3, <2>4, <3>1 DEF stopThinkingIndicator, ChatFits, PlaceholderFits
    <3>3. \A g \in Handler : g \in InProgress(c)' <=> g \in InProgress(c)
      BY <2>1 DEF InProgress, OnlyMoves, ChatOf
    <3>4. \A g \in InProgress(c) : handler[g].at # "typing" => handler'[g].at # "typing"
      BY <2>1 DEF InProgress, OnlyMoves
    <3> QED
      BY <1>6, <2>1, <2>2, <2>3, <3>1, <3>2, <3>3, <3>4, ChatQuiet DEF stopThinkingIndicator
  <2>5. CASE c # ChatOf(h)
    <3>1. thinkingCtx'[c] = thinkingCtx[c]
      BY <1>6, <2>5 DEF stopThinkingIndicator, TelegramTypes
    <3> QED
      BY <1>6, <2>1, <2>2, <2>3, <2>5, <3>1, OtherChats DEF stopThinkingIndicator
  <2> QED
    BY <2>4, <2>5
<1>7. ASSUME NEW h \in Handler, resolveSessionID(h) PROVE ChatFits(c)'
  <2>1. \E there \in {"resolved", "asked"} : Move(h, there)
    BY <1>7 DEF resolveSessionID
  <2>2. /\ OnlyMoves(h) /\ ChatsStay /\ handler'[h].at \in {"resolved", "asked"}
        /\ handler'[h].new = handler[h].new /\ handler[h].at = "resolving"
    BY <1>0, <1>7, <2>1, ItMoves DEF resolveSessionID, ChatsStay, OnlyMoves
  <2>3. MailStays(c) /\ c \notin disturbed
    <3> DEFINE e == Event("ensure", "telegram", "executive", 0, h)
    <3>1. e \in SessionEvent /\ e.type # "message" /\ e.from = h
      BY <1>0, TelegramEvents DEF Event
    <3>2. UNCHANGED bus \/ Publish(e)
      BY <1>7 DEF resolveSessionID, Ask
    <3> HIDE DEF e
    <3> QED
      BY <1>7, <2>2, <3>1, <3>2, MailStaysPut DEF resolveSessionID
  <2>4. UNCHANGED <<owed, placeholders, shown, thinkingCtx, typing>> /\ typing \subseteq Handler
    BY <1>7 DEF resolveSessionID, TelegramTypes
  <2>5. CASE c = ChatOf(h)
    <3>1. h \in InProgress(c)' <=> h \in InProgress(c)
      BY <2>2 DEF InProgress, ChatOf, OnlyMoves
    <3> QED
      BY <2>2, <2>3, <2>4, <2>5, <3>1, OwnChat
  <2>6. CASE c # ChatOf(h)
    BY <2>2, <2>3, <2>4, <2>6, OtherChats
  <2> QED
    BY <2>5, <2>6
<1>8. ASSUME NEW h \in Handler, handleNewSession(h) PROVE ChatFits(c)'
  <2>1. /\ OnlyMoves(h) /\ ChatsStay /\ handler'[h].at = "asked" /\ handler'[h].new
        /\ handler[h].at = "none"
    BY <1>8 DEF handleNewSession, ChatsStay, OnlyMoves, TelegramTypes, HandlerState
  <2>2. MailStays(c) /\ c \notin disturbed
    <3> DEFINE e == Event("new", "telegram", "executive", 0, h)
    <3>1. e \in SessionEvent /\ e.type # "message" /\ e.from = h /\ Publish(e)
      BY <1>0, <1>8, TelegramEvents DEF Event, handleNewSession, Ask
    <3> HIDE DEF e
    <3> QED
      BY <1>8, <2>1, <3>1, MailStaysPut DEF handleNewSession
  <2>3. UNCHANGED <<owed, placeholders, shown, thinkingCtx, typing>> /\ typing \subseteq Handler
    BY <1>8 DEF handleNewSession, TelegramTypes
  <2>4. CASE c = ChatOf(h)
    <3>1. h \in InProgress(c)' <=> h \in InProgress(c)
      BY <2>1 DEF InProgress
    <3> QED
      BY <2>1, <2>2, <2>3, <2>4, <3>1, OwnChat
  <2>5. CASE c # ChatOf(h)
    BY <2>1, <2>2, <2>3, <2>5, OtherChats
  <2> QED
    BY <2>4, <2>5
<1>9. ASSUME NEW h \in Handler, EnterSession(h) PROVE ChatFits(c)'
  <2>1. \E there \in {"resolved", "done"} : Move(h, there)
    BY <1>9 DEF EnterSession
  <2>2. /\ OnlyMoves(h) /\ ChatsStay /\ handler'[h].at \in {"resolved", "done"}
        /\ handler'[h].new = handler[h].new /\ handler[h].at = "asked"
    BY <1>0, <1>9, <2>1, ItMoves DEF EnterSession, ChatsStay, OnlyMoves
  <2>3. UNCHANGED <<bus, owed, placeholders, shown, thinkingCtx, typing>> /\ typing \subseteq Handler
    BY <1>9 DEF EnterSession, TelegramTypes
  <2>4. MailStays(c)
    BY <2>2, <2>3, MailStaysPut
  <2>5. ChatOf(h) \in Chat /\ c \notin disturbed
    BY <1>9, ChatOfHandler, Disturbed DEF EnterSession
  <2>6. CASE c = ChatOf(h)
    <3>1. replies[h] # 0
      BY <1>9, <2>5, <2>6, Disturbed DEF EnterSession
    <3>2. ~handler[h].new => handler'[h].at = "resolved"
      BY <1>0, <1>9, <3>1, Moved DEF EnterSession
    <3>3. h \in InProgress(c)' <=> h \in InProgress(c)
      BY <2>2, <3>2 DEF InProgress, ChatOf, OnlyMoves
    <3> QED
      BY <2>2, <2>3, <2>4, <2>5, <2>6, <3>3, OwnChat
  <2>7. CASE c # ChatOf(h)
    BY <2>2, <2>3, <2>4, <2>5, <2>7, OtherChats
  <2> QED
    BY <2>6, <2>7
<1>10. ASSUME NEW h \in Handler, FireMessage(h) PROVE ChatFits(c)'
  <2>0. c \notin disturbed /\ UNCHANGED <<owed, placeholders, shown, thinkingCtx, typing>>
    BY <1>10 DEF FireMessage
  <2>1. CASE c = ChatOf(h)
    BY <1>10, <2>0, <2>1, ChatFires
  <2>2. CASE c # ChatOf(h)
    <3>1. OnlyMoves(h) /\ ChatsStay
      BY <1>0, <1>10, ItMoves DEF FireMessage, ChatsStay, OnlyMoves
    <3> DEFINE e == Event("message", "telegram", "executive", current, h)
    <3>2. e \in SessionEvent /\ e.from = h /\ Publish(e)
      BY <1>10, TelegramEvents DEF Event, FireMessage, TelegramTypes
    <3> HIDE DEF e
    <3>3. MailStays(c)
      BY <2>2, <3>1, <3>2, MailStaysPut
    <3> QED
      BY <2>0, <2>2, <3>1, <3>3, OtherChats DEF TelegramTypes
  <2> QED
    BY <2>1, <2>2
<1>11. ASSUME handleMessageReceived PROVE ChatFits(c)'
  <2>1. bus[1].from \in Handler /\ Head(bus) = bus[1]
    BY <1>11, BusShrinks DEF handleMessageReceived, BusIsTelegram
  <2>2. CASE c = ChatOf(bus[1].from)
    BY <1>11, <2>2, ChatReceived
  <2>3. CASE c # ChatOf(bus[1].from)
    <3>1. MailStays(c)
      BY <1>11, <2>3, MailStaysPut DEF handleMessageReceived, ChatsStay
    <3>2. owed'[c] = owed[c] /\ c \notin disturbed
      BY <1>11, <2>1, <2>3, ChatOfHandler, Disturbed DEF handleMessageReceived, TelegramTypes
    <3> QED
      BY <1>11, <3>1, <3>2, NoHandler DEF handleMessageReceived, TelegramTypes
  <2> QED
    BY <2>2, <2>3
<1>12. ASSUME NEW d \in Chat, SendMessage(d), Answer(d) \/ Notify(d) PROVE ChatFits(c)'
  <2>1. CASE c = d
    BY <1>12, <2>1, ChatAnswered
  <2>2. CASE c # d
    <3>1. /\ UNCHANGED <<bus, handler, thinkingCtx, typing>>
          /\ owed'[c] = owed[c]
      BY <1>12, <2>2 DEF SendMessage, Answer, Notify, TelegramTypes
    <3>2. placeholders'[c] = placeholders[c] /\ shown'[c] = shown[c] /\ c \notin disturbed
      BY <1>12, <2>2, SendShown
    <3> QED
      BY <1>1, <3>1, <3>2, NoHandler DEF TelegramTypes
  <2> QED
    BY <2>1, <2>2
<1>13. ASSUME RouteSession, UNCHANGED telegramVars PROVE ChatFits(c)'
  <2>1. MailStays(c)
    BY <1>13, Routed, MailStaysPut DEF ChatsStay
  <2> QED
    BY <1>13, <2>1, NoHandler DEF TelegramTypes
<1>14. ASSUME EndByAPI \/ UNCHANGED sessionVars, UNCHANGED telegramVars PROVE ChatFits(c)'
  <2>1. UNCHANGED bus
    BY <1>14 DEF EndByAPI
  <2> QED
    BY <1>1, <1>14, <2>1, NoHandler DEF TelegramTypes
<1> QED
  BY <1>3, <1>4, <1>5, <1>6, <1>7, <1>8, <1>9, <1>10, <1>11, <1>12, <1>13, <1>14, TelegramSteps

LEMMA TelegramNextStep ==
  TelegramInductive /\ [TelegramNext]_<<sessionVars, telegramVars>> => TelegramInductive'
BY TelegramSessionsNext, TelegramTypesNext, RequestsNext, ChatsNext DEF TelegramInductive

\* The types of the Telegram channel and of the sessions it asks for.
THEOREM TelegramTypeCorrect == TelegramSpec => [](SessionTypeOK /\ TelegramTypeOK)
<1>1. TelegramInductive => SessionTypeOK /\ TelegramTypeOK
  BY SessionTypesOK, TelegramTypesOK DEF TelegramInductive
<1> QED
  BY <1>1, TelegramInit0, TelegramNextStep, PTL DEF TelegramSpec

\* While the store works, Telegram has at most one active conversation, though its
\* handlers ask for sessions by check and then act.
THEOREM OneActiveOnTelegram == TelegramSpec => []OneActive
<1>1. TelegramInductive => OneActive
  BY OnlyActiveIsOne DEF TelegramInductive
<1> QED
  BY <1>1, TelegramInit0, TelegramNextStep, PTL DEF TelegramSpec

\* Chats are in the latest session while requests do not overlap, and a quiet chat
\* that nothing disturbed shows no placeholder and no typing.
THEOREM ChatsStayServed == TelegramSpec => []ChatsAreServed
<1>1. TelegramInductive => SessionIsLatest
  <2> SUFFICES ASSUME TelegramInductive, current # 0, ~overlapped, \A h \in Handler : ~Stands(h, "asked")
               PROVE  \A i \in current + 1 .. Len(conversations) : conversations[i].channel # "telegram"
    BY DEF SessionIsLatest
  <2>1. RequestsFit
    BY DEF TelegramInductive, RequestsSound
  <2>2. Latest(current)
    BY <2>1 DEF RequestsFit, Answered
  <2>3. current \in Nat /\ Len(conversations) \in Nat
    BY DEF TelegramInductive, TelegramTypes, SessionTypes, Id
  <2> QED
    BY <2>2, <2>3 DEF Latest
<1>2. TelegramInductive => ThinkingEnds
  <2> SUFFICES ASSUME TelegramInductive, NEW c \in Chat, c \notin disturbed, Quiet(c)
               PROVE  (\A i \in DOMAIN shown[c] : shown[c][i] # Thinking) /\ (\A h \in typing : ChatOf(h) # c)
    BY DEF ThinkingEnds
  <2>1. ChatFits(c)
    BY DEF TelegramInductive, ChatsSound
  <2>2. InProgress(c) = {} /\ owed[c] = 0
    BY DEF Quiet, HandlersIn, InProgress
  <2>3. Mail(c) = {}
    BY DEF TelegramInductive, Quiet, Underway, Mail, BusIsTelegram, SessionTypes
  <2>4. DOMAIN shown[c] = 1 .. Len(shown[c])
    BY DEF TelegramInductive, TelegramTypes
  <2> QED
    BY <2>1, <2>2, <2>3, <2>4 DEF ChatFits, PlaceholderFits
<1> QED
  BY <1>1, <1>2, TelegramInit0, TelegramNextStep, PTL DEF TelegramSpec, ChatsAreServed
-----------------------------------------------------------------------------
USE BudgetAssumption

\* A result takes at most its share of what is left for all of them.
BudgetRoom == input + calls * per + next <= window + uncounted

Settings == configured.max \in Nat /\ configured.result \in Nat

BudgetInductive == BudgetTypeOK /\ Settings /\ BudgetRoom

LEMMA SharesFit == \A h \in Nat, n \in Nat \ {0} : h \div n \in Nat /\ n * (h \div n) <= h
OBVIOUS

LEMMA SmallerSharesFit == \A n, a, b \in Nat : a <= b => n * a <= n * b
OBVIOUS

LEMMA ProductsAreNatural == \A n, a \in Nat : n * a \in Nat
OBVIOUS

LEMMA OneShareFits == \A n \in Nat \ {0}, a \in Nat : a <= n * a
OBVIOUS

\* The margin is a tenth of the window, whatever the window.
LEMMA MarginIsNatural == \A w \in Nat : SafetyMargin(w) \in Nat
BY DEF SafetyMargin

LEMMA OutputIsNatural ==
  ASSUME NEW w \in Nat, NEW in \in Nat, NEW margin \in Nat, NEW max \in Nat
  PROVE  ComputeOutputBudget(w, in, margin, max) \in Nat
BY DEF ComputeOutputBudget

LEMMA HeadroomIsNatural ==
  ASSUME NEW w \in Nat, NEW in \in Nat, NEW out \in Nat, NEW margin \in Nat
  PROVE  /\ ComputeInputHeadroom(w, in, out, margin) \in Nat
         /\ ComputeInputHeadroom(w, in, out, margin) > 0 =>
              ComputeInputHeadroom(w, in, out, margin) = w - in - out - margin
BY DEF ComputeInputHeadroom

\* All results at their budget stay within the headroom.
LEMMA ResultsFit ==
  ASSUME NEW h \in Nat, NEW n \in Nat \ {0}, NEW max \in Nat
  PROVE  /\ PerResultBudget(h, n, max) \in Nat
         /\ n * PerResultBudget(h, n, max) <= h
<1>1. h \div n \in Nat /\ n * (h \div n) <= h
  BY SharesFit
<1> DEFINE each == h \div n
<1>2. PerResultBudget(h, n, max) = IF max > 0 /\ max < each THEN max ELSE each
  BY DEF PerResultBudget
<1> HIDE DEF each
<1>3. each \in Nat /\ n * each <= h
  BY <1>1 DEF each
<1>4. CASE max > 0 /\ max < each
  <2>1. n * max <= n * each
    BY <1>3, <1>4, SmallerSharesFit
  <2>2. n * max \in Nat /\ n * each \in Nat
    BY <1>3
  <2> QED
    BY <1>2, <1>3, <1>4, <2>1, <2>2
<1>5. CASE ~(max > 0 /\ max < each)
  BY <1>2, <1>3, <1>5
<1> QED
  BY <1>4, <1>5

LEMMA BudgetStarts == BudgetInit => BudgetInductive
<1> SUFFICES ASSUME BudgetInit PROVE BudgetInductive
  OBVIOUS
<1>1. MaxWindow \div 2 \in Nat
  BY SharesFit
<1>2. BudgetTypeOK
  <2>1. window \in 0 .. MaxWindow
    BY DEF BudgetInit
  <2>2. input \in Nat
    BY <1>1 DEF BudgetInit
  <2>3. calls \in 0 .. MaxResults
    BY DEF BudgetInit
  <2>4. next \in Nat /\ per \in Nat /\ reported \in BOOLEAN /\ uncounted \in Nat
    BY <1>1 DEF BudgetInit
  <2> QED
    BY <2>1, <2>2, <2>3, <2>4 DEF BudgetTypeOK
<1>3. Settings
  BY DEF BudgetInit, Settings
<1>4. BudgetRoom
  <2>1. next = 0 /\ per = 0 /\ calls = 0 /\ uncounted = input
    BY DEF BudgetInit
  <2>2. input \in Nat /\ window \in Nat
    BY <1>2 DEF BudgetTypeOK
  <2> QED
    BY ONLY <2>1, <2>2 DEF BudgetRoom
<1> QED
  BY <1>2, <1>3, <1>4 DEF BudgetInductive

LEMMA ExcessCovers ==
  ASSUME NEW m \in Int, NEW n \in Int
  PROVE  Excess(m, n) \in Nat /\ m <= n + Excess(m, n)
BY DEF Excess

LEMMA BudgetsAreComputed == BudgetInductive /\ ComputeIterationBudget => BudgetInductive'
<1> SUFFICES ASSUME BudgetInductive, ComputeIterationBudget PROVE BudgetInductive'
  OBVIOUS
<1> DEFINE usage == IF reported THEN input ELSE 0
           margin == SafetyMargin(window)
           out == ComputeOutputBudget(window, usage, margin, configured.max)
           headroom == ComputeInputHeadroom(window, usage, out, margin)
           room == window - usage - margin
<1>1. PICK n \in 1 .. MaxResults, answer \in 1 .. MaxResult :
        /\ next' = out
        /\ per' = PerResultBudget(headroom, n, configured.result)
        /\ calls' = n
        /\ input' = input + answer
        /\ uncounted' = (input - usage) + Excess(answer, margin) + Excess(out, room)
  BY DEF ComputeIterationBudget
<1>2. /\ window \in Nat /\ window <= MaxWindow /\ input \in Nat
      /\ configured.max \in Nat /\ configured.result \in Nat
      /\ UNCHANGED <<window, configured, reported>> /\ reported \in BOOLEAN
  BY DEF BudgetInductive, BudgetTypeOK, Settings, ComputeIterationBudget
<1>3. usage \in Nat /\ usage <= input /\ margin \in Nat
  BY <1>2, MarginIsNatural
<1> HIDE DEF usage, margin
<1>4. out \in Nat
  BY <1>2, <1>3, OutputIsNatural
<1>5. window \in Nat /\ configured.result \in Nat /\ n \in Nat \ {0} /\ answer \in Nat
  BY <1>2, BudgetAssumption
<1> HIDE DEF out
<1>6. headroom \in Nat /\ (headroom > 0 => headroom = room - out) /\ room \in Int
  BY ONLY <1>3, <1>4, <1>5 DEF ComputeInputHeadroom
<1> HIDE DEF headroom, room
<1>7. per' \in Nat /\ n * per' <= headroom
  BY ONLY <1>1, <1>5, <1>6, ResultsFit
<1> DEFINE long == Excess(answer, margin)
           over == Excess(out, room)
<1>8. long \in Nat /\ over \in Nat /\ answer <= margin + long /\ out <= room + over
  <2>1. long \in Nat /\ answer <= margin + long
    <3>1. answer \in Int /\ margin \in Int
      BY ONLY <1>3, <1>5
    <3> QED
      BY ONLY <3>1, ExcessCovers, Zenon
  <2>2. over \in Nat /\ out <= room + over
    <3>1. out \in Int /\ room \in Int
      BY ONLY <1>4, <1>6
    <3> QED
      BY ONLY <3>1, ExcessCovers, Zenon
  <2> QED
    BY <2>1, <2>2
<1>9. uncounted' = (input - usage) + long + over
  BY <1>1
<1> HIDE DEF long, over
<1>10. uncounted' \in Nat /\ input' \in Nat
  BY ONLY <1>1, <1>2, <1>3, <1>5, <1>8, <1>9
<1>11. BudgetTypeOK' /\ Settings'
  BY <1>1, <1>2, <1>4, <1>7, <1>10 DEF BudgetTypeOK, BudgetInductive, Settings
<1>12. BudgetRoom'
  <2> DEFINE all == n * per'
  <2>1. all \in Nat /\ all <= headroom
    BY ONLY <1>5, <1>7, ProductsAreNatural
  <2>2. calls' * per' = all
    BY ONLY <1>1, <1>5
  <2> HIDE DEF all
  <2>3. all + out <= room + over
    BY ONLY <2>1, <1>4, <1>6, <1>8
  <2>4. room = window - usage - margin
    BY DEF room
  <2>5. input + answer + all + out <= window + ((input - usage) + long + over)
    BY ONLY <2>1, <2>3, <2>4, <1>2, <1>3, <1>4, <1>5, <1>8
  <2>6. input' + calls' * per' + next' = input + answer + all + out
    BY ONLY <2>2, <1>1
  <2> QED
    BY ONLY <2>5, <2>6, <1>2, <1>9 DEF BudgetRoom
<1> QED
  BY <1>11, <1>12 DEF BudgetInductive

LEMMA ResultsAreCut ==
  ASSUME NEW size \in Nat, NEW budget \in Nat
  PROVE  Cut(size, budget) \in Nat /\ (budget > 0 => Cut(size, budget) <= budget)
BY DEF Cut

\* A result with a budget takes at most its share; any other is not counted.
LEMMA ResultsAreAppended == BudgetInductive /\ (AppendResult \/ AppendUncut) => BudgetInductive'
<1> SUFFICES ASSUME BudgetInductive, AppendResult \/ AppendUncut PROVE BudgetInductive'
  OBVIOUS
<1>1. /\ window \in Nat /\ input \in Nat /\ next \in Nat /\ per \in Nat /\ uncounted \in Nat
      /\ calls \in 1 .. MaxResults /\ calls' = calls - 1
      /\ UNCHANGED <<window, configured, reported, next, per>>
  BY DEF AppendResult, AppendUncut, BudgetInductive, BudgetTypeOK
<1>2. PICK tokens \in Nat :
        /\ input' = input + tokens
        /\ \/ uncounted' = uncounted /\ tokens <= per
           \/ uncounted' = uncounted + tokens
  <2>1. CASE AppendResult
    <3>1. PICK size \in 1 .. MaxResult : \E tokens \in 1 .. Cut(size, per) :
            input' = input + tokens /\ uncounted' = IF per > 0 THEN uncounted ELSE uncounted + tokens
      BY <2>1 DEF AppendResult
    <3>2. Cut(size, per) \in Nat /\ (per > 0 => Cut(size, per) <= per)
      BY <1>1, ResultsAreCut
    <3>3. PICK tokens \in 1 .. Cut(size, per) :
            input' = input + tokens /\ uncounted' = IF per > 0 THEN uncounted ELSE uncounted + tokens
      BY <3>1
    <3>4. tokens \in Nat /\ (per > 0 => tokens <= per)
      BY <1>1, <3>2
    <3> QED
      BY <3>3, <3>4
  <2>2. CASE AppendUncut
    <3>1. PICK tokens \in 1 .. MaxResult : input' = input + tokens /\ uncounted' = uncounted + tokens
      BY <2>2 DEF AppendUncut
    <3> QED
      BY <3>1, BudgetAssumption
  <2> QED
    BY <2>1, <2>2
<1>3. BudgetTypeOK' /\ Settings'
  <2>1. calls' \in 0 .. MaxResults
    BY <1>1
  <2>2. input' \in Nat /\ uncounted' \in Nat
    BY ONLY <1>1, <1>2
  <2> QED
    BY <1>1, <2>1, <2>2 DEF BudgetTypeOK, BudgetInductive, Settings
<1>4. BudgetRoom'
  <2> DEFINE all == calls * per
  <2>1. calls' * per' = all - per /\ all \in Nat /\ all >= per
    <3>1. calls \in Nat \ {0}
      BY <1>1
    <3>2. all \in Nat /\ per <= all
      BY ONLY <3>1, <1>1, OneShareFits, ProductsAreNatural
    <3>3. calls' * per' = all - per
      BY ONLY <3>1, <1>1
    <3> QED
      BY ONLY <3>2, <3>3, <1>1
  <2>2. input + all + next <= window + uncounted
    BY DEF BudgetInductive, BudgetRoom
  <2> HIDE DEF all
  <2>3. input' + (all - per) + next <= window + uncounted'
    BY ONLY <1>1, <1>2, <2>1, <2>2
  <2> QED
    BY ONLY <1>1, <2>1, <2>3 DEF BudgetRoom
<1> QED
  BY <1>3, <1>4 DEF BudgetInductive

LEMMA BudgetGoesOn == BudgetInductive /\ [BudgetNext]_budgetVars => BudgetInductive'
<1> SUFFICES ASSUME BudgetInductive, [BudgetNext]_budgetVars PROVE BudgetInductive'
  OBVIOUS
<1>1. CASE UNCHANGED budgetVars
  BY <1>1 DEF budgetVars, BudgetInductive, BudgetTypeOK, Settings, BudgetRoom
<1> QED
  BY <1>1, BudgetsAreComputed, ResultsAreAppended DEF BudgetNext

\* The results of an answer and the longest next answer fit the window but for
\* what no budget counted, for every window, every limit and every number of
\* results: with or without usage, head room and failing calls.
THEOREM BudgetsStayWithin == BudgetSpec => []BudgetsFit
<1>1. BudgetInductive => BudgetsFit
  <2> SUFFICES ASSUME BudgetInductive, calls = 0 PROVE input + next <= window + uncounted
    BY DEF BudgetsFit
  <2>1. input \in Nat /\ next \in Nat /\ per \in Nat /\ input + calls * per + next <= window + uncounted
    BY DEF BudgetInductive, BudgetTypeOK, BudgetRoom
  <2>2. calls * per = 0
    BY <2>1
  <2> QED
    BY <2>1, <2>2
<1> QED
  BY <1>1, BudgetStarts, BudgetGoesOn, PTL DEF BudgetSpec
-----------------------------------------------------------------------------
USE CacheAssumption

Request == [step : CallerStep, asks : Contents, ref : 0 .. MaxCaches]

\* At most one caller is in the middle of a call, and what is at the provider is
\* what the client has a name for, but for the moment when it is replaced.
CallsAreAlone == \A c, d \in Caller : MidCall(c) /\ MidCall(d) => c = d
NamesFit ==
  /\ name # 0 /\ (\A c \in Caller : ~AtStep(c, "creating")) => live = {name}
  /\ name = 0 \/ (\E c \in Caller : AtStep(c, "creating")) => live = {}
  /\ \A c \in Caller : AtStep(c, "deleting") => name # 0
  /\ \A c \in Caller : AtStep(c, "sending") => caller[c].ref = name

CacheInductive == CacheTypeOK /\ (~trouble => CallsAreAlone /\ NamesFit)

LEMMA CacheStarts == CacheInit => CacheInductive
<1> SUFFICES ASSUME CacheInit PROVE CacheInductive
  OBVIOUS
<1> DEFINE s == CHOOSE v \in Conversation : TRUE
<1>1. s \in Conversation
  OBVIOUS
<1>2. Nothing \in Contents
  BY <1>1 DEF Nothing, Contents
<1> DEFINE idle == [step |-> "idle", asks |-> Nothing, ref |-> 0]
<1>3. idle \in Request
  BY <1>2 DEF Request, CallerStep
<1>4. CacheTypeOK
  BY <1>2, <1>3 DEF CacheInit, CacheTypeOK, Request
<1>5. \A c \in Caller : caller[c].step = "idle"
  BY DEF CacheInit
<1> QED
  BY <1>4, <1>5 DEF CacheInit, CacheInductive, CallsAreAlone, NamesFit, MidCall, AtStep

\* A caller that goes on from the middle of its call stays the only one there.
LEMMA StillAlone ==
  ASSUME CacheTypeOK, CallsAreAlone, NEW c \in Caller, MidCall(c), NEW s \in Request,
         caller' = [caller EXCEPT ![c] = s]
  PROVE  CallsAreAlone'
BY DEF CacheTypeOK, CallsAreAlone, MidCall

\* The others are not in the middle of a call.
LEMMA OthersRest ==
  ASSUME CacheTypeOK, CallsAreAlone, NEW c \in Caller, MidCall(c), NEW s \in Request,
         caller' = [caller EXCEPT ![c] = s]
  PROVE  /\ caller'[c] = s
         /\ \A d \in Caller \ {c} : caller'[d] = caller[d] /\ caller[d].step \in {"idle", "sent"}
BY DEF CacheTypeOK, CallsAreAlone, MidCall

LEMMA CachingFits ==
  ASSUME CacheInductive, NEW c \in Caller, applyCaching(c)
  PROVE  CacheInductive'
<1>1. PICK asks \in Contents :
        caller' = [caller EXCEPT ![c] =
          [step |-> IF ~MustCreate(asks) THEN "naming"
                    ELSE IF name # 0 THEN "deleting" ELSE "creating",
           asks |-> asks, ref |-> 0]]
  BY DEF applyCaching
<1> DEFINE at == IF ~MustCreate(asks) THEN "naming"
                 ELSE IF name # 0 THEN "deleting" ELSE "creating"
           s == [step |-> at, asks |-> asks, ref |-> 0]
<1>2. at \in {"naming", "deleting", "creating"}
      /\ (at = "naming" => name # 0) /\ (at = "deleting" => name # 0) /\ (at = "creating" => name = 0)
  BY DEF MustCreate
<1>3. caller' = [caller EXCEPT ![c] = s]
  BY <1>1
<1> HIDE DEF at
<1>4. s \in Request /\ s.step = at
  BY <1>2 DEF Request, CallerStep
<1> HIDE DEF s
<1>5. UNCHANGED <<name, last, live, held, created>> /\ ~MidCall(c)
      /\ trouble' = (trouble \/ \E d \in Caller \ {c} : MidCall(d))
  BY DEF applyCaching
<1>6. CacheTypeOK'
  <2>1. caller' \in [Caller -> Request]
    BY <1>3, <1>4 DEF CacheInductive, CacheTypeOK, Request
  <2>2. trouble' \in BOOLEAN
    BY <1>5 DEF CacheInductive, CacheTypeOK
  <2> QED
    BY <1>5, <2>1, <2>2 DEF CacheInductive, CacheTypeOK, Request
<1>7. ASSUME ~trouble' PROVE CallsAreAlone' /\ NamesFit'
  <2>1. ~trouble /\ \A d \in Caller : ~MidCall(d)
    BY <1>5, <1>7
  <2>2. NamesFit
    BY <2>1 DEF CacheInductive
  <2>3. caller'[c] = s /\ \A d \in Caller \ {c} : caller'[d] = caller[d]
    BY <1>3 DEF CacheInductive, CacheTypeOK
  <2>4. \A d \in Caller : caller[d].step \in {"idle", "sent"}
    BY <2>1 DEF MidCall
  <2>5. CallsAreAlone'
    BY <2>3, <2>4 DEF CallsAreAlone, MidCall
  <2>6. live = IF name = 0 THEN {} ELSE {name}
    BY <2>2, <2>4 DEF NamesFit, AtStep
  <2>7. NamesFit'
    BY <1>2, <1>4, <1>5, <2>3, <2>4, <2>6 DEF NamesFit, AtStep
  <2> QED
    BY <2>5, <2>7
<1> QED
  BY <1>6, <1>7 DEF CacheInductive

LEMMA DeletingFits ==
  ASSUME CacheInductive, NEW c \in Caller, DeleteOld(c)
  PROVE  CacheInductive'
<1> DEFINE s == [caller[c] EXCEPT !.step = "creating"]
<1>1. caller' = [caller EXCEPT ![c] = s]
  BY DEF DeleteOld, GoesTo
<1>2. s \in Request /\ s.step = "creating"
  BY DEF CacheInductive, CacheTypeOK, Request, CallerStep
<1> HIDE DEF s
<1>6. UNCHANGED <<name, last, held, created>> /\ MidCall(c) /\ AtStep(c, "deleting")
  BY DEF DeleteOld, MidCall, AtStep
<1>7. \/ name \in live /\ live' = live \ {name} /\ trouble' = trouble
      \/ live' = live /\ trouble' = TRUE
  BY DEF DeleteOld
<1>8. trouble \in BOOLEAN /\ live \in SUBSET (1 .. MaxCaches)
  BY DEF CacheInductive, CacheTypeOK
<1>9. trouble' \in BOOLEAN /\ live' \in SUBSET (1 .. MaxCaches)
  BY ONLY <1>7, <1>8
<1>10. ~trouble' => ~trouble /\ name \in live /\ live' = live \ {name}
  BY ONLY <1>7, Zenon
<1>3. /\ UNCHANGED <<name, last, held, created>> /\ MidCall(c) /\ AtStep(c, "deleting")
      /\ trouble' \in BOOLEAN /\ live' \in SUBSET (1 .. MaxCaches)
      /\ (~trouble' => ~trouble /\ name \in live /\ live' = live \ {name})
  BY ONLY <1>6, <1>9, <1>10, Zenon
<1>4. CacheTypeOK'
  <2>1. caller' \in [Caller -> Request]
    BY <1>1, <1>2 DEF CacheInductive, CacheTypeOK, Request
  <2> QED
    BY <1>3, <2>1 DEF CacheInductive, CacheTypeOK, Request
<1>5. ASSUME ~trouble' PROVE CallsAreAlone' /\ NamesFit'
  <2>1. CallsAreAlone /\ NamesFit /\ CacheTypeOK
    BY <1>3, <1>5 DEF CacheInductive
  <2>2. CallsAreAlone'
    BY <1>1, <1>2, <1>3, <2>1, StillAlone
  <2>3. caller'[c] = s /\ \A d \in Caller \ {c} : caller'[d] = caller[d] /\ caller[d].step \in {"idle", "sent"}
    BY <1>1, <1>2, <1>3, <2>1, OthersRest
  <2>4. name # 0 /\ live = {name}
    BY <1>3, <2>1, <2>3 DEF NamesFit, AtStep
  <2>5. live' = {}
    BY <1>3, <1>5, <2>4
  <2>6. NamesFit'
    BY <1>2, <1>3, <2>3, <2>5 DEF NamesFit, AtStep
  <2> QED
    BY <2>2, <2>6
<1> QED
  BY <1>4, <1>5 DEF CacheInductive

LEMMA CreatingFits ==
  ASSUME CacheInductive, NEW c \in Caller, createCachedContent(c)
  PROVE  CacheInductive'
<1> DEFINE s == [caller[c] EXCEPT !.step = "naming"]
           new == created + 1
<1>1. caller' = [caller EXCEPT ![c] = s]
  BY DEF createCachedContent, GoesTo
<1>2. s \in Request /\ s.step = "naming"
  BY DEF CacheInductive, CacheTypeOK, Request, CallerStep
<1> HIDE DEF s
<1>3. new \in 1 .. MaxCaches
  BY DEF createCachedContent, CacheInductive, CacheTypeOK
<1>4. /\ MidCall(c) /\ AtStep(c, "creating") /\ UNCHANGED trouble
      /\ created' = new /\ name' = new /\ live' = live \cup {new}
      /\ last' = [of |-> caller[c].asks.of, n |-> caller[c].asks.n]
      /\ held' = [held EXCEPT ![new] = last']
  BY DEF createCachedContent, MidCall, AtStep
<1> HIDE DEF new
<1>5. last' \in Contents
  BY <1>4 DEF CacheInductive, CacheTypeOK, Contents
<1>6. CacheTypeOK'
  <2>1. caller' \in [Caller -> Request]
    BY <1>1, <1>2 DEF CacheInductive, CacheTypeOK, Request
  <2>2. held' \in [1 .. MaxCaches -> Contents]
    BY <1>4, <1>5 DEF CacheInductive, CacheTypeOK
  <2>3. name' \in 0 .. MaxCaches /\ created' \in 0 .. MaxCaches
    BY <1>3, <1>4
  <2> QED
    BY <1>3, <1>4, <1>5, <2>1, <2>2, <2>3 DEF CacheInductive, CacheTypeOK, Request
<1>7. ASSUME ~trouble' PROVE CallsAreAlone' /\ NamesFit'
  <2>1. CallsAreAlone /\ NamesFit /\ CacheTypeOK
    BY <1>4, <1>7 DEF CacheInductive
  <2>2. CallsAreAlone'
    BY <1>1, <1>2, <1>4, <2>1, StillAlone
  <2>3. caller'[c] = s /\ \A d \in Caller \ {c} : caller'[d] = caller[d] /\ caller[d].step \in {"idle", "sent"}
    BY <1>1, <1>2, <1>4, <2>1, OthersRest
  <2>4. live = {}
    BY <1>4, <2>1 DEF NamesFit
  <2>5. live' = {name'} /\ name' # 0
    BY <1>3, <1>4, <2>4
  <2>6. NamesFit'
    BY <1>2, <2>3, <2>5 DEF NamesFit, AtStep
  <2> QED
    BY <2>2, <2>6
<1> QED
  BY <1>6, <1>7 DEF CacheInductive

\* What cannot be created is trouble.
LEMMA FailingFits ==
  ASSUME CacheInductive, NEW c \in Caller, CreateFails(c)
  PROVE  CacheInductive'
<1> DEFINE s == [caller[c] EXCEPT !.step = "naming"]
<1>1. caller' = [caller EXCEPT ![c] = s]
  BY DEF CreateFails, GoesTo
<1>2. s \in Request
  BY DEF CacheInductive, CacheTypeOK, Request, CallerStep
<1> HIDE DEF s
<1>3. caller' \in [Caller -> Request]
  BY <1>1, <1>2 DEF CacheInductive, CacheTypeOK, Request
<1> QED
  BY <1>3 DEF CacheInductive, CacheTypeOK, CreateFails, Request

LEMMA ReferringFits ==
  ASSUME CacheInductive, NEW c \in Caller, Refer(c) \/ SendRequest(c)
  PROVE  CacheInductive'
<1>1. CASE Refer(c)
  <2> DEFINE s == [caller[c] EXCEPT !.step = "sending", !.ref = name]
  <2>1. caller' = [caller EXCEPT ![c] = s]
    BY <1>1 DEF Refer, CacheInductive, CacheTypeOK
  <2>2. s \in Request /\ s.step = "sending" /\ s.ref = name
    BY DEF CacheInductive, CacheTypeOK, Request, CallerStep
  <2> HIDE DEF s
  <2>3. UNCHANGED <<name, last, live, held, created, trouble>> /\ MidCall(c) /\ AtStep(c, "naming")
    BY <1>1 DEF Refer, MidCall, AtStep
  <2>4. CacheTypeOK'
    <3>1. caller' \in [Caller -> Request]
      BY <2>1, <2>2 DEF CacheInductive, CacheTypeOK, Request
    <3> QED
      BY <2>3, <3>1 DEF CacheInductive, CacheTypeOK, Request
  <2>5. ASSUME ~trouble' PROVE CallsAreAlone' /\ NamesFit'
    <3>1. CallsAreAlone /\ NamesFit /\ CacheTypeOK
      BY <2>3, <2>5 DEF CacheInductive
    <3>2. CallsAreAlone'
      BY <2>1, <2>2, <2>3, <3>1, StillAlone
    <3>3. caller'[c] = s /\ \A d \in Caller \ {c} : caller'[d] = caller[d] /\ caller[d].step \in {"idle", "sent"}
      BY <2>1, <2>2, <2>3, <3>1, OthersRest
    <3>4. live = IF name = 0 THEN {} ELSE {name}
      BY <2>3, <3>1, <3>3 DEF NamesFit, AtStep
    <3>5. NamesFit'
      BY <2>2, <2>3, <3>3, <3>4 DEF NamesFit, AtStep
    <3> QED
      BY <3>2, <3>5
  <2> QED
    BY <2>4, <2>5 DEF CacheInductive
<1>2. CASE SendRequest(c)
  <2> DEFINE s == [caller[c] EXCEPT !.step = "sent"]
  <2>1. caller' = [caller EXCEPT ![c] = s]
    BY <1>2 DEF SendRequest, GoesTo
  <2>2. s \in Request /\ s.step = "sent"
    BY DEF CacheInductive, CacheTypeOK, Request, CallerStep
  <2> HIDE DEF s
  <2>3. UNCHANGED <<name, last, live, held, created, trouble>> /\ MidCall(c) /\ AtStep(c, "sending")
    BY <1>2 DEF SendRequest, MidCall, AtStep
  <2>4. CacheTypeOK'
    <3>1. caller' \in [Caller -> Request]
      BY <2>1, <2>2 DEF CacheInductive, CacheTypeOK, Request
    <3> QED
      BY <2>3, <3>1 DEF CacheInductive, CacheTypeOK, Request
  <2>5. ASSUME ~trouble' PROVE CallsAreAlone' /\ NamesFit'
    <3>1. CallsAreAlone /\ NamesFit /\ CacheTypeOK
      BY <2>3, <2>5 DEF CacheInductive
    <3>2. CallsAreAlone'
      BY <2>1, <2>2, <2>3, <3>1, StillAlone
    <3>3. caller'[c] = s /\ \A d \in Caller \ {c} : caller'[d] = caller[d] /\ caller[d].step \in {"idle", "sent"}
      BY <2>1, <2>2, <2>3, <3>1, OthersRest
    <3>4. live = IF name = 0 THEN {} ELSE {name}
      BY <2>3, <3>1, <3>3 DEF NamesFit, AtStep
    <3>5. NamesFit'
      BY <2>2, <2>3, <3>3, <3>4 DEF NamesFit, AtStep
    <3> QED
      BY <3>2, <3>5
  <2> QED
    BY <2>4, <2>5 DEF CacheInductive
<1> QED
  BY <1>1, <1>2

LEMMA ExpiringFits == CacheInductive /\ Expire => CacheInductive'
BY DEF CacheInductive, CacheTypeOK, Expire

LEMMA CacheGoesOn == CacheInductive /\ [CacheNext]_cacheVars => CacheInductive'
<1> SUFFICES ASSUME CacheInductive, [CacheNext]_cacheVars PROVE CacheInductive'
  OBVIOUS
<1>1. CASE UNCHANGED cacheVars
  BY <1>1 DEF cacheVars, CacheInductive, CacheTypeOK, CallsAreAlone, NamesFit, MidCall, AtStep
<1>2. CASE CacheNext
  BY <1>2, CachingFits, DeletingFits, CreatingFits, FailingFits, ReferringFits, ExpiringFits
     DEF CacheNext
<1> QED
  BY <1>1, <1>2

\* Without trouble a request that is sent refers to a cache that is there, and
\* there is at most one, whatever number of turns use the client.
THEOREM CachesStayLive == CacheSpec => []CachesAreLive
<1>1. CacheInductive => CachesAreLive
  <2> SUFFICES ASSUME CacheInductive, ~trouble PROVE CachesAreLive
    BY DEF CachesAreLive
  <2>1. NamesFit /\ CallsAreAlone
    BY DEF CacheInductive
  <2>2. Cardinality(live) <= 1
    <3>1. live = {} \/ live = {name}
      BY <2>1 DEF NamesFit
    <3>2. Cardinality({}) = 0 /\ Cardinality({name}) = 1
      BY FS_EmptySet, FS_Singleton
    <3> QED
      BY <3>1, <3>2
  <2>3. ASSUME NEW c \in Caller, AtStep(c, "sending"), caller[c].ref # 0
        PROVE  caller[c].ref \in live
    <3>1. \A d \in Caller : ~AtStep(d, "creating")
      BY <2>1, <2>3 DEF CallsAreAlone, MidCall, AtStep
    <3> QED
      BY <2>1, <2>3, <3>1 DEF NamesFit
  <2> QED
    BY <2>2, <2>3 DEF CachesAreLive
<1> QED
  BY <1>1, CacheStarts, CacheGoesOn, PTL DEF CacheSpec
-----------------------------------------------------------------------------
USE AccessAssumption

Bucket == [tokens : 0 .. Burst, at : Nat]

AccessTypes ==
  /\ clock \in Nat /\ issued \in Nat
  /\ DOMAIN used = 1 .. issued /\ DOMAIN sessions \subseteq 1 .. issued
  /\ bucket \in [Address -> Bucket]
  /\ DOMAIN limiters \subseteq Address
  /\ \A t \in 1 .. issued : used[t] \in 0 .. clock
  /\ \A ip \in Address : bucket[ip].at <= clock

\* A session in the store was seen when it was last used.
SessionFits(t) ==
  /\ t \in DOMAIN sessions => sessions[t] = used[t]
  /\ t \in ended \/ clock - used[t] > TTL \/ t \in DOMAIN sessions

\* An entry of the limiter is the bucket; one that is not there would be full.
LimiterFits(ip) ==
  /\ ip \in DOMAIN limiters => limiters[ip] = bucket[ip]
  /\ ip \notin DOMAIN limiters => bucket[ip].tokens + (clock - bucket[ip].at) >= Burst

AccessInductive ==
  /\ AccessTypes
  /\ \A t \in 1 .. issued : SessionFits(t)
  /\ \A ip \in Address : LimiterFits(ip)

LEMMA SmallerOfTwo == \A a, b \in Int : Min({a, b}) = IF a <= b THEN a ELSE b
<1> SUFFICES ASSUME NEW a \in Int, NEW b \in Int PROVE Min({a, b}) = IF a <= b THEN a ELSE b
  OBVIOUS
<1> DEFINE m == IF a <= b THEN a ELSE b
<1>1. m \in {a, b} /\ \A y \in {a, b} : m <= y
  OBVIOUS
<1>2. \A x \in {a, b} : (\A y \in {a, b} : x <= y) => x = m
  OBVIOUS
<1> QED
  BY <1>1, <1>2 DEF Min

LEMMA RefillingABucket ==
  ASSUME NEW e \in Bucket, clock \in Nat, e.at <= clock
  PROVE  /\ Refilled(e) \in 0 .. Burst
         /\ Refilled(e) = IF Burst <= e.tokens + (clock - e.at) THEN Burst
                          ELSE e.tokens + (clock - e.at)
<1>1. e.tokens \in 0 .. Burst /\ e.at \in Nat
  BY DEF Bucket
<1> DEFINE n == e.tokens + (clock - e.at)
<1>2. n \in Nat
  BY <1>1
<1>3. Refilled(e) = Min({Burst, n})
  BY DEF Refilled
<1> HIDE DEF n
<1>4. Refilled(e) = IF Burst <= n THEN Burst ELSE n
  BY <1>2, <1>3, SmallerOfTwo
<1>5. Refilled(e) \in 0 .. Burst
  BY <1>2, <1>4
<1> QED
  BY <1>4, <1>5 DEF n

LEMMA TakingFromABucket ==
  ASSUME NEW e \in Bucket, clock \in Nat, e.at <= clock
  PROVE  Taken(e) \in Bucket /\ Taken(e).at = clock
<1>1. Refilled(e) \in 0 .. Burst
  BY RefillingABucket
<1>2. Min({1, Refilled(e)}) = IF 1 <= Refilled(e) THEN 1 ELSE Refilled(e)
  BY <1>1, SmallerOfTwo
<1>3. Refilled(e) - Min({1, Refilled(e)}) \in 0 .. Burst
  BY <1>1, <1>2
<1> QED
  BY <1>3 DEF Taken, Bucket

\* Dropping an entry changes nothing.
LEMMA EntriesAreFull ==
  ASSUME AccessInductive, NEW ip \in Address
  PROVE  Refilled(Entry(ip)) = Refilled(bucket[ip])
<1>1. clock \in Nat /\ bucket[ip] \in Bucket /\ bucket[ip].at <= clock
  BY DEF AccessInductive, AccessTypes
<1>2. CASE ip \in DOMAIN limiters
  BY <1>2 DEF AccessInductive, LimiterFits, Entry
<1>3. CASE ip \notin DOMAIN limiters
  <2>1. Full \in Bucket /\ Full.at = clock /\ Full.tokens = Burst
    BY <1>1 DEF Full, Bucket
  <2>2. Refilled(Full) = Burst
    BY <1>1, <2>1, RefillingABucket
  <2>3. bucket[ip].tokens + (clock - bucket[ip].at) >= Burst
    BY <1>3 DEF AccessInductive, LimiterFits
  <2>4. Refilled(bucket[ip]) = Burst
    <3>1. bucket[ip].tokens \in Nat /\ bucket[ip].at \in Nat
      BY <1>1 DEF Bucket
    <3> QED
      BY <1>1, <2>3, <3>1, RefillingABucket
  <2> QED
    BY <1>3, <2>2, <2>4 DEF Entry
<1> QED
  BY <1>2, <1>3

LEMMA AccessStarts == AccessInit => AccessInductive
<1> SUFFICES ASSUME AccessInit PROVE AccessInductive
  OBVIOUS
<1> DEFINE e == [tokens |-> Burst, at |-> 0]
<1>1. e \in Bucket /\ e.at = 0 /\ e.tokens = Burst
  BY DEF Bucket
<1>2. clock = 0 /\ issued = 0 /\ bucket = [ip \in Address |-> e]
  BY DEF AccessInit
<1>3. DOMAIN used = {} /\ DOMAIN sessions = {} /\ DOMAIN limiters = {}
  BY DEF AccessInit
<1> HIDE DEF e
<1>4. 1 .. issued = {}
  BY <1>2
<1>5. AccessTypes
  BY <1>1, <1>2, <1>3, <1>4 DEF AccessTypes
<1>6. \A ip \in Address : LimiterFits(ip)
  BY <1>1, <1>2, <1>3 DEF LimiterFits
<1> QED
  BY <1>4, <1>5, <1>6 DEF AccessInductive

\* Steps that neither touch the sessions nor the limiter.
LEMMA StayingFits ==
  ASSUME AccessInductive, UNCHANGED <<sessions, limiters, clock, issued, used, ended, bucket>>
  PROVE  AccessInductive'
BY DEF AccessInductive, AccessTypes, SessionFits, LimiterFits

\* The limiter alone moves.
LEMMA LimitersStep ==
  ASSUME AccessInductive, UNCHANGED <<sessions, clock, issued, used, ended>>,
         bucket' \in [Address -> Bucket], DOMAIN limiters' \subseteq Address,
         \A ip \in Address : bucket'[ip].at <= clock,
         \A ip \in Address : LimiterFits(ip)'
  PROVE  AccessInductive'
BY DEF AccessInductive, AccessTypes, SessionFits

\* The sessions alone move.
LEMMA SessionsStep ==
  ASSUME AccessInductive, UNCHANGED <<limiters, clock, bucket, issued>>,
         DOMAIN used' = 1 .. issued, DOMAIN sessions' \subseteq 1 .. issued,
         \A t \in 1 .. issued : used'[t] \in 0 .. clock,
         \A t \in 1 .. issued : SessionFits(t)'
  PROVE  AccessInductive'
BY DEF AccessInductive, AccessTypes, LimiterFits

LEMMA LimitersCleanedFits == AccessInductive /\ CleanupLimiters => AccessInductive'
<1> SUFFICES ASSUME AccessInductive, CleanupLimiters PROVE AccessInductive'
  OBVIOUS
<1> DEFINE kept == {ip \in DOMAIN limiters : clock - limiters[ip].at <= IdleFor}
<1>1. limiters' = [ip \in kept |-> limiters[ip]]
      /\ UNCHANGED <<sessions, clock, issued, used, ended, bucket>>
  BY DEF CleanupLimiters, Restrict
<1>2. AccessTypes
  BY DEF AccessInductive
<1>3. ASSUME NEW ip \in Address PROVE LimiterFits(ip)'
  <2>1. LimiterFits(ip) /\ bucket[ip].tokens \in Nat /\ bucket[ip].at \in Nat /\ clock \in Nat
    BY <1>2 DEF AccessInductive, AccessTypes, Bucket
  <2>2. CASE ip \in kept
    BY <1>1, <2>1, <2>2 DEF LimiterFits
  <2>3. CASE ip \in DOMAIN limiters /\ ip \notin kept
    <3>1. limiters[ip] = bucket[ip] /\ ~(clock - bucket[ip].at <= IdleFor)
      BY <2>1, <2>3 DEF LimiterFits
    <3>2. clock - bucket[ip].at >= Burst
      BY <2>1, <3>1
    <3>3. bucket[ip].tokens + (clock - bucket[ip].at) >= Burst
      BY <2>1, <3>2
    <3>4. ip \notin DOMAIN limiters'
      BY <1>1, <2>3
    <3> QED
      BY <1>1, <3>3, <3>4 DEF LimiterFits
  <2>4. CASE ip \notin DOMAIN limiters
    BY <1>1, <2>1, <2>4 DEF LimiterFits
  <2> QED
    BY <2>2, <2>3, <2>4
<1>4. DOMAIN limiters' \subseteq Address
  BY <1>1, <1>2 DEF AccessTypes
<1>5. bucket' \in [Address -> Bucket] /\ \A ip \in Address : bucket'[ip].at <= clock
  BY <1>1, <1>2 DEF AccessTypes
<1> QED
  BY <1>1, <1>3, <1>4, <1>5, LimitersStep

\* The bucket that is never dropped and the entry give the same attempt.
LEMMA LoginStartsFits ==
  ASSUME AccessInductive, NEW b \in Browser, NEW p \in Password, LoginStarts(b, p)
  PROVE  AccessInductive'
<1> DEFINE ip == ClientIP[b]
           taken == Taken(bucket[ip])
<1>1. ip \in Address
  BY DEF Address
<1>2. AccessTypes
  BY DEF AccessInductive
<1>3. /\ limiters' = With(limiters, ip, Taken(Entry(ip)))
      /\ bucket' = [bucket EXCEPT ![ip] = taken]
      /\ UNCHANGED <<sessions, clock, issued, used, ended>>
  BY DEF LoginStarts
<1>4. Taken(Entry(ip)) = taken
  BY <1>1, EntriesAreFull DEF Taken
<1>5. taken \in Bucket /\ taken.at = clock /\ clock \in Nat
  BY <1>1, <1>2, TakingFromABucket DEF AccessTypes
<1> HIDE DEF ip, taken
<1>6. /\ DOMAIN limiters' = {ip} \cup DOMAIN limiters /\ limiters'[ip] = taken
      /\ \A q \in DOMAIN limiters \ {ip} : limiters'[q] = limiters[q]
  BY <1>3, <1>4, Zenon DEF With
<1>7. bucket'[ip] = taken /\ \A q \in Address \ {ip} : bucket'[q] = bucket[q]
  BY <1>1, <1>2, <1>3 DEF AccessTypes
<1>8. ASSUME NEW q \in Address PROVE LimiterFits(q)'
  <2>1. CASE q = ip
    BY <1>6, <1>7, <2>1 DEF LimiterFits
  <2>2. CASE q # ip
    BY <1>3, <1>6, <1>7, <2>2 DEF LimiterFits, AccessInductive
  <2> QED
    BY <2>1, <2>2
<1>9. bucket' \in [Address -> Bucket] /\ \A q \in Address : bucket'[q].at <= clock
  <2>1. bucket \in [Address -> Bucket] /\ \A q \in Address : bucket[q].at <= clock
    BY <1>2 DEF AccessTypes
  <2>2. bucket' \in [Address -> Bucket]
    BY <1>3, <1>5, <2>1
  <2>3. ASSUME NEW q \in Address PROVE bucket'[q].at <= clock
    <3>1. CASE q = ip
      BY <1>5, <1>7, <3>1
    <3>2. CASE q # ip
      BY <1>7, <2>1, <3>2
    <3> QED
      BY <3>1, <3>2
  <2> QED
    BY <2>2, <2>3
<1>10. DOMAIN limiters' \subseteq Address
  BY <1>1, <1>2, <1>6 DEF AccessTypes
<1> QED
  BY <1>3, <1>8, <1>9, <1>10, LimitersStep

\* A session that is looked at is used, or dropped when its time is over.
LEMMA ValidatingFits ==
  ASSUME AccessInductive, NEW token,
         sessions' = AfterValidate(token),
         used' = IF Valid(token) THEN [used EXCEPT ![token] = clock] ELSE used,
         UNCHANGED <<limiters, clock, bucket, issued, ended>>
  PROVE  AccessInductive'
<1>1. AccessTypes
  BY DEF AccessInductive
<1>2. CASE token \notin DOMAIN sessions
  <2>1. sessions' = sessions /\ used' = used
    BY <1>2 DEF AfterValidate, Valid
  <2> QED
    BY <2>1, StayingFits
<1>3. CASE token \in DOMAIN sessions /\ Fresh(token)
  <2>1. sessions' = [sessions EXCEPT ![token] = clock] /\ used' = [used EXCEPT ![token] = clock]
    BY <1>3 DEF AfterValidate, Valid
  <2>2. DOMAIN used' = 1 .. issued /\ DOMAIN sessions' \subseteq 1 .. issued /\ token \in 1 .. issued
    BY <1>1, <1>3, <2>1 DEF AccessTypes
  <2>3. /\ sessions'[token] = clock /\ used'[token] = clock
        /\ \A t \in DOMAIN sessions \ {token} : sessions'[t] = sessions[t]
        /\ \A t \in 1 .. issued : t # token => used'[t] = used[t]
        /\ DOMAIN sessions' = DOMAIN sessions
    BY <1>1, <1>3, <2>1, <2>2 DEF AccessTypes
  <2>4. ASSUME NEW t \in 1 .. issued PROVE SessionFits(t)'
    <3>1. CASE t = token
      BY <1>3, <2>3, <3>1 DEF SessionFits
    <3>2. CASE t # token
      BY <2>3, <3>2 DEF SessionFits, AccessInductive
    <3> QED
      BY <3>1, <3>2
  <2>5. clock \in 0 .. clock
    BY <1>1 DEF AccessTypes
  <2>6. \A t \in 1 .. issued : used'[t] \in 0 .. clock
    BY <1>1, <2>3, <2>5 DEF AccessTypes
  <2> QED
    BY <2>2, <2>4, <2>6, SessionsStep
<1>4. CASE token \in DOMAIN sessions /\ ~Fresh(token)
  <2>1. sessions' = [t \in DOMAIN sessions \ {token} |-> sessions[t]] /\ used' = used
    BY <1>4 DEF AfterValidate, Valid, Restrict
  <2>2. DOMAIN used' = 1 .. issued /\ DOMAIN sessions' \subseteq 1 .. issued
    BY <1>1, <2>1 DEF AccessTypes
  <2>3. ASSUME NEW t \in 1 .. issued PROVE SessionFits(t)'
    <3>1. CASE t = token
      <4>1. clock - used[t] > TTL
        <5>1. sessions[t] = used[t] /\ used[t] \in 0 .. clock /\ clock \in Nat
          BY <1>1, <1>4, <3>1 DEF SessionFits, AccessInductive, AccessTypes
        <5> QED
          BY <1>4, <3>1, <5>1 DEF Fresh
      <4>2. t \notin DOMAIN sessions'
        BY <2>1, <3>1
      <4> QED
        BY <2>1, <4>1, <4>2 DEF SessionFits
    <3>2. CASE t # token
      BY <2>1, <3>2 DEF SessionFits, AccessInductive
    <3> QED
      BY <3>1, <3>2
  <2>4. \A t \in 1 .. issued : used'[t] \in 0 .. clock
    BY <1>1, <2>1 DEF AccessTypes
  <2> QED
    BY <2>2, <2>3, <2>4, SessionsStep
<1> QED
  BY <1>2, <1>3, <1>4

LEMMA SessionsCleanedFits == AccessInductive /\ CleanupSessions => AccessInductive'
<1> SUFFICES ASSUME AccessInductive, CleanupSessions PROVE AccessInductive'
  OBVIOUS
<1> DEFINE kept == {t \in DOMAIN sessions : Fresh(t)}
<1>1. sessions' = [t \in kept |-> sessions[t]]
      /\ UNCHANGED <<limiters, clock, bucket, issued, used, ended>>
  BY DEF CleanupSessions, Restrict
<1>2. AccessTypes
  BY DEF AccessInductive
<1>3. DOMAIN used' = 1 .. issued /\ DOMAIN sessions' \subseteq 1 .. issued
  BY <1>1, <1>2 DEF AccessTypes
<1>4. ASSUME NEW t \in 1 .. issued PROVE SessionFits(t)'
  <2>1. CASE t \in DOMAIN sessions /\ ~Fresh(t)
    <3>1. sessions[t] = used[t] /\ used[t] \in 0 .. clock /\ clock \in Nat
      BY <1>2, <2>1 DEF SessionFits, AccessInductive, AccessTypes
    <3>2. clock - used[t] > TTL
      BY <2>1, <3>1 DEF Fresh
    <3>3. t \notin DOMAIN sessions'
      BY <1>1, <2>1
    <3> QED
      BY <1>1, <3>2, <3>3 DEF SessionFits
  <2>2. CASE ~(t \in DOMAIN sessions /\ ~Fresh(t))
    <3>1. t \in DOMAIN sessions <=> t \in kept
      BY <2>2
    <3> QED
      BY <1>1, <3>1 DEF SessionFits, AccessInductive
  <2> QED
    BY <2>1, <2>2
<1>5. \A t \in 1 .. issued : used'[t] \in 0 .. clock
  BY <1>1, <1>2 DEF AccessTypes
<1> QED
  BY <1>1, <1>3, <1>4, <1>5, SessionsStep

LEMMA LogoutFits ==
  ASSUME AccessInductive, NEW b \in Browser, Logout(b)
  PROVE  AccessInductive'
<1> DEFINE token == Carried(b)
<1>1. /\ sessions' = [t \in DOMAIN sessions \ {token} |-> sessions[t]]
      /\ ended' = IF token = 0 THEN ended ELSE ended \cup {token}
      /\ UNCHANGED <<limiters, clock, bucket, issued, used>>
  BY DEF Logout, Restrict
<1> HIDE DEF token
<1>2. AccessTypes
  BY DEF AccessInductive
<1>3. DOMAIN used' = 1 .. issued /\ DOMAIN sessions' \subseteq 1 .. issued
  BY <1>1, <1>2 DEF AccessTypes
<1>4. ASSUME NEW t \in 1 .. issued PROVE SessionFits(t)'
  <2>1. CASE t = token
    <3>1. t \in ended' /\ t \notin DOMAIN sessions'
      BY <1>1, <2>1
    <3> QED
      BY <3>1 DEF SessionFits
  <2>2. CASE t # token
    BY <1>1, <2>2 DEF SessionFits, AccessInductive
  <2> QED
    BY <2>1, <2>2
<1>5. \A t \in 1 .. issued : used'[t] \in 0 .. clock
  BY <1>1, <1>2 DEF AccessTypes
<1> QED
  BY <1>1, <1>3, <1>4, <1>5, SessionsStep

LEMMA LoginCreatesFits ==
  ASSUME AccessInductive, NEW b \in Browser, LoginCreates(b)
  PROVE  AccessInductive'
<1> DEFINE new == issued + 1
<1>1. /\ issued' = new
      /\ sessions' = With(sessions, new, clock)
      /\ used' = With(used, new, clock)
      /\ UNCHANGED <<limiters, clock, bucket, ended>>
  BY DEF LoginCreates
<1>2. AccessTypes
  BY DEF AccessInductive
<1>3. 1 .. new = 1 .. issued \cup {new} /\ new \in Nat /\ new \notin 1 .. issued
  BY <1>2 DEF AccessTypes
<1> HIDE DEF new
<1>4. /\ DOMAIN sessions' = {new} \cup DOMAIN sessions
      /\ DOMAIN used' = {new} \cup DOMAIN used
      /\ sessions'[new] = clock /\ used'[new] = clock
      /\ \A t \in DOMAIN sessions \ {new} : sessions'[t] = sessions[t]
      /\ \A t \in DOMAIN used \ {new} : used'[t] = used[t]
  BY <1>1, Zenon DEF With
<1>5. clock \in 0 .. clock
  BY <1>2 DEF AccessTypes
<1>6. AccessTypes'
  BY <1>1, <1>2, <1>3, <1>4, <1>5 DEF AccessTypes
<1>7. ASSUME NEW t \in 1 .. new PROVE SessionFits(t)'
  <2>1. CASE t = new
    BY <1>4, <2>1 DEF SessionFits
  <2>2. CASE t # new
    BY <1>1, <1>2, <1>3, <1>4, <2>2 DEF SessionFits, AccessInductive, AccessTypes
  <2> QED
    BY <2>1, <2>2
<1>8. \A ip \in Address : LimiterFits(ip)'
  BY <1>1 DEF AccessInductive, LimiterFits
<1> QED
  BY <1>1, <1>6, <1>7, <1>8 DEF AccessInductive

LEMMA InvalidatingFits ==
  ASSUME AccessInductive, NEW b \in Browser, InvalidateAll(b)
  PROVE  AccessInductive'
<1>1. /\ ended' = ended \cup DOMAIN sessions /\ DOMAIN sessions' = {}
      /\ UNCHANGED <<limiters, clock, issued, used, bucket>>
  BY DEF InvalidateAll
<1>2. \A t \in 1 .. issued : SessionFits(t)'
  BY <1>1 DEF AccessInductive, SessionFits
<1> QED
  BY <1>1, <1>2, SessionsStep DEF AccessInductive, AccessTypes

LEMMA TickFits == AccessInductive /\ Tick => AccessInductive'
<1> SUFFICES ASSUME AccessInductive, Tick PROVE AccessInductive'
  OBVIOUS
<1>1. clock' = clock + 1 /\ UNCHANGED <<sessions, limiters, issued, used, ended, bucket>>
  BY DEF Tick
<1>2. AccessTypes
  BY DEF AccessInductive
<1>3. \A ip \in Address : bucket[ip].at \in Nat /\ bucket[ip].tokens \in Nat /\ bucket[ip].at <= clock
  BY <1>2 DEF AccessTypes, Bucket
<1>4. clock \in Nat /\ \A t \in 1 .. issued : used[t] \in 0 .. clock
  BY <1>2 DEF AccessTypes
<1>5. AccessTypes'
  BY <1>1, <1>2, <1>3, <1>4 DEF AccessTypes
<1>6. ASSUME NEW t \in 1 .. issued PROVE SessionFits(t)'
  <2>1. used[t] \in 0 .. clock /\ SessionFits(t)
    BY <1>4 DEF AccessInductive
  <2>2. clock - used[t] > TTL => clock' - used[t] > TTL
    BY <1>1, <1>4, <2>1
  <2> QED
    BY <1>1, <2>1, <2>2 DEF SessionFits
<1>7. ASSUME NEW ip \in Address PROVE LimiterFits(ip)'
  <2>1. LimiterFits(ip)
    BY DEF AccessInductive
  <2>2. bucket[ip].tokens + (clock - bucket[ip].at) >= Burst
          => bucket[ip].tokens + (clock' - bucket[ip].at) >= Burst
    BY <1>1, <1>3, <1>4
  <2> QED
    BY <1>1, <2>1, <2>2 DEF LimiterFits
<1> QED
  BY <1>1, <1>5, <1>6, <1>7 DEF AccessInductive

LEMMA RestartFits == AccessInductive /\ Restart => AccessInductive'
<1> SUFFICES ASSUME AccessInductive, Restart PROVE AccessInductive'
  OBVIOUS
<1>1. /\ ended' = 1 .. issued /\ DOMAIN sessions' = {} /\ DOMAIN limiters' = {}
      /\ bucket' = [ip \in Address |-> Full] /\ UNCHANGED <<clock, issued, used>>
  BY DEF Restart
<1>2. AccessTypes
  BY DEF AccessInductive
<1>3. Full \in Bucket /\ Full.at = clock /\ Full.tokens = Burst /\ clock \in Nat
  BY <1>2 DEF Full, Bucket, AccessTypes
<1>4. AccessTypes'
  BY <1>1, <1>2, <1>3 DEF AccessTypes
<1>5. \A t \in 1 .. issued : SessionFits(t)'
  BY <1>1 DEF SessionFits
<1>6. ASSUME NEW ip \in Address PROVE LimiterFits(ip)'
  <2>1. bucket'[ip].tokens + (clock' - bucket'[ip].at) = Burst
    BY <1>1, <1>3
  <2> QED
    BY <1>1, <2>1 DEF LimiterFits
<1> QED
  BY <1>1, <1>4, <1>5, <1>6 DEF AccessInductive

LEMMA AccessGoesOn == AccessInductive /\ [AccessNext]_accessVars => AccessInductive'
<1> SUFFICES ASSUME AccessInductive, [AccessNext]_accessVars PROVE AccessInductive'
  OBVIOUS
<1>1. CASE UNCHANGED accessVars
  BY <1>1, StayingFits DEF accessVars
<1>2. ASSUME NEW b \in Browser, BrowserStep(b) PROVE AccessInductive'
  <2>1. CASE ValidateRequest(b)
    BY <2>1, ValidatingFits DEF ValidateRequest, authCheck
  <2>2. ASSUME NEW before \in Password, NEW new \in Password, ChangePassword(b, before, new)
        PROVE  AccessInductive'
    BY <2>2, ValidatingFits DEF ChangePassword, authCheck
  <2>3. CASE VerifyPassword(b) \/ LoginCounts(b)
    BY <2>3, StayingFits DEF VerifyPassword, LoginCounts
  <2> QED
    BY <1>2, <2>1, <2>2, <2>3, LoginStartsFits, LoginCreatesFits, LogoutFits, InvalidatingFits
       DEF BrowserStep
<1>3. CASE \E before, new \in Password : AuthReset(before, new)
  BY <1>3, StayingFits DEF AuthReset
<1>4. CASE \E c \in Browser \cup {Cli} : FileTruncated(c) \/ FileWritten(c)
  BY <1>4, StayingFits DEF FileTruncated, FileWritten
<1> QED
  BY <1>1, <1>2, <1>3, <1>4, SessionsCleanedFits, LimitersCleanedFits, TickFits, RestartFits
     DEF AccessNext

\* A session lasts until its time is over or it is ended, and an address that
\* is dropped from the limiter has neither an attempt more nor one less.
THEOREM AccessStaysKept == AccessSpec => []AccessIsKept
<1>1. AccessInductive => SessionsLast
  BY DEF AccessInductive, SessionFits, SessionsLast
<1>2. AccessInductive => IdleEntriesAreFull
  BY EntriesAreFull DEF IdleEntriesAreFull
<1> QED
  BY <1>1, <1>2, AccessStarts, AccessGoesOn, PTL DEF AccessSpec, AccessIsKept
-----------------------------------------------------------------------------
USE LifeAssumption

\* Where a part has been loaded and not been started yet: an agent that has been
\* may have ended since, after an interrupt.
Loaded ==
  /\ phase \in {"channels", "boot", "assign", "startConnectors"} =>
       \A p \in Remote : state[p] \in {"ready", "up"}
  /\ phase \in {"assign", "startConnectors"} => \A p \in Local : state[p] \in {"ready", "up"}
  /\ phase \in {"boot", "assign", "startConnectors", "startAgents", "startChannels"} =>
       \A p \in Channel : state[p] \in {"ready", "up"}
  /\ phase \in {"channels", "boot", "assign", "startConnectors", "startAgents"} =>
       interrupted \/ \A p \in Agent : state[p] \in {"ready", "up"}

\* What is up once its stage is over, without an interrupt.
RouterStarts == {"startServer", "running"}
SchedulerStarts == {"startRouter"} \cup RouterStarts
ChannelsStart == {"startScheduler"} \cup SchedulerStarts
AgentsStart == {"startChannels"} \cup ChannelsStart
ConnectorsStart == {"startAgents"} \cup AgentsStart

Started ==
  /\ ~interrupted =>
       /\ phase \in ConnectorsStart => \A p \in Connector : state[p] = "up"
       /\ phase \in AgentsStart => \A p \in Agent : state[p] = "up"
       /\ phase \in ChannelsStart => \A p \in Channel : state[p] = "up"
       /\ phase \in SchedulerStarts => state["scheduler"] = "up"
       /\ phase \in RouterStarts => state["router"] = "up"
       /\ phase = "running" => state["server"] = "up" \/ headless
  /\ headless => state["server"] # "up"

\* What does not run any more once its stage of the shutdown is over.
SchedulerStopped == {"closeStore", "exited"}
ConnectorsStopped == {"stopScheduler"} \cup SchedulerStopped
AgentsStopped == {"stopConnectors"} \cup ConnectorsStopped
RouterStopped == {"stopAgents"} \cup AgentsStopped
ChannelsStopped == {"waitRouter"} \cup RouterStopped
ServerStopped == {"stopChannels"} \cup ChannelsStopped

Stopped ==
  /\ phase \in ServerStopped => state["server"] # "up"
  /\ phase \in ChannelsStopped => \A p \in Channel : state[p] # "up"
  /\ phase \in RouterStopped => state["router"] # "up"
  /\ phase \in AgentsStopped => \A p \in Agent : state[p] # "up"
  /\ phase \in ConnectorsStopped => \A p \in Connector : state[p] # "up"
  /\ phase \in SchedulerStopped => state["scheduler"] # "up"
  /\ phase \notin AgentsStopped => \A p \in Connector \cup {"scheduler"} : state[p] \notin {"down", "left"}

\* The store is there before all else, and is closed at the very end.
Opened ==
  /\ phase \in {"connectors", "channels", "boot", "assign", "startConnectors"} \cup ConnectorsStart =>
       state["store"] = "up"
  /\ state["store"] = "down" => phase = "exited"
  /\ phase = "exited" => state["store"] = "down"

\* The skills are dealt out when all enabled connectors are there.
Enabled(k, connector) == Chosen(k, connector) \in Connector \cup {None}
BoundTo(s) == {b.skill : b \in {c \in bindings[s] : Enabled(c.skill, c.connector)}}

Dealt ==
  [a \in Agent |->
    IF a \in Specialist THEN BoundTo(a)
    ELSE IF a = General THEN {k \in Skill \ ((UNION {BoundTo(s) : s \in Specialist}) \cup unusable) : Enabled(k, None)}
    ELSE {}]

\* What the validation leaves: a connector that a template asks for is there.
TemplatesFit ==
  \A s \in Specialist : \A b \in bindings[s] :
    template[b.skill].spec => Chosen(b.skill, b.connector) \in Connector

Skilled ==
  phase \in {"startConnectors"} \cup ConnectorsStart =>
    /\ given = Dealt
    /\ known = [a \in Agent \ {Executive} |-> given[a]]
    /\ TemplatesFit

LifeInductive == LifeTypeOK /\ Loaded /\ Started /\ Stopped /\ Opened /\ Skilled

\* The phases are spelled out wherever they are met.
USE DEF RouterStarts, SchedulerStarts, ChannelsStart, AgentsStart, ConnectorsStart,
        SchedulerStopped, ConnectorsStopped, AgentsStopped, RouterStopped, ChannelsStopped,
        ServerStopped

States == {"none", "ready", "up", "down", "left"}

\* What a step does to the parts.
LEMMA PartsAreSet ==
  ASSUME LifeTypeOK, NEW parts, NEW s \in States, Set(parts, s)
  PROVE  /\ state' \in [Part -> States]
         /\ \A p \in Part : state'[p] = IF p \in parts THEN s ELSE state[p]
BY DEF Set, LifeTypeOK, States

LEMMA PartsAreThere ==
  /\ \A p \in Connector \cup Channel \cup Agent : p \in Part
  /\ \A p \in Remote \cup Local : p \in Connector
  /\ {"store", "scheduler", "router", "server"} \subseteq Part
BY DEF Part, Connector

LEMMA GroupsAreApart ==
  /\ \A p \in Connector : p \notin Channel /\ p \notin Agent /\ p \notin {"store", "scheduler", "router", "server"}
  /\ \A p \in Channel : p \notin Agent /\ p \notin {"store", "scheduler", "router", "server"}
  /\ \A p \in Agent : p \notin {"store", "scheduler", "router", "server"}
OBVIOUS

LEMMA DealtStays ==
  ASSUME UNCHANGED <<bindings, template, unusable>>
  PROVE  Dealt' = Dealt /\ TemplatesFit' = TemplatesFit
<1>1. \A s : BoundTo(s)' = BoundTo(s)
  BY DEF BoundTo, Enabled, Chosen
<1>2. \A k : Enabled(k, None)' = Enabled(k, None)
  BY DEF Enabled, Chosen
<1>3. Dealt' = Dealt
  <2> DEFINE rest == {k \in Skill \ ((UNION {BoundTo(s) : s \in Specialist}) \cup unusable) : Enabled(k, None)}
  <2>1. rest' = rest
    BY <1>1, <1>2
  <2>2. ASSUME NEW a \in Agent PROVE Dealt'[a] = Dealt[a]
    BY <1>1, <2>1 DEF Dealt
  <2> HIDE DEF rest
  <2> QED
    BY <2>2 DEF Dealt
<1>4. TemplatesFit' = TemplatesFit
  BY DEF TemplatesFit, Chosen
<1> QED
  BY <1>3, <1>4

LEMMA ActiveIsAChannel == ActiveChannel \subseteq Channel \cup {None}
BY DEF ActiveChannel

LEMMA LoadStoreFits ==
  ASSUME LifeInductive, loadStore
  PROVE  LifeInductive'
<1>1. LifeTypeOK /\ Loaded /\ Started /\ Stopped /\ Opened /\ Skilled
  BY DEF LifeInductive
<1>2. LifeTypeOK'
  BY <1>1, PartsAreSet DEF loadStore, Go, Fail, LifeTypeOK, Phase, States, configVars, skillVars
<1>3. Loaded'
  BY <1>1, PartsAreSet, PartsAreThere, GroupsAreApart DEF loadStore, Go, Fail, LifeTypeOK, States, Loaded
<1>4. Started'
  BY <1>1, PartsAreSet, PartsAreThere, GroupsAreApart
     DEF loadStore, Go, Fail, LifeTypeOK, States, Loaded, Started, configVars
<1>5. Stopped'
  BY <1>1, PartsAreSet, PartsAreThere, GroupsAreApart
     DEF loadStore, Go, Fail, LifeTypeOK, States, Started, Stopped, configVars
<1>6. Opened'
  BY <1>1, PartsAreSet, PartsAreThere, GroupsAreApart DEF loadStore, Go, Fail, LifeTypeOK, States, Opened
<1>7. Skilled'
  BY <1>1, DealtStays DEF loadStore, Go, Fail, Skilled, configVars, skillVars
<1> QED
  BY <1>2, <1>3, <1>4, <1>5, <1>6, <1>7 DEF LifeInductive

LEMMA LoadConnectorsFits ==
  ASSUME LifeInductive, loadConnectors
  PROVE  LifeInductive'
<1>1. LifeTypeOK /\ Loaded /\ Started /\ Stopped /\ Opened /\ Skilled
  BY DEF LifeInductive
<1>2. phase = "connectors" /\ UNCHANGED <<interrupted, configVars, skillVars>> /\ active' \in Channel \cup {None}
  BY <1>1 DEF loadConnectors, Go, Fail, LifeTypeOK
<1>3. \/ Set(Remote \cup Agent, "ready") /\ phase' = "channels"
      \/ phase' = "failed" /\ \E connected \in SUBSET Part : Set(connected, "ready") /\ "store" \notin connected
  <2>1. \A connected \in SUBSET Remote : Agent \cup connected \in SUBSET Part /\ "store" \notin Agent \cup connected
    BY PartsAreThere, GroupsAreApart
  <2> QED
    BY <2>1 DEF loadConnectors, Go, Fail
<1>4. CASE Set(Remote \cup Agent, "ready") /\ phase' = "channels"
  <2>7. /\ phase' = "channels" /\ state' \in [Part -> States]
        /\ \A q \in Part : state'[q] = IF q \in Remote \cup Agent THEN "ready" ELSE state[q]
    BY <1>1, <1>4, PartsAreSet DEF States
  <2>1. LifeTypeOK'
    BY <1>1, <1>2, <2>7, PartsAreSet DEF LifeTypeOK, Phase, States, configVars, skillVars
  <2>2. Loaded'
    BY <1>1, <1>2, <2>7, PartsAreSet, PartsAreThere, GroupsAreApart DEF States, Loaded
  <2>3. Started'
    BY <1>1, <1>2, <2>7, PartsAreSet, PartsAreThere, GroupsAreApart DEF States, Loaded, Started, configVars
  <2>4. Stopped'
    BY <1>1, <1>2, <2>7, PartsAreSet, PartsAreThere, GroupsAreApart DEF States, Stopped
  <2>5. Opened'
    BY <1>1, <1>2, <2>7, PartsAreSet, PartsAreThere, GroupsAreApart DEF States, Opened
  <2>6. Skilled'
    BY <1>1, <1>2, <2>7, DealtStays DEF Skilled, configVars, skillVars
  <2> QED
    BY <2>1, <2>2, <2>3, <2>4, <2>5, <2>6 DEF LifeInductive
<1>5. CASE phase' = "failed" /\ \E connected \in SUBSET Part : Set(connected, "ready") /\ "store" \notin connected
  <2> PICK connected \in SUBSET Part : Set(connected, "ready") /\ "store" \notin connected
    BY <1>5
  <2>7. /\ phase' = "failed" /\ state' \in [Part -> States]
        /\ \A q \in Part : state'[q] = IF q \in connected THEN "ready" ELSE state[q]
        /\ "store" \notin connected
    BY <1>1, <1>5, PartsAreSet DEF States
  <2>1. LifeTypeOK'
    BY <1>1, <1>2, <2>7, PartsAreSet DEF LifeTypeOK, Phase, States, configVars, skillVars
  <2>2. Loaded'
    BY <1>1, <1>2, <2>7, PartsAreSet, PartsAreThere, GroupsAreApart DEF States, Loaded
  <2>3. Started'
    BY <1>1, <1>2, <2>7, PartsAreSet, PartsAreThere, GroupsAreApart DEF States, Loaded, Started, configVars
  <2>4. Stopped'
    BY <1>1, <1>2, <2>7, PartsAreSet, PartsAreThere, GroupsAreApart DEF States, Stopped
  <2>5. Opened'
    BY <1>1, <1>2, <2>7, PartsAreSet, PartsAreThere, GroupsAreApart DEF States, Opened
  <2>6. Skilled'
    BY <1>1, <1>2, <2>7, DealtStays DEF Skilled, configVars, skillVars
  <2> QED
    BY <2>1, <2>2, <2>3, <2>4, <2>5, <2>6 DEF LifeInductive
<1> QED
  BY <1>3, <1>4, <1>5

LEMMA LoadChannelsFits ==
  ASSUME LifeInductive, loadChannels
  PROVE  LifeInductive'
<1>1. LifeTypeOK /\ Loaded /\ Started /\ Stopped /\ Opened /\ Skilled
  BY DEF LifeInductive
<1>2. phase = "channels" /\ UNCHANGED <<interrupted, configVars, skillVars>> /\ active' \in Channel \cup {None}
  BY <1>1, ActiveIsAChannel DEF loadChannels, Go, Fail, LifeTypeOK
<1>3. \/ Set(Channel, "ready") /\ phase' = "boot"
      \/ phase' = "failed" /\ \E connected \in SUBSET Part : Set(connected, "ready") /\ "store" \notin connected
  <2>1. \A connected \in SUBSET Channel : connected \in SUBSET Part /\ "store" \notin connected
    BY PartsAreThere, GroupsAreApart
  <2> QED
    BY <2>1 DEF loadChannels, Go, Fail
<1>4. CASE Set(Channel, "ready") /\ phase' = "boot"
  <2>7. /\ phase' = "boot" /\ state' \in [Part -> States]
        /\ \A q \in Part : state'[q] = IF q \in Channel THEN "ready" ELSE state[q]
    BY <1>1, <1>4, PartsAreSet DEF States
  <2>1. LifeTypeOK'
    BY <1>1, <1>2, <2>7, PartsAreSet DEF LifeTypeOK, Phase, States, configVars, skillVars
  <2>2. Loaded'
    BY <1>1, <1>2, <2>7, PartsAreSet, PartsAreThere, GroupsAreApart DEF States, Loaded
  <2>3. Started'
    BY <1>1, <1>2, <2>7, PartsAreSet, PartsAreThere, GroupsAreApart DEF States, Loaded, Started, configVars
  <2>4. Stopped'
    BY <1>1, <1>2, <2>7, PartsAreSet, PartsAreThere, GroupsAreApart DEF States, Stopped
  <2>5. Opened'
    BY <1>1, <1>2, <2>7, PartsAreSet, PartsAreThere, GroupsAreApart DEF States, Opened
  <2>6. Skilled'
    BY <1>1, <1>2, <2>7, DealtStays DEF Skilled, configVars, skillVars
  <2> QED
    BY <2>1, <2>2, <2>3, <2>4, <2>5, <2>6 DEF LifeInductive
<1>5. CASE phase' = "failed" /\ \E connected \in SUBSET Part : Set(connected, "ready") /\ "store" \notin connected
  <2> PICK connected \in SUBSET Part : Set(connected, "ready") /\ "store" \notin connected
    BY <1>5
  <2>7. /\ phase' = "failed" /\ state' \in [Part -> States]
        /\ \A q \in Part : state'[q] = IF q \in connected THEN "ready" ELSE state[q]
        /\ "store" \notin connected
    BY <1>1, <1>5, PartsAreSet DEF States
  <2>1. LifeTypeOK'
    BY <1>1, <1>2, <2>7, PartsAreSet DEF LifeTypeOK, Phase, States, configVars, skillVars
  <2>2. Loaded'
    BY <1>1, <1>2, <2>7, PartsAreSet, PartsAreThere, GroupsAreApart DEF States, Loaded
  <2>3. Started'
    BY <1>1, <1>2, <2>7, PartsAreSet, PartsAreThere, GroupsAreApart DEF States, Loaded, Started, configVars
  <2>4. Stopped'
    BY <1>1, <1>2, <2>7, PartsAreSet, PartsAreThere, GroupsAreApart DEF States, Stopped
  <2>5. Opened'
    BY <1>1, <1>2, <2>7, PartsAreSet, PartsAreThere, GroupsAreApart DEF States, Opened
  <2>6. Skilled'
    BY <1>1, <1>2, <2>7, DealtStays DEF Skilled, configVars, skillVars
  <2> QED
    BY <2>1, <2>2, <2>3, <2>4, <2>5, <2>6 DEF LifeInductive
<1> QED
  BY <1>3, <1>4, <1>5

LEMMA RegisterLocalConnectorsFits ==
  ASSUME LifeInductive, registerLocalConnectors
  PROVE  LifeInductive'
<1>1. LifeTypeOK /\ Loaded /\ Started /\ Stopped /\ Opened /\ Skilled
  BY DEF LifeInductive
<1>2. LifeTypeOK'
  BY <1>1, PartsAreSet DEF registerLocalConnectors, Go, LifeTypeOK, Phase, States, configVars, skillVars
<1>3. Loaded'
  BY <1>1, PartsAreSet, PartsAreThere, GroupsAreApart
     DEF registerLocalConnectors, Go, LifeTypeOK, States, Loaded
<1>4. Started'
  BY <1>1, PartsAreSet, PartsAreThere, GroupsAreApart
     DEF registerLocalConnectors, Go, LifeTypeOK, States, Loaded, Started, configVars
<1>5. Stopped'
  BY <1>1, PartsAreSet, PartsAreThere, GroupsAreApart
     DEF registerLocalConnectors, Go, LifeTypeOK, States, Started, Stopped, configVars
<1>6. Opened'
  BY <1>1, PartsAreSet, PartsAreThere, GroupsAreApart
     DEF registerLocalConnectors, Go, LifeTypeOK, States, Opened
<1>7. Skilled'
  BY <1>1, DealtStays DEF registerLocalConnectors, Go, Skilled, configVars, skillVars
<1> QED
  BY <1>2, <1>3, <1>4, <1>5, <1>6, <1>7 DEF LifeInductive

LEMMA StartConnectorsFits ==
  ASSUME LifeInductive, StartConnectors
  PROVE  LifeInductive'
<1>1. LifeTypeOK /\ Loaded /\ Started /\ Stopped /\ Opened /\ Skilled
  BY DEF LifeInductive
<1>2. phase = "startConnectors" /\ UNCHANGED <<interrupted, active, configVars, skillVars>>
  BY DEF StartConnectors, StartEach
<1>3. \/ \E p \in Connector : Set({p}, "up") /\ phase' = "startConnectors"
      \/ state' = state /\ phase' = "failed"
      \/ state' = state /\ phase' = "startAgents" /\ \A p \in Connector : state[p] # "ready"
  BY DEF StartConnectors, StartEach, In, Go, Fail
<1>4. CASE \E p \in Connector : Set({p}, "up") /\ phase' = "startConnectors"
  <2> PICK p \in Connector : Set({p}, "up") /\ phase' = "startConnectors"
    BY <1>4
  <2>7. state' \in [Part -> States] /\ \A q \in Part : state'[q] = IF q = p THEN "up" ELSE state[q]
    BY <1>1, PartsAreSet DEF States
  <2>1. LifeTypeOK'
    BY <1>1, <1>2, <2>7, PartsAreSet DEF LifeTypeOK, Phase, States, configVars, skillVars
  <2>2. Loaded'
    BY <1>1, <1>2, <2>7, PartsAreSet, PartsAreThere, GroupsAreApart DEF States, Loaded
  <2>3. Started'
    BY <1>1, <1>2, <2>7, PartsAreSet, PartsAreThere, GroupsAreApart DEF States, Loaded, Started, configVars
  <2>4. Stopped'
    BY <1>1, <1>2, <2>7, PartsAreSet, PartsAreThere, GroupsAreApart DEF States, Stopped
  <2>5. Opened'
    BY <1>1, <1>2, <2>7, PartsAreSet, PartsAreThere, GroupsAreApart DEF States, Opened
  <2>6. Skilled'
    BY <1>1, <1>2, <2>7, DealtStays DEF Skilled, configVars, skillVars
  <2> QED
    BY <2>1, <2>2, <2>3, <2>4, <2>5, <2>6 DEF LifeInductive
<1>5. CASE state' = state /\ phase' = "failed"
  <2>1. LifeTypeOK'
    BY <1>1, <1>2, <1>5, PartsAreSet DEF LifeTypeOK, Phase, States, configVars, skillVars
  <2>2. Loaded'
    BY <1>1, <1>2, <1>5, PartsAreSet, PartsAreThere, GroupsAreApart DEF States, Loaded
  <2>3. Started'
    BY <1>1, <1>2, <1>5, PartsAreSet, PartsAreThere, GroupsAreApart DEF States, Loaded, Started, configVars
  <2>4. Stopped'
    BY <1>1, <1>2, <1>5, PartsAreSet, PartsAreThere, GroupsAreApart DEF States, Stopped
  <2>5. Opened'
    BY <1>1, <1>2, <1>5, PartsAreSet, PartsAreThere, GroupsAreApart DEF States, Opened
  <2>6. Skilled'
    BY <1>1, <1>2, <1>5, DealtStays DEF Skilled, configVars, skillVars
  <2> QED
    BY <2>1, <2>2, <2>3, <2>4, <2>5, <2>6 DEF LifeInductive
<1>6. CASE state' = state /\ phase' = "startAgents" /\ \A p \in Connector : state[p] # "ready"
  <2>1. LifeTypeOK'
    BY <1>1, <1>2, <1>6 DEF LifeTypeOK, Phase, configVars, skillVars
  <2>2. Loaded'
    BY <1>1, <1>2, <1>6 DEF Loaded
  <2>3. Started'
    <3>1. \A p \in Connector : state[p] = "up"
      BY <1>1, <1>2, <1>6 DEF Loaded, Connector
    <3> QED
      BY <1>1, <1>2, <1>6, <3>1 DEF Started, configVars
  <2>4. Stopped'
    BY <1>1, <1>2, <1>6, PartsAreSet, PartsAreThere, GroupsAreApart DEF States, Stopped
  <2>5. Opened'
    BY <1>1, <1>2, <1>6, PartsAreSet, PartsAreThere, GroupsAreApart DEF States, Opened
  <2>6. Skilled'
    BY <1>1, <1>2, <1>6, DealtStays DEF Skilled, configVars, skillVars
  <2> QED
    BY <2>1, <2>2, <2>3, <2>4, <2>5, <2>6 DEF LifeInductive
<1> QED
  BY <1>3, <1>4, <1>5, <1>6

LEMMA StartAgentsFits ==
  ASSUME LifeInductive, StartAgents
  PROVE  LifeInductive'
<1>1. LifeTypeOK /\ Loaded /\ Started /\ Stopped /\ Opened /\ Skilled
  BY DEF LifeInductive
<1>2. phase = "startAgents" /\ UNCHANGED <<interrupted, active, configVars, skillVars>>
  BY DEF StartAgents, StartEach
<1>3. \/ \E p \in Agent : Set({p}, "up") /\ phase' = "startAgents"
      \/ state' = state /\ phase' = "failed"
      \/ state' = state /\ phase' = "startChannels" /\ \A p \in Agent : state[p] # "ready"
  BY DEF StartAgents, StartEach, In, Go, Fail
<1>4. CASE \E p \in Agent : Set({p}, "up") /\ phase' = "startAgents"
  <2> PICK p \in Agent : Set({p}, "up") /\ phase' = "startAgents"
    BY <1>4
  <2>7. state' \in [Part -> States] /\ \A q \in Part : state'[q] = IF q = p THEN "up" ELSE state[q]
    BY <1>1, PartsAreSet DEF States
  <2>1. LifeTypeOK'
    BY <1>1, <1>2, <2>7, PartsAreSet DEF LifeTypeOK, Phase, States, configVars, skillVars
  <2>2. Loaded'
    BY <1>1, <1>2, <2>7, PartsAreSet, PartsAreThere, GroupsAreApart DEF States, Loaded
  <2>3. Started'
    BY <1>1, <1>2, <2>7, PartsAreSet, PartsAreThere, GroupsAreApart DEF States, Loaded, Started, configVars
  <2>4. Stopped'
    BY <1>1, <1>2, <2>7, PartsAreSet, PartsAreThere, GroupsAreApart DEF States, Stopped
  <2>5. Opened'
    BY <1>1, <1>2, <2>7, PartsAreSet, PartsAreThere, GroupsAreApart DEF States, Opened
  <2>6. Skilled'
    BY <1>1, <1>2, <2>7, DealtStays DEF Skilled, configVars, skillVars
  <2> QED
    BY <2>1, <2>2, <2>3, <2>4, <2>5, <2>6 DEF LifeInductive
<1>5. CASE state' = state /\ phase' = "failed"
  <2>1. LifeTypeOK'
    BY <1>1, <1>2, <1>5, PartsAreSet DEF LifeTypeOK, Phase, States, configVars, skillVars
  <2>2. Loaded'
    BY <1>1, <1>2, <1>5, PartsAreSet, PartsAreThere, GroupsAreApart DEF States, Loaded
  <2>3. Started'
    BY <1>1, <1>2, <1>5, PartsAreSet, PartsAreThere, GroupsAreApart DEF States, Loaded, Started, configVars
  <2>4. Stopped'
    BY <1>1, <1>2, <1>5, PartsAreSet, PartsAreThere, GroupsAreApart DEF States, Stopped
  <2>5. Opened'
    BY <1>1, <1>2, <1>5, PartsAreSet, PartsAreThere, GroupsAreApart DEF States, Opened
  <2>6. Skilled'
    BY <1>1, <1>2, <1>5, DealtStays DEF Skilled, configVars, skillVars
  <2> QED
    BY <2>1, <2>2, <2>3, <2>4, <2>5, <2>6 DEF LifeInductive
<1>6. CASE state' = state /\ phase' = "startChannels" /\ \A p \in Agent : state[p] # "ready"
  <2>1. LifeTypeOK'
    BY <1>1, <1>2, <1>6, PartsAreSet DEF LifeTypeOK, Phase, States, configVars, skillVars
  <2>2. Loaded'
    BY <1>1, <1>2, <1>6 DEF Loaded
  <2>3. Started'
    BY <1>1, <1>2, <1>6, PartsAreSet, PartsAreThere, GroupsAreApart DEF States, Loaded, Started, configVars
  <2>4. Stopped'
    BY <1>1, <1>2, <1>6, PartsAreSet, PartsAreThere, GroupsAreApart DEF States, Stopped
  <2>5. Opened'
    BY <1>1, <1>2, <1>6, PartsAreSet, PartsAreThere, GroupsAreApart DEF States, Opened
  <2>6. Skilled'
    BY <1>1, <1>2, <1>6, DealtStays DEF Skilled, configVars, skillVars
  <2> QED
    BY <2>1, <2>2, <2>3, <2>4, <2>5, <2>6 DEF LifeInductive
<1> QED
  BY <1>3, <1>4, <1>5, <1>6

LEMMA StartChannelsFits ==
  ASSUME LifeInductive, StartChannels
  PROVE  LifeInductive'
<1>1. LifeTypeOK /\ Loaded /\ Started /\ Stopped /\ Opened /\ Skilled
  BY DEF LifeInductive
<1>2. phase = "startChannels" /\ UNCHANGED <<interrupted, active, configVars, skillVars>>
  BY DEF StartChannels, StartEach
<1>3. \/ \E p \in Channel : Set({p}, "up") /\ phase' = "startChannels"
      \/ state' = state /\ phase' = "failed"
      \/ state' = state /\ phase' = "startScheduler" /\ \A p \in Channel : state[p] # "ready"
  BY DEF StartChannels, StartEach, In, Go, Fail
<1>4. CASE \E p \in Channel : Set({p}, "up") /\ phase' = "startChannels"
  <2> PICK p \in Channel : Set({p}, "up") /\ phase' = "startChannels"
    BY <1>4
  <2>7. state' \in [Part -> States] /\ \A q \in Part : state'[q] = IF q = p THEN "up" ELSE state[q]
    BY <1>1, PartsAreSet DEF States
  <2>1. LifeTypeOK'
    BY <1>1, <1>2, <2>7, PartsAreSet DEF LifeTypeOK, Phase, States, configVars, skillVars
  <2>2. Loaded'
    BY <1>1, <1>2, <2>7, PartsAreSet, PartsAreThere, GroupsAreApart DEF States, Loaded
  <2>3. Started'
    BY <1>1, <1>2, <2>7, PartsAreSet, PartsAreThere, GroupsAreApart DEF States, Loaded, Started, configVars
  <2>4. Stopped'
    BY <1>1, <1>2, <2>7, PartsAreSet, PartsAreThere, GroupsAreApart DEF States, Stopped
  <2>5. Opened'
    BY <1>1, <1>2, <2>7, PartsAreSet, PartsAreThere, GroupsAreApart DEF States, Opened
  <2>6. Skilled'
    BY <1>1, <1>2, <2>7, DealtStays DEF Skilled, configVars, skillVars
  <2> QED
    BY <2>1, <2>2, <2>3, <2>4, <2>5, <2>6 DEF LifeInductive
<1>5. CASE state' = state /\ phase' = "failed"
  <2>1. LifeTypeOK'
    BY <1>1, <1>2, <1>5, PartsAreSet DEF LifeTypeOK, Phase, States, configVars, skillVars
  <2>2. Loaded'
    BY <1>1, <1>2, <1>5, PartsAreSet, PartsAreThere, GroupsAreApart DEF States, Loaded
  <2>3. Started'
    BY <1>1, <1>2, <1>5, PartsAreSet, PartsAreThere, GroupsAreApart DEF States, Loaded, Started, configVars
  <2>4. Stopped'
    BY <1>1, <1>2, <1>5, PartsAreSet, PartsAreThere, GroupsAreApart DEF States, Stopped
  <2>5. Opened'
    BY <1>1, <1>2, <1>5, PartsAreSet, PartsAreThere, GroupsAreApart DEF States, Opened
  <2>6. Skilled'
    BY <1>1, <1>2, <1>5, DealtStays DEF Skilled, configVars, skillVars
  <2> QED
    BY <2>1, <2>2, <2>3, <2>4, <2>5, <2>6 DEF LifeInductive
<1>6. CASE state' = state /\ phase' = "startScheduler" /\ \A p \in Channel : state[p] # "ready"
  <2>1. LifeTypeOK'
    BY <1>1, <1>2, <1>6, PartsAreSet DEF LifeTypeOK, Phase, States, configVars, skillVars
  <2>2. Loaded'
    BY <1>1, <1>2, <1>6 DEF Loaded
  <2>3. Started'
    BY <1>1, <1>2, <1>6, PartsAreSet, PartsAreThere, GroupsAreApart DEF States, Loaded, Started, configVars
  <2>4. Stopped'
    BY <1>1, <1>2, <1>6, PartsAreSet, PartsAreThere, GroupsAreApart DEF States, Stopped
  <2>5. Opened'
    BY <1>1, <1>2, <1>6, PartsAreSet, PartsAreThere, GroupsAreApart DEF States, Opened
  <2>6. Skilled'
    BY <1>1, <1>2, <1>6, DealtStays DEF Skilled, configVars, skillVars
  <2> QED
    BY <2>1, <2>2, <2>3, <2>4, <2>5, <2>6 DEF LifeInductive
<1> QED
  BY <1>3, <1>4, <1>5, <1>6

LEMMA StartSchedulerFits ==
  ASSUME LifeInductive, StartScheduler
  PROVE  LifeInductive'
<1>1. LifeTypeOK /\ Loaded /\ Started /\ Stopped /\ Opened /\ Skilled
  BY DEF LifeInductive
<1>2. LifeTypeOK'
  BY <1>1, PartsAreSet DEF StartScheduler, Go, Fail, LifeTypeOK, Phase, States, configVars, skillVars
<1>3. Loaded'
  BY <1>1, PartsAreSet, PartsAreThere, GroupsAreApart DEF StartScheduler, Go, Fail, LifeTypeOK, States, Loaded
<1>4. Started'
  BY <1>1, PartsAreSet, PartsAreThere, GroupsAreApart
     DEF StartScheduler, Go, Fail, LifeTypeOK, States, Loaded, Started, configVars
<1>5. Stopped'
  BY <1>1, PartsAreSet, PartsAreThere, GroupsAreApart
     DEF StartScheduler, Go, Fail, LifeTypeOK, States, Started, Stopped, configVars
<1>6. Opened'
  BY <1>1, PartsAreSet, PartsAreThere, GroupsAreApart DEF StartScheduler, Go, Fail, LifeTypeOK, States, Opened
<1>7. Skilled'
  BY <1>1, DealtStays DEF StartScheduler, Go, Fail, Skilled, configVars, skillVars
<1> QED
  BY <1>2, <1>3, <1>4, <1>5, <1>6, <1>7 DEF LifeInductive

LEMMA StartRouterFits ==
  ASSUME LifeInductive, StartRouter
  PROVE  LifeInductive'
<1>1. LifeTypeOK /\ Loaded /\ Started /\ Stopped /\ Opened /\ Skilled
  BY DEF LifeInductive
<1>2. LifeTypeOK'
  BY <1>1, PartsAreSet DEF StartRouter, Go, LifeTypeOK, Phase, States, configVars, skillVars
<1>3. Loaded'
  BY <1>1, PartsAreSet, PartsAreThere, GroupsAreApart DEF StartRouter, Go, LifeTypeOK, States, Loaded
<1>4. Started'
  BY <1>1, PartsAreSet, PartsAreThere, GroupsAreApart
     DEF StartRouter, Go, LifeTypeOK, States, Loaded, Started, configVars
<1>5. Stopped'
  BY <1>1, PartsAreSet, PartsAreThere, GroupsAreApart
     DEF StartRouter, Go, LifeTypeOK, States, Started, Stopped, configVars
<1>6. Opened'
  BY <1>1, PartsAreSet, PartsAreThere, GroupsAreApart DEF StartRouter, Go, LifeTypeOK, States, Opened
<1>7. Skilled'
  BY <1>1, DealtStays DEF StartRouter, Go, Skilled, configVars, skillVars
<1> QED
  BY <1>2, <1>3, <1>4, <1>5, <1>6, <1>7 DEF LifeInductive

LEMMA StartServerFits ==
  ASSUME LifeInductive, StartServer
  PROVE  LifeInductive'
<1>1. LifeTypeOK /\ Loaded /\ Started /\ Stopped /\ Opened /\ Skilled
  BY DEF LifeInductive
<1>2. LifeTypeOK'
  BY <1>1, PartsAreSet DEF StartServer, Go, Fail, LifeTypeOK, Phase, States, configVars, skillVars
<1>3. Loaded'
  BY <1>1, PartsAreSet, PartsAreThere, GroupsAreApart DEF StartServer, Go, Fail, LifeTypeOK, States, Loaded
<1>4. Started'
  BY <1>1, PartsAreSet, PartsAreThere, GroupsAreApart
     DEF StartServer, Go, Fail, LifeTypeOK, States, Loaded, Started, configVars
<1>5. Stopped'
  BY <1>1, PartsAreSet, PartsAreThere, GroupsAreApart
     DEF StartServer, Go, Fail, LifeTypeOK, States, Started, Stopped, configVars
<1>6. Opened'
  BY <1>1, PartsAreSet, PartsAreThere, GroupsAreApart DEF StartServer, Go, Fail, LifeTypeOK, States, Opened
<1>7. Skilled'
  BY <1>1, DealtStays DEF StartServer, Go, Fail, Skilled, configVars, skillVars
<1> QED
  BY <1>2, <1>3, <1>4, <1>5, <1>6, <1>7 DEF LifeInductive

LEMMA ServerFailsFits ==
  ASSUME LifeInductive, ServerFails
  PROVE  LifeInductive'
<1>1. LifeTypeOK /\ Loaded /\ Started /\ Stopped /\ Opened /\ Skilled
  BY DEF LifeInductive
<1>2. LifeTypeOK'
  BY <1>1, PartsAreSet DEF ServerFails, Go, Fail, LifeTypeOK, Phase, States, configVars, skillVars
<1>3. Loaded'
  BY <1>1, PartsAreSet, PartsAreThere, GroupsAreApart DEF ServerFails, Go, Fail, LifeTypeOK, States, Loaded
<1>4. Started'
  BY <1>1, PartsAreSet, PartsAreThere, GroupsAreApart
     DEF ServerFails, Go, Fail, LifeTypeOK, States, Loaded, Started, configVars
<1>5. Stopped'
  BY <1>1, PartsAreSet, PartsAreThere, GroupsAreApart
     DEF ServerFails, Go, Fail, LifeTypeOK, States, Started, Stopped, configVars
<1>6. Opened'
  BY <1>1, PartsAreSet, PartsAreThere, GroupsAreApart DEF ServerFails, Go, Fail, LifeTypeOK, States, Opened
<1>7. Skilled'
  BY <1>1, DealtStays DEF ServerFails, Go, Fail, Skilled, configVars, skillVars
<1> QED
  BY <1>2, <1>3, <1>4, <1>5, <1>6, <1>7 DEF LifeInductive

LEMMA SignalArrivesFits ==
  ASSUME LifeInductive, SignalArrives
  PROVE  LifeInductive'
<1>1. LifeTypeOK /\ Loaded /\ Started /\ Stopped /\ Opened /\ Skilled
  BY DEF LifeInductive
<1>2. LifeTypeOK'
  BY <1>1, PartsAreSet DEF SignalArrives, LifeTypeOK, Phase, States, configVars, skillVars
<1>3. Loaded'
  BY <1>1, PartsAreSet, PartsAreThere, GroupsAreApart DEF SignalArrives, LifeTypeOK, States, Loaded
<1>4. Started'
  BY <1>1, PartsAreSet, PartsAreThere, GroupsAreApart
     DEF SignalArrives, LifeTypeOK, States, Loaded, Started, configVars
<1>5. Stopped'
  BY <1>1, PartsAreSet, PartsAreThere, GroupsAreApart
     DEF SignalArrives, LifeTypeOK, States, Started, Stopped, configVars
<1>6. Opened'
  BY <1>1, PartsAreSet, PartsAreThere, GroupsAreApart DEF SignalArrives, LifeTypeOK, States, Opened
<1>7. Skilled'
  BY <1>1, DealtStays DEF SignalArrives, Skilled, configVars, skillVars
<1> QED
  BY <1>2, <1>3, <1>4, <1>5, <1>6, <1>7 DEF LifeInductive

LEMMA ShutdownFits ==
  ASSUME LifeInductive, Shutdown
  PROVE  LifeInductive'
<1>1. LifeTypeOK /\ Loaded /\ Started /\ Stopped /\ Opened /\ Skilled
  BY DEF LifeInductive
<1>2. LifeTypeOK'
  BY <1>1, PartsAreSet DEF Shutdown, Go, LifeTypeOK, Phase, States, configVars, skillVars
<1>3. Loaded'
  BY <1>1, PartsAreSet, PartsAreThere, GroupsAreApart DEF Shutdown, Go, LifeTypeOK, States, Loaded
<1>4. Started'
  BY <1>1, PartsAreSet, PartsAreThere, GroupsAreApart
     DEF Shutdown, Go, LifeTypeOK, States, Loaded, Started, configVars
<1>5. Stopped'
  BY <1>1, PartsAreSet, PartsAreThere, GroupsAreApart
     DEF Shutdown, Go, LifeTypeOK, States, Started, Stopped, configVars
<1>6. Opened'
  BY <1>1, PartsAreSet, PartsAreThere, GroupsAreApart DEF Shutdown, Go, LifeTypeOK, States, Opened
<1>7. Skilled'
  BY <1>1, DealtStays DEF Shutdown, Go, Skilled, configVars, skillVars
<1> QED
  BY <1>2, <1>3, <1>4, <1>5, <1>6, <1>7 DEF LifeInductive

LEMMA StopServerFits ==
  ASSUME LifeInductive, StopServer
  PROVE  LifeInductive'
<1>1. LifeTypeOK /\ Loaded /\ Started /\ Stopped /\ Opened /\ Skilled
  BY DEF LifeInductive
<1>2. phase = "stopServer" /\ UNCHANGED <<interrupted, active, configVars, skillVars>>
  BY DEF StopServer, StopEach
<1>3. \/ \E p \in {"server"}, s \in {"down", "left"} : Set({p}, s) /\ phase' = "stopServer"
      \/ state' = state /\ phase' = "stopChannels" /\ \A p \in {"server"} : state[p] # "up"
  BY DEF StopServer, StopEach, In, Go
<1>4. CASE \E p \in {"server"}, s \in {"down", "left"} : Set({p}, s) /\ phase' = "stopServer"
  <2> PICK p \in {"server"}, s \in {"down", "left"} : Set({p}, s) /\ phase' = "stopServer"
    BY <1>4
  <2>7. state' \in [Part -> States] /\ \A q \in Part : state'[q] = IF q = p THEN s ELSE state[q]
    BY <1>1, PartsAreSet DEF States
  <2>1. LifeTypeOK'
    BY <1>1, <1>2, <2>7 DEF LifeTypeOK, Phase, States, configVars, skillVars
  <2>2. Loaded'
    BY <1>1, <1>2, <2>7, PartsAreThere, GroupsAreApart DEF States, Loaded
  <2>3. Started'
    BY <1>1, <1>2, <2>7, PartsAreThere, GroupsAreApart DEF States, Loaded, Started, configVars
  <2>4. Stopped'
    BY <1>1, <1>2, <2>7, PartsAreThere, GroupsAreApart DEF States, Stopped
  <2>5. Opened'
    BY <1>1, <1>2, <2>7, PartsAreThere, GroupsAreApart DEF States, Opened
  <2>6. Skilled'
    BY <1>1, <1>2, <2>7, DealtStays DEF Skilled, configVars, skillVars
  <2> QED
    BY <2>1, <2>2, <2>3, <2>4, <2>5, <2>6 DEF LifeInductive
<1>5. CASE state' = state /\ phase' = "stopChannels" /\ \A p \in {"server"} : state[p] # "up"
  <2>1. LifeTypeOK'
    BY <1>1, <1>2, <1>5 DEF LifeTypeOK, Phase, States, configVars, skillVars
  <2>2. Loaded'
    BY <1>1, <1>2, <1>5, PartsAreThere, GroupsAreApart DEF States, Loaded
  <2>3. Started'
    BY <1>1, <1>2, <1>5, PartsAreThere, GroupsAreApart DEF States, Loaded, Started, configVars
  <2>4. Stopped'
    BY <1>1, <1>2, <1>5, PartsAreThere, GroupsAreApart DEF States, Stopped
  <2>5. Opened'
    BY <1>1, <1>2, <1>5, PartsAreThere, GroupsAreApart DEF States, Opened
  <2>6. Skilled'
    BY <1>1, <1>2, <1>5, DealtStays DEF Skilled, configVars, skillVars
  <2> QED
    BY <2>1, <2>2, <2>3, <2>4, <2>5, <2>6 DEF LifeInductive
<1> QED
  BY <1>3, <1>4, <1>5

LEMMA StopChannelsFits ==
  ASSUME LifeInductive, StopChannels
  PROVE  LifeInductive'
<1>1. LifeTypeOK /\ Loaded /\ Started /\ Stopped /\ Opened /\ Skilled
  BY DEF LifeInductive
<1>2. phase = "stopChannels" /\ UNCHANGED <<interrupted, active, configVars, skillVars>>
  BY DEF StopChannels, StopEach
<1>3. \/ \E p \in Channel, s \in {"down", "left"} : Set({p}, s) /\ phase' = "stopChannels"
      \/ state' = state /\ phase' = "waitRouter" /\ \A p \in Channel : state[p] # "up"
  BY DEF StopChannels, StopEach, In, Go
<1>4. CASE \E p \in Channel, s \in {"down", "left"} : Set({p}, s) /\ phase' = "stopChannels"
  <2> PICK p \in Channel, s \in {"down", "left"} : Set({p}, s) /\ phase' = "stopChannels"
    BY <1>4
  <2>7. state' \in [Part -> States] /\ \A q \in Part : state'[q] = IF q = p THEN s ELSE state[q]
    BY <1>1, PartsAreSet DEF States
  <2>1. LifeTypeOK'
    BY <1>1, <1>2, <2>7 DEF LifeTypeOK, Phase, States, configVars, skillVars
  <2>2. Loaded'
    BY <1>1, <1>2, <2>7, PartsAreThere, GroupsAreApart DEF States, Loaded
  <2>3. Started'
    BY <1>1, <1>2, <2>7, PartsAreThere, GroupsAreApart DEF States, Loaded, Started, configVars
  <2>4. Stopped'
    BY <1>1, <1>2, <2>7, PartsAreThere, GroupsAreApart DEF States, Stopped
  <2>5. Opened'
    BY <1>1, <1>2, <2>7, PartsAreThere, GroupsAreApart DEF States, Opened
  <2>6. Skilled'
    BY <1>1, <1>2, <2>7, DealtStays DEF Skilled, configVars, skillVars
  <2> QED
    BY <2>1, <2>2, <2>3, <2>4, <2>5, <2>6 DEF LifeInductive
<1>5. CASE state' = state /\ phase' = "waitRouter" /\ \A p \in Channel : state[p] # "up"
  <2>1. LifeTypeOK'
    BY <1>1, <1>2, <1>5 DEF LifeTypeOK, Phase, States, configVars, skillVars
  <2>2. Loaded'
    BY <1>1, <1>2, <1>5, PartsAreThere, GroupsAreApart DEF States, Loaded
  <2>3. Started'
    BY <1>1, <1>2, <1>5, PartsAreThere, GroupsAreApart DEF States, Loaded, Started, configVars
  <2>4. Stopped'
    BY <1>1, <1>2, <1>5, PartsAreThere, GroupsAreApart DEF States, Stopped
  <2>5. Opened'
    BY <1>1, <1>2, <1>5, PartsAreThere, GroupsAreApart DEF States, Opened
  <2>6. Skilled'
    BY <1>1, <1>2, <1>5, DealtStays DEF Skilled, configVars, skillVars
  <2> QED
    BY <2>1, <2>2, <2>3, <2>4, <2>5, <2>6 DEF LifeInductive
<1> QED
  BY <1>3, <1>4, <1>5

LEMMA WaitForRouterFits ==
  ASSUME LifeInductive, WaitForRouter
  PROVE  LifeInductive'
<1>1. LifeTypeOK /\ Loaded /\ Started /\ Stopped /\ Opened /\ Skilled
  BY DEF LifeInductive
<1>2. phase = "waitRouter" /\ UNCHANGED <<interrupted, active, configVars, skillVars>>
  BY DEF WaitForRouter, AwaitEach
<1>3. \/ \E p \in {"router"}, s \in {"down", "left"} : Set({p}, s) /\ phase' = "waitRouter"
      \/ state' = state /\ phase' = "stopAgents" /\ \A p \in {"router"} : state[p] # "up"
  BY DEF WaitForRouter, AwaitEach, In, Go
<1>4. CASE \E p \in {"router"}, s \in {"down", "left"} : Set({p}, s) /\ phase' = "waitRouter"
  <2> PICK p \in {"router"}, s \in {"down", "left"} : Set({p}, s) /\ phase' = "waitRouter"
    BY <1>4
  <2>7. state' \in [Part -> States] /\ \A q \in Part : state'[q] = IF q = p THEN s ELSE state[q]
    BY <1>1, PartsAreSet DEF States
  <2>1. LifeTypeOK'
    BY <1>1, <1>2, <2>7 DEF LifeTypeOK, Phase, States, configVars, skillVars
  <2>2. Loaded'
    BY <1>1, <1>2, <2>7, PartsAreThere, GroupsAreApart DEF States, Loaded
  <2>3. Started'
    BY <1>1, <1>2, <2>7, PartsAreThere, GroupsAreApart DEF States, Loaded, Started, configVars
  <2>4. Stopped'
    BY <1>1, <1>2, <2>7, PartsAreThere, GroupsAreApart DEF States, Stopped
  <2>5. Opened'
    BY <1>1, <1>2, <2>7, PartsAreThere, GroupsAreApart DEF States, Opened
  <2>6. Skilled'
    BY <1>1, <1>2, <2>7, DealtStays DEF Skilled, configVars, skillVars
  <2> QED
    BY <2>1, <2>2, <2>3, <2>4, <2>5, <2>6 DEF LifeInductive
<1>5. CASE state' = state /\ phase' = "stopAgents" /\ \A p \in {"router"} : state[p] # "up"
  <2>1. LifeTypeOK'
    BY <1>1, <1>2, <1>5 DEF LifeTypeOK, Phase, States, configVars, skillVars
  <2>2. Loaded'
    BY <1>1, <1>2, <1>5, PartsAreThere, GroupsAreApart DEF States, Loaded
  <2>3. Started'
    BY <1>1, <1>2, <1>5, PartsAreThere, GroupsAreApart DEF States, Loaded, Started, configVars
  <2>4. Stopped'
    BY <1>1, <1>2, <1>5, PartsAreThere, GroupsAreApart DEF States, Stopped
  <2>5. Opened'
    BY <1>1, <1>2, <1>5, PartsAreThere, GroupsAreApart DEF States, Opened
  <2>6. Skilled'
    BY <1>1, <1>2, <1>5, DealtStays DEF Skilled, configVars, skillVars
  <2> QED
    BY <2>1, <2>2, <2>3, <2>4, <2>5, <2>6 DEF LifeInductive
<1> QED
  BY <1>3, <1>4, <1>5

LEMMA StopAgentsFits ==
  ASSUME LifeInductive, StopAgents
  PROVE  LifeInductive'
<1>1. LifeTypeOK /\ Loaded /\ Started /\ Stopped /\ Opened /\ Skilled
  BY DEF LifeInductive
<1>2. phase = "stopAgents" /\ UNCHANGED <<interrupted, active, configVars, skillVars>>
  BY DEF StopAgents, AwaitEach
<1>3. \/ \E p \in Agent, s \in {"down", "left"} : Set({p}, s) /\ phase' = "stopAgents"
      \/ state' = state /\ phase' = "stopConnectors" /\ \A p \in Agent : state[p] # "up"
  BY DEF StopAgents, AwaitEach, In, Go
<1>4. CASE \E p \in Agent, s \in {"down", "left"} : Set({p}, s) /\ phase' = "stopAgents"
  <2> PICK p \in Agent, s \in {"down", "left"} : Set({p}, s) /\ phase' = "stopAgents"
    BY <1>4
  <2>7. state' \in [Part -> States] /\ \A q \in Part : state'[q] = IF q = p THEN s ELSE state[q]
    BY <1>1, PartsAreSet DEF States
  <2>1. LifeTypeOK'
    BY <1>1, <1>2, <2>7 DEF LifeTypeOK, Phase, States, configVars, skillVars
  <2>2. Loaded'
    BY <1>1, <1>2, <2>7, PartsAreThere, GroupsAreApart DEF States, Loaded
  <2>3. Started'
    BY <1>1, <1>2, <2>7, PartsAreThere, GroupsAreApart DEF States, Loaded, Started, configVars
  <2>4. Stopped'
    BY <1>1, <1>2, <2>7, PartsAreThere, GroupsAreApart DEF States, Stopped
  <2>5. Opened'
    BY <1>1, <1>2, <2>7, PartsAreThere, GroupsAreApart DEF States, Opened
  <2>6. Skilled'
    BY <1>1, <1>2, <2>7, DealtStays DEF Skilled, configVars, skillVars
  <2> QED
    BY <2>1, <2>2, <2>3, <2>4, <2>5, <2>6 DEF LifeInductive
<1>5. CASE state' = state /\ phase' = "stopConnectors" /\ \A p \in Agent : state[p] # "up"
  <2>1. LifeTypeOK'
    BY <1>1, <1>2, <1>5 DEF LifeTypeOK, Phase, States, configVars, skillVars
  <2>2. Loaded'
    BY <1>1, <1>2, <1>5, PartsAreThere, GroupsAreApart DEF States, Loaded
  <2>3. Started'
    BY <1>1, <1>2, <1>5, PartsAreThere, GroupsAreApart DEF States, Loaded, Started, configVars
  <2>4. Stopped'
    BY <1>1, <1>2, <1>5, PartsAreThere, GroupsAreApart DEF States, Stopped
  <2>5. Opened'
    BY <1>1, <1>2, <1>5, PartsAreThere, GroupsAreApart DEF States, Opened
  <2>6. Skilled'
    BY <1>1, <1>2, <1>5, DealtStays DEF Skilled, configVars, skillVars
  <2> QED
    BY <2>1, <2>2, <2>3, <2>4, <2>5, <2>6 DEF LifeInductive
<1> QED
  BY <1>3, <1>4, <1>5

LEMMA StopConnectorsFits ==
  ASSUME LifeInductive, StopConnectors
  PROVE  LifeInductive'
<1>1. LifeTypeOK /\ Loaded /\ Started /\ Stopped /\ Opened /\ Skilled
  BY DEF LifeInductive
<1>2. phase = "stopConnectors" /\ UNCHANGED <<interrupted, active, configVars, skillVars>>
  BY DEF StopConnectors, StopEach
<1>3. \/ \E p \in Connector, s \in {"down", "left"} : Set({p}, s) /\ phase' = "stopConnectors"
      \/ state' = state /\ phase' = "stopScheduler" /\ \A p \in Connector : state[p] # "up"
  BY DEF StopConnectors, StopEach, In, Go
<1>4. CASE \E p \in Connector, s \in {"down", "left"} : Set({p}, s) /\ phase' = "stopConnectors"
  <2> PICK p \in Connector, s \in {"down", "left"} : Set({p}, s) /\ phase' = "stopConnectors"
    BY <1>4
  <2>7. state' \in [Part -> States] /\ \A q \in Part : state'[q] = IF q = p THEN s ELSE state[q]
    BY <1>1, PartsAreSet DEF States
  <2>1. LifeTypeOK'
    BY <1>1, <1>2, <2>7 DEF LifeTypeOK, Phase, States, configVars, skillVars
  <2>2. Loaded'
    BY <1>1, <1>2, <2>7, PartsAreThere, GroupsAreApart DEF States, Loaded
  <2>3. Started'
    BY <1>1, <1>2, <2>7, PartsAreThere, GroupsAreApart DEF States, Loaded, Started, configVars
  <2>4. Stopped'
    BY <1>1, <1>2, <2>7, PartsAreThere, GroupsAreApart DEF States, Stopped
  <2>5. Opened'
    BY <1>1, <1>2, <2>7, PartsAreThere, GroupsAreApart DEF States, Opened
  <2>6. Skilled'
    BY <1>1, <1>2, <2>7, DealtStays DEF Skilled, configVars, skillVars
  <2> QED
    BY <2>1, <2>2, <2>3, <2>4, <2>5, <2>6 DEF LifeInductive
<1>5. CASE state' = state /\ phase' = "stopScheduler" /\ \A p \in Connector : state[p] # "up"
  <2>1. LifeTypeOK'
    BY <1>1, <1>2, <1>5 DEF LifeTypeOK, Phase, States, configVars, skillVars
  <2>2. Loaded'
    BY <1>1, <1>2, <1>5, PartsAreThere, GroupsAreApart DEF States, Loaded
  <2>3. Started'
    BY <1>1, <1>2, <1>5, PartsAreThere, GroupsAreApart DEF States, Loaded, Started, configVars
  <2>4. Stopped'
    BY <1>1, <1>2, <1>5, PartsAreThere, GroupsAreApart DEF States, Stopped
  <2>5. Opened'
    BY <1>1, <1>2, <1>5, PartsAreThere, GroupsAreApart DEF States, Opened
  <2>6. Skilled'
    BY <1>1, <1>2, <1>5, DealtStays DEF Skilled, configVars, skillVars
  <2> QED
    BY <2>1, <2>2, <2>3, <2>4, <2>5, <2>6 DEF LifeInductive
<1> QED
  BY <1>3, <1>4, <1>5

LEMMA StopSchedulerFits ==
  ASSUME LifeInductive, StopScheduler
  PROVE  LifeInductive'
<1>1. LifeTypeOK /\ Loaded /\ Started /\ Stopped /\ Opened /\ Skilled
  BY DEF LifeInductive
<1>2. LifeTypeOK'
  BY <1>1, PartsAreSet DEF StopScheduler, Go, LifeTypeOK, Phase, States, configVars, skillVars
<1>3. Loaded'
  BY <1>1, PartsAreSet, PartsAreThere, GroupsAreApart DEF StopScheduler, Go, LifeTypeOK, States, Loaded
<1>4. Started'
  BY <1>1, PartsAreSet, PartsAreThere, GroupsAreApart
     DEF StopScheduler, Go, LifeTypeOK, States, Loaded, Started, configVars
<1>5. Stopped'
  BY <1>1, PartsAreSet, PartsAreThere, GroupsAreApart
     DEF StopScheduler, Go, LifeTypeOK, States, Started, Stopped, configVars
<1>6. Opened'
  BY <1>1, PartsAreSet, PartsAreThere, GroupsAreApart DEF StopScheduler, Go, LifeTypeOK, States, Opened
<1>7. Skilled'
  BY <1>1, DealtStays DEF StopScheduler, Go, Skilled, configVars, skillVars
<1> QED
  BY <1>2, <1>3, <1>4, <1>5, <1>6, <1>7 DEF LifeInductive

LEMMA CloseStoreFits ==
  ASSUME LifeInductive, CloseStore
  PROVE  LifeInductive'
<1>1. LifeTypeOK /\ Loaded /\ Started /\ Stopped /\ Opened /\ Skilled
  BY DEF LifeInductive
<1>2. LifeTypeOK'
  BY <1>1, PartsAreSet DEF CloseStore, Go, LifeTypeOK, Phase, States, configVars, skillVars
<1>3. Loaded'
  BY <1>1, PartsAreSet, PartsAreThere, GroupsAreApart DEF CloseStore, Go, LifeTypeOK, States, Loaded
<1>4. Started'
  BY <1>1, PartsAreSet, PartsAreThere, GroupsAreApart
     DEF CloseStore, Go, LifeTypeOK, States, Loaded, Started, configVars
<1>5. Stopped'
  BY <1>1, PartsAreSet, PartsAreThere, GroupsAreApart
     DEF CloseStore, Go, LifeTypeOK, States, Started, Stopped, configVars
<1>6. Opened'
  BY <1>1, PartsAreSet, PartsAreThere, GroupsAreApart DEF CloseStore, Go, LifeTypeOK, States, Opened
<1>7. Skilled'
  BY <1>1, DealtStays DEF CloseStore, Go, Skilled, configVars, skillVars
<1> QED
  BY <1>2, <1>3, <1>4, <1>5, <1>6, <1>7 DEF LifeInductive

LEMMA LoopEndsFits ==
  ASSUME LifeInductive, NEW p \in Agent \cup {"router"}, LoopEnds(p)
  PROVE  LifeInductive'
<1>1. LifeTypeOK /\ Loaded /\ Started /\ Stopped /\ Opened /\ Skilled
  BY DEF LifeInductive
<1>2. LifeTypeOK'
  BY <1>1, PartsAreSet DEF LoopEnds, LifeTypeOK, Phase, States, configVars, skillVars
<1>3. Loaded'
  BY <1>1, PartsAreSet, PartsAreThere, GroupsAreApart DEF LoopEnds, LifeTypeOK, States, Loaded
<1>4. Started'
  BY <1>1, PartsAreSet, PartsAreThere, GroupsAreApart
     DEF LoopEnds, LifeTypeOK, States, Loaded, Started, configVars
<1>5. Stopped'
  BY <1>1, PartsAreSet, PartsAreThere, GroupsAreApart
     DEF LoopEnds, LifeTypeOK, States, Started, Stopped, configVars
<1>6. Opened'
  BY <1>1, PartsAreSet, PartsAreThere, GroupsAreApart DEF LoopEnds, LifeTypeOK, States, Opened
<1>7. Skilled'
  BY <1>1, DealtStays DEF LoopEnds, Skilled, configVars, skillVars
<1> QED
  BY <1>2, <1>3, <1>4, <1>5, <1>6, <1>7 DEF LifeInductive

\* The skills are dealt out with all connectors there.
LEMMA AssignAgentSkillsFits ==
  ASSUME LifeInductive, assignAgentSkills
  PROVE  LifeInductive'
<1>1. LifeTypeOK /\ Loaded /\ Started /\ Stopped /\ Opened /\ Skilled
  BY DEF LifeInductive
<1>2. phase = "assign" /\ UNCHANGED <<state, interrupted, active, configVars>>
  BY DEF assignAgentSkills, Go, Fail
<1>3. \/ phase' = "startConnectors" /\ given' = Assigned /\ known' = buildAvailableAgentsMap(Assigned)
      \/ phase' = "failed" /\ UNCHANGED skillVars
  BY DEF assignAgentSkills, Go, Fail
<1>13. ASSUME NEW k, NEW c PROVE resolveConnector(k, c) <=> Enabled(k, c)
  <2>1. \A p \in Connector : state[p] # "none"
    BY <1>1, <1>2 DEF Loaded, Connector
  <2> QED
    BY <2>1 DEF resolveConnector, Enabled, registered
<1>4. Assigned = Dealt
  <2>1. \A s \in Specialist : Bound(s) = BoundTo(s)
    BY <1>13 DEF Bound, BoundTo
  <2> DEFINE rest == {k \in Skill \ (Claimed \cup unusable) : resolveConnector(k, None)}
             other == {k \in Skill \ ((UNION {BoundTo(s) : s \in Specialist}) \cup unusable) : Enabled(k, None)}
  <2>2. Claimed = UNION {BoundTo(s) : s \in Specialist}
    BY <2>1 DEF Claimed
  <2>3. rest = other
    <3> DEFINE claimed == UNION {BoundTo(s) : s \in Specialist}
    <3>1. Claimed = claimed
      BY <2>2
    <3> HIDE DEF claimed
    <3>2. {k \in Skill \ (Claimed \cup unusable) : resolveConnector(k, None)}
            = {k \in Skill \ (claimed \cup unusable) : Enabled(k, None)}
      BY <3>1, <1>13
    <3> QED
      BY <3>2 DEF claimed
  <2>4. Assigned = [a \in Agent |-> IF a \in Specialist THEN Bound(a) ELSE IF a = General THEN rest ELSE {}]
    BY DEF Assigned
  <2>5. Dealt = [a \in Agent |-> IF a \in Specialist THEN BoundTo(a) ELSE IF a = General THEN other ELSE {}]
    BY DEF Dealt
  <2> HIDE DEF rest, other
  <2> QED
    BY <2>1, <2>3, <2>4, <2>5
<1>5. Dealt \in [Agent -> SUBSET Skill]
  <2>1. \A s \in Specialist : BoundTo(s) \subseteq Skill
    BY <1>1 DEF BoundTo, LifeTypeOK
  <2> QED
    BY <2>1 DEF Dealt
<1>14. phase' = "startConnectors" => TemplatesFit
  <2>1. phase' = "startConnectors" => validateSkillBindings
    BY DEF assignAgentSkills, Fail, Go
  <2> QED
    BY <2>1 DEF validateSkillBindings, TemplatesFit, registered
<1>6. known' = <<>> \/ known' \in [Agent \ {Executive} -> SUBSET Skill]
  <2>1. CASE known' = buildAvailableAgentsMap(Assigned)
    BY <1>4, <1>5, <2>1 DEF buildAvailableAgentsMap
  <2>2. CASE known' = known
    BY <1>1, <2>2 DEF LifeTypeOK
  <2> QED
    BY <1>3, <2>1, <2>2 DEF skillVars
<1>7. given' \in [Agent -> SUBSET Skill]
  BY <1>1, <1>3, <1>4, <1>5 DEF LifeTypeOK, skillVars
<1>8. LifeTypeOK'
  BY <1>1, <1>2, <1>3, <1>6, <1>7 DEF LifeTypeOK, Phase, configVars
<1>9. Loaded' /\ Opened'
  BY <1>1, <1>2, <1>3 DEF Loaded, Opened
<1>10. Started'
  BY <1>1, <1>2, <1>3 DEF Started, configVars
<1>11. Stopped'
  BY <1>1, <1>2, <1>3 DEF Stopped
<1>12. Skilled'
  <2>1. Dealt' = Dealt /\ TemplatesFit' = TemplatesFit
    BY <1>2, DealtStays DEF configVars
  <2>2. CASE phase' = "startConnectors" /\ given' = Assigned /\ known' = buildAvailableAgentsMap(Assigned)
    BY <1>4, <1>14, <2>1, <2>2 DEF Skilled, buildAvailableAgentsMap
  <2>3. CASE phase' = "failed"
    BY <2>3 DEF Skilled
  <2> QED
    BY <1>3, <2>2, <2>3
<1> QED
  BY <1>8, <1>9, <1>10, <1>11, <1>12 DEF LifeInductive

LEMMA LifeStarts == LifeInit => LifeInductive
<1> SUFFICES ASSUME LifeInit PROVE LifeInductive
  OBVIOUS
<1>1. phase = "new" /\ \A p \in Part : state[p] = "none"
  BY DEF LifeInit
<1>2. LifeTypeOK
  BY DEF LifeInit, LifeTypeOK, Phase
<1>3. Loaded /\ Skilled
  BY <1>1 DEF Loaded, Skilled
<1>4. Started /\ Opened
  BY <1>1, PartsAreThere DEF Started, Opened
<1>5. Stopped
  BY <1>1, PartsAreThere DEF Stopped
<1> QED
  BY <1>2, <1>3, <1>4, <1>5 DEF LifeInductive

LEMMA LifeGoesOn == LifeInductive /\ [LifeNext]_lifeVars => LifeInductive'
<1> SUFFICES ASSUME LifeInductive, [LifeNext]_lifeVars PROVE LifeInductive'
  OBVIOUS
<1>1. CASE UNCHANGED lifeVars
  <2>1. LifeTypeOK' /\ Loaded' /\ Opened'
    BY <1>1 DEF lifeVars, LifeInductive, LifeTypeOK, Loaded, Opened
  <2>2. Started' /\ Stopped'
    BY <1>1 DEF lifeVars, LifeInductive, Started, Stopped
  <2>3. Skilled'
    BY <1>1, DealtStays DEF lifeVars, LifeInductive, Skilled
  <2> QED
    BY <2>1, <2>2, <2>3 DEF LifeInductive
<1>2. CASE LoadAndRun
  BY <1>2, LoadStoreFits, LoadConnectorsFits, LoadChannelsFits, RegisterLocalConnectorsFits,
     AssignAgentSkillsFits, StartConnectorsFits, StartAgentsFits, StartChannelsFits,
     StartSchedulerFits, StartRouterFits, StartServerFits DEF LoadAndRun
<1>3. CASE ShutDown
  BY <1>3, ShutdownFits, StopServerFits, StopChannelsFits, WaitForRouterFits, StopAgentsFits,
     StopConnectorsFits, StopSchedulerFits, CloseStoreFits DEF ShutDown
<1>4. ASSUME NEW p \in Agent \cup {"router"}, LoopEnds(p) PROVE LifeInductive'
  BY <1>4, LoopEndsFits
<1> QED
  BY <1>1, <1>2, <1>3, <1>4, SignalArrivesFits, ServerFailsFits DEF LifeNext

\* Phases and parts are what they should be, whatever is configured.
THEOREM LifeTypeCorrect == LifeSpec => []LifeTypeOK
<1>1. LifeInductive => LifeTypeOK
  BY DEF LifeInductive
<1> QED
  BY <1>1, LifeStarts, LifeGoesOn, PTL DEF LifeSpec

\* Each skill has its holder when the kernel runs, unless it cannot have one.
LEMMA SkillsAreHeld ==
  ASSUME LifeTypeOK, given = Dealt, NEW k \in Skill
  PROVE  LET holders == {a \in Agent : k \in given[a]}
             bound == {s \in Specialist : \E b \in bindings[s] : b.skill = k}
         IN \/ holders \subseteq bound /\ holders # {}
            \/ holders = {General}
            \/ holders = {} /\ (k \in unusable \/ template[k].default \in Disabled)
<1> DEFINE holders == {a \in Agent : k \in given[a]}
           bound == {s \in Specialist : \E b \in bindings[s] : b.skill = k}
           having == {s \in Specialist : k \in BoundTo(s)}
<1>1. /\ Specialist \subseteq Agent /\ General \in Agent /\ General \notin Specialist
      /\ \A a \in Agent : a \in Specialist \/ a = General \/ a = Executive
      /\ Executive \notin Specialist /\ Executive # General
  BY DEF Agent, General, Executive
<1>2. /\ \A s \in Specialist : given[s] = BoundTo(s)
      /\ given[General] = {j \in Skill \ ((UNION {BoundTo(s) : s \in Specialist}) \cup unusable) : Enabled(j, None)}
      /\ given[Executive] = {}
  BY <1>1 DEF Dealt, Agent
<1>3. having \subseteq bound
  BY DEF BoundTo
<1>4. ~Enabled(k, None) => template[k].default \in Disabled
  <2>1. template[k] \in Template
    BY DEF LifeTypeOK
  <2>2. template[k].default \in Named \cup {None}
    BY <2>1
  <2> QED
    BY <2>2 DEF Enabled, Chosen, Named
<1>5. k \in UNION {BoundTo(s) : s \in Specialist} <=> having # {}
  OBVIOUS
<1>6. CASE having # {}
  <2>1. holders = having
    BY <1>1, <1>2, <1>5, <1>6
  <2> QED
    BY <2>1, <1>3, <1>6
<1>7. CASE having = {} /\ k \notin unusable /\ Enabled(k, None)
  <2>1. k \in given[General]
    <3> DEFINE claimed == UNION {BoundTo(s) : s \in Specialist}
    <3>1. k \notin claimed
      BY <1>5, <1>7, Zenon
    <3>2. given[General] = {j \in Skill \ (claimed \cup unusable) : Enabled(j, None)}
      BY <1>2, Zenon
    <3> HIDE DEF claimed
    <3> QED
      BY <3>1, <3>2, <1>7
  <2>2. \A s \in Specialist : k \notin given[s]
    BY <1>2, <1>7
  <2>3. holders = {General}
    BY <1>1, <1>2, <2>1, <2>2
  <2> QED
    BY <2>3
<1>8. CASE having = {} /\ (k \in unusable \/ ~Enabled(k, None))
  BY <1>1, <1>2, <1>4, <1>5, <1>8
<1> QED
  BY <1>6, <1>7, <1>8

\* A specialist has what it is bound to, but for a binding that names a connector
\* nobody enabled for a skill that takes none.
LEMMA BindingsAreKept ==
  ASSUME LifeTypeOK, TemplatesFit, given = Dealt, NEW s \in Specialist, NEW b \in bindings[s]
  PROVE  b.skill \in given[s] \/ (~template[b.skill].spec /\ b.connector \in Disabled)
<1>1. given[s] = BoundTo(s)
  BY DEF Dealt, Agent
<1>2. b \in [skill : Skill, connector : Named \cup {None}] /\ template[b.skill] \in Template
  BY DEF LifeTypeOK
<1>3. CASE Enabled(b.skill, b.connector)
  BY <1>1, <1>3 DEF BoundTo
<1>4. CASE ~Enabled(b.skill, b.connector)
  <2>1. ~template[b.skill].spec
    BY <1>4 DEF TemplatesFit, Enabled
  <2>2. template[b.skill].default = None
    BY <1>2, <2>1
  <2>3. b.connector # None /\ b.connector \notin Connector
    BY <1>4, <2>2 DEF Enabled, Chosen
  <2> QED
    BY <1>2, <2>1, <2>3 DEF Named
<1> QED
  BY <1>3, <1>4

\* The kernel runs only with everything it needs, and takes its parts down in the
\* order in which they need each other, the store last, whatever is configured and
\* whatever fails.
THEOREM LifeStaysInOrder == LifeSpec => []LifeInOrder
<1>1. LifeInductive => RunsWhole
  <2> SUFFICES ASSUME LifeInductive, phase = "running", ~interrupted PROVE RunsWhole
    BY DEF RunsWhole
  <2>1. \A p \in Part : state[p] = "up" \/ (p = "server" /\ headless)
    <3>1. /\ \A p \in Connector : state[p] = "up"
          /\ \A p \in Agent : state[p] = "up"
          /\ \A p \in Channel : state[p] = "up"
          /\ state["scheduler"] = "up" /\ state["router"] = "up"
          /\ state["server"] = "up" \/ headless
      BY DEF LifeInductive, Started
    <3>2. state["store"] = "up"
      BY DEF LifeInductive, Opened
    <3> QED
      BY <3>1, <3>2 DEF Part
  <2>2. given = Dealt /\ known = [a \in Agent \ {Executive} |-> given[a]] /\ TemplatesFit /\ LifeTypeOK
    BY DEF LifeInductive, Skilled
  <2>3. \A a \in Agent \ {Executive} : known[a] = given[a]
    BY <2>2
  <2>4. \A k \in Skill :
          LET holders == {a \in Agent : k \in given[a]}
              bound == {s \in Specialist : \E b \in bindings[s] : b.skill = k}
          IN \/ holders \subseteq bound /\ holders # {}
             \/ holders = {General}
             \/ holders = {} /\ (k \in unusable \/ template[k].default \in Disabled)
    BY <2>2, SkillsAreHeld
  <2>5. \A s \in Specialist : \A b \in bindings[s] :
          b.skill \in given[s] \/ (~template[b.skill].spec /\ b.connector \in Disabled)
    BY <2>2, BindingsAreKept
  <2> QED
    BY <2>1, <2>3, <2>4, <2>5 DEF RunsWhole
<1>2. LifeInductive => StopsInOrder
  <2> SUFFICES ASSUME LifeInductive PROVE StopsInOrder
    OBVIOUS
  <2>1. ASSUME NEW p \in Connector \cup {"scheduler"}, state[p] \in {"down", "left"}
        PROVE  \A q \in Channel \cup Agent \cup {"router", "server"} : state[q] # "up"
    <3>1. phase \in AgentsStopped
      BY <2>1 DEF LifeInductive, Stopped
    <3> QED
      BY <3>1 DEF LifeInductive, Stopped
  <2>2. ASSUME state["store"] = "down", NEW p \in Part PROVE state[p] # "up"
    <3>1. phase = "exited"
      BY <2>2 DEF LifeInductive, Opened
    <3>2. /\ \A q \in Connector \cup Agent \cup Channel : state[q] # "up"
          /\ state["scheduler"] # "up" /\ state["router"] # "up" /\ state["server"] # "up"
      BY <3>1 DEF LifeInductive, Stopped
    <3> QED
      BY <2>2, <3>2 DEF Part
  <2> QED
    BY <2>1, <2>2 DEF StopsInOrder
<1> QED
  BY <1>1, <1>2, LifeStarts, LifeGoesOn, PTL DEF LifeSpec, LifeInOrder
=============================================================================
