------------------------------ MODULE Sessions ------------------------------
(***************************************************************************)
(* The conversations of the kernel: the session handlers of the router     *)
(* (pkg/kernel/handlers_sessions.go) over the conversation manager and the *)
(* conversations table, and the requests the channels put on the event     *)
(* bus.  A conversation is a row, its id the row's number; 0 is the empty  *)
(* id.  Web tabs and Telegram handlers are the requesters.                 *)
(*                                                                         *)
(* The router takes one event at a time.  The HTTP API ends conversations  *)
(* past it.  Any access to the store may fail.                             *)
(***************************************************************************)
EXTENDS Integers, Sequences, FiniteSets

CONSTANTS Requester,
          Nobody,            \* not a requester: no reply is wanted
          MaxConversations,  \* bound: rows
          BusSize            \* capacity of the event bus

ASSUME SessionsAssumption ==
  /\ Nobody \notin Requester
  /\ MaxConversations \in Nat
  /\ BusSize \in Nat

VARIABLES
  conversations,  \* the rows: channel, agent and whether they are ended
  bus,            \* session requests and messages, in order
  replies,        \* each requester's reply channel: an id, or NoReply
  storeFailed     \* history: an access to the store failed

sessionVars == <<conversations, bus, replies, storeFailed>>

NoReply == -1
Id == 0 .. MaxConversations
ChannelName == {"onlyagents", "oaChannel", "telegram"}
EventType == {"new", "ensure", "end", "message"}

SessionTypeOK ==
  /\ \A i \in DOMAIN conversations :
       conversations[i] \in [channel : ChannelName, agent : {"", "executive"}, ended : BOOLEAN]
  /\ \A i \in DOMAIN bus :
       bus[i] \in [type : EventType, channel : ChannelName, agent : {"", "executive"},
                   session : Id, from : Requester \cup {Nobody}]
  /\ Len(bus) <= BusSize
  /\ replies \in [Requester -> Id \cup {NoReply}]
  /\ storeFailed \in BOOLEAN

SessionInit ==
  /\ conversations = <<>>
  /\ bus = <<>>
  /\ replies = [r \in Requester |-> NoReply]
  /\ storeFailed = FALSE

Event(type, channel, agent, session, from) ==
  [type |-> type, channel |-> channel, agent |-> agent, session |-> session, from |-> from]

\* A send on the bus blocks while it is full.
Publish(event) ==
  /\ Len(bus) < BusSize
  /\ bus' = Append(bus, event)

\* A requester that leaves: its reply goes to a channel nobody reads.
Abandon(r) ==
  /\ bus' = [i \in DOMAIN bus |-> IF bus[i].from = r THEN [bus[i] EXCEPT !.from = Nobody] ELSE bus[i]]
  /\ replies' = [replies EXCEPT ![r] = NoReply]
-----------------------------------------------------------------------------
\* An empty agent matches the conversations of all; which of several is the
\* active one is open.
GetActiveConversationByChannel(channel, agent) ==
  {i \in DOMAIN conversations :
     /\ conversations[i].channel = channel
     /\ agent # "" => conversations[i].agent = agent
     /\ ~conversations[i].ended}

EndConversation(rows, id) ==
  [i \in DOMAIN rows |-> IF i = id THEN [rows[i] EXCEPT !.ended = TRUE] ELSE rows[i]]

CreateConversation(rows, channel, agent) ==
  Append(rows, [channel |-> channel, agent |-> agent, ended |-> FALSE])

Take(type) ==
  /\ bus # <<>>
  /\ Head(bus).type = type
  /\ bus' = Tail(bus)

Reply(id) ==
  replies' = IF Head(bus).from = Nobody THEN replies ELSE [replies EXCEPT ![Head(bus).from] = id]

Failing(failed) == storeFailed' = (storeFailed \/ failed)

\* NewSession: the id is the caller's only if the row was stored.
NewSession(rows, e, stored) ==
  /\ stored => Len(rows) < MaxConversations
  /\ conversations' = IF stored THEN CreateConversation(rows, e.channel, e.agent) ELSE rows
  /\ Reply(IF stored THEN Len(rows) + 1 ELSE 0)

\* Bug: the conversation that is there stays active.
NewBesideTheOld ==
  /\ Take("new")
  /\ \E stored \in BOOLEAN : NewSession(conversations, Head(bus), stored) /\ Failing(~stored)

\* One active conversation is looked up and ended; if either fails the new one is
\* made beside it.
handleSessionNew ==
  /\ Take("new")
  /\ LET e == Head(bus)
         active == GetActiveConversationByChannel(e.channel, e.agent)
     IN \E stored \in BOOLEAN :
          \/ \E old \in active :
               /\ NewSession(EndConversation(conversations, old), e, stored)
               /\ Failing(~stored)
          \/ /\ NewSession(conversations, e, stored)
             /\ Failing(~stored \/ active # {})

\* A failed lookup counts as no conversation.
handleSessionEnsure ==
  /\ Take("ensure")
  /\ LET e == Head(bus)
         active == GetActiveConversationByChannel(e.channel, e.agent)
     IN \/ \E id \in active : Reply(id) /\ UNCHANGED <<conversations, storeFailed>>
        \/ \E stored \in BOOLEAN :
             NewSession(conversations, e, stored) /\ Failing(~stored \/ active # {})

handleSessionEnd ==
  /\ Take("end")
  /\ \/ conversations' = EndConversation(conversations, Head(bus).session) /\ UNCHANGED storeFailed
     \/ UNCHANGED conversations /\ storeFailed' = TRUE
  /\ UNCHANGED replies

\* A panic while routing a request is answered with an error, which the requesters
\* read as the empty id.  The handlers panic on a payload of another type only,
\* and none is sent, so this is not an action.

\* DELETE /v1/sessions/{id}
EndByAPI ==
  /\ \E id \in DOMAIN conversations : conversations' = EndConversation(conversations, id)
  /\ UNCHANGED <<bus, replies, storeFailed>>

RouteSession == handleSessionNew \/ handleSessionEnsure \/ handleSessionEnd
-----------------------------------------------------------------------------
\* While the store works, a channel has at most one active conversation of an
\* agent, however requests from several tabs and handlers are interleaved.
OneActive ==
  storeFailed \/ \A channel \in ChannelName :
    Cardinality(GetActiveConversationByChannel(channel, "executive")) <= 1
==============================================================================
