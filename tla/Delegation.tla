----------------------------- MODULE Delegation -----------------------------
(***************************************************************************)
(* Agents at work (pkg/agents) and the kernel handlers between them        *)
(* (pkg/kernel): a user's message goes to an agent; the executive may      *)
(* delegate to another agent, or to itself, and wait for the reply.        *)
(*                                                                         *)
(* A request is one AgentExecute event and the goroutine that handles it.  *)
(* Its stage says where it is:                                             *)
(*   bus      on the kernel bus, or with the router                        *)
(*   inbox    in the agent's inbox                                         *)
(*   slot     received by processEvents, which waits for a slot            *)
(*   lock     its goroutine waits for the turn lock of the session         *)
(*   turn     it holds the lock and runs the execution loop                *)
(*   waiting  the same, blocked on the reply to a delegation               *)
(*   result, failed, apology   the turn is over, something is to be sent   *)
(*   over                                                                  *)
(* The LLM decides what a turn does, so anything its tools allow can       *)
(* happen.  Tokens, skills and the history are left out.                   *)
(***************************************************************************)
EXTENDS Naturals, Sequences, FiniteSets

CONSTANTS Request,        \* ids of requests; what bounds the delegations
          Agent,
          Executive,
          Unknown,        \* an id no agent has: the LLM may make one up
          Session,
          NoRequest,
          BusSize,        \* the capacity of the kernel bus
          InboxSize,      \* buffer_size of an agent
          MaxConcurrency  \* max_concurrency of an agent

ASSUME DelegationAssumption ==
  /\ Executive \in Agent
  /\ Unknown \notin Agent
  /\ NoRequest \notin Request
  /\ BusSize \in Nat \ {0}
  /\ InboxSize \in Nat \ {0}
  /\ MaxConcurrency \in Nat

VARIABLES
  req,      \* the payload of each request
  stage,
  bus,      \* k.bus
  evt,      \* the event the router is handling
  inbox,
  expired,  \* the requests whose 5 minutes are over
  awaits,   \* the delegation a waiting request waits for
  reply,    \* what is in the reply channel of a delegation
  replies,  \* how many replies were sent to a delegation
  said      \* how many messages to the user a request has put on the bus

routerVars == <<bus, evt>>
replyVars == <<reply, replies>>
vars == <<req, stage, routerVars, inbox, expired, awaits, replyVars, said>>

Payload == [agent : Agent \cup {Unknown}, session : Session,
            parent : Request \cup {NoRequest}, direct : BOOLEAN]

Event == [type : {"MessageReceived", "AgentDelegate", "OutboundMessage"}, id : Request]
NoEvent == [type |-> "None", id |-> NoRequest]

Stage == {"new", "bus", "inbox", "slot", "lock", "turn", "waiting", "result",
          "failed", "apology", "over"}

TypeOK ==
  /\ req \in [Request -> Payload]
  /\ stage \in [Request -> Stage]
  /\ bus \in Seq(Event)
  /\ evt \in Event \cup {NoEvent}
  /\ inbox \in [Agent -> Seq(Request)]
  /\ expired \in SUBSET Request
  /\ awaits \in [Request -> Request \cup {NoRequest}]
  /\ reply \in [Request -> {"none", "result", "error"}]
  /\ replies \in [Request -> Nat]
  /\ said \in [Request -> Nat]

Init ==
  /\ \E s \in Session :
       req = [r \in Request |-> [agent |-> Executive, session |-> s,
                                 parent |-> NoRequest, direct |-> FALSE]]
  /\ stage = [r \in Request |-> "new"]
  /\ bus = <<>>
  /\ evt = NoEvent
  /\ inbox = [a \in Agent |-> <<>>]
  /\ expired = {}
  /\ awaits = [r \in Request |-> NoRequest]
  /\ reply = [r \in Request |-> "none"]
  /\ replies = [r \in Request |-> 0]
  /\ said = [r \in Request |-> 0]
-----------------------------------------------------------------------------
Full == Len(bus) >= BusSize

Post(type, r) == /\ ~Full
                 /\ bus' = Append(bus, [type |-> type, id |-> r])

Goto(r, there) == stage' = [stage EXCEPT ![r] = there]

At(r, here) == stage[r] = here

\* The request still holds the turn lock of its agent and session.
InTurn(r) == stage[r] \in {"turn", "waiting"}

\* Its goroutine holds one of the agent's slots.
HasSlot(r) == stage[r] \in {"lock", "turn", "waiting", "result", "failed", "apology"}

\* Delegations carry a reply channel; messages of the user do not.
HasReplyTo(r) == req[r].parent # NoRequest

\* Bug: the lock is per agent and request, not per session.
LockAlwaysFree(r) == TRUE

TurnLockFree(r) ==
  \A q \in Request : (req[q].agent = req[r].agent /\ req[q].session = req[r].session)
                       => ~InTurn(q)

\* A send on a reply channel, which holds one event; given up if it is full.
SendReply(r, what) ==
  /\ reply' = [reply EXCEPT ![r] = IF @ = "none" THEN what ELSE @]
  /\ replies' = [replies EXCEPT ![r] = @ + 1]
-----------------------------------------------------------------------------
(* Channels.                                                               *)

\* A user writes in a session, to the executive or, by replying to one of its
\* messages, to another agent, which may be gone.
UserMessage(r) ==
  /\ At(r, "new")
  /\ \E a \in Agent \cup {Unknown}, s \in Session :
       req' = [req EXCEPT ![r] = [agent |-> a, session |-> s,
                                  parent |-> NoRequest, direct |-> FALSE]]
  /\ Post("MessageReceived", r)
  /\ Goto(r, "bus")
  /\ UNCHANGED <<evt, inbox, expired, awaits, replyVars, said>>
-----------------------------------------------------------------------------
(* The router.                                                             *)

Receive ==
  /\ evt = NoEvent
  /\ bus # <<>>
  /\ evt' = Head(bus)
  /\ bus' = Tail(bus)
  /\ UNCHANGED <<req, stage, inbox, expired, awaits, replyVars, said>>

HasRoom(r) == /\ req[r].agent \in Agent
              /\ Len(inbox[req[r].agent]) < InboxSize

\* handleMessageReceived and handleAgentDelegate: into the agent's inbox.
Deliver(r) ==
  /\ evt.type \in {"MessageReceived", "AgentDelegate"} /\ evt.id = r
  /\ HasRoom(r)
  /\ inbox' = [inbox EXCEPT ![req[r].agent] = Append(@, r)]
  /\ Goto(r, "inbox")
  /\ evt' = NoEvent
  /\ UNCHANGED <<req, bus, expired, awaits, replyVars, said>>

\* "agent inbox full - message dropped", after 5 seconds.
DropMessage(r) ==
  /\ evt.type = "MessageReceived" /\ evt.id = r
  /\ ~HasRoom(r)
  /\ Goto(r, "over")
  /\ evt' = NoEvent
  /\ UNCHANGED <<req, bus, inbox, expired, awaits, replyVars, said>>

\* Bug: the delegating agent is not told.
RefuseSilently(r) ==
  /\ evt.type = "AgentDelegate" /\ evt.id = r
  /\ ~HasRoom(r)
  /\ Goto(r, "over")
  /\ evt' = NoEvent
  /\ UNCHANGED <<req, bus, inbox, expired, awaits, replyVars, said>>

\* sendDelegationError: no such agent, or its inbox stays full.
RefuseDelegation(r) ==
  /\ evt.type = "AgentDelegate" /\ evt.id = r
  /\ ~HasRoom(r)
  /\ SendReply(r, "error")
  /\ Goto(r, "over")
  /\ evt' = NoEvent
  /\ UNCHANGED <<req, bus, inbox, expired, awaits, said>>

\* handleOutboundMessage: to the channel of the user.
ShowUser ==
  /\ evt.type = "OutboundMessage"
  /\ evt' = NoEvent
  /\ UNCHANGED <<req, stage, bus, inbox, expired, awaits, replyVars, said>>

Router == \/ Receive
          \/ ShowUser
          \/ \E r \in Request : Deliver(r) \/ DropMessage(r) \/ RefuseDelegation(r)
-----------------------------------------------------------------------------
(* An agent's event loop, processEvents.                                   *)

\* One event at a time: the next one waits until this one has its slot.
Take(a) ==
  /\ inbox[a] # <<>>
  /\ ~\E r \in Request : At(r, "slot") /\ req[r].agent = a
  /\ Goto(Head(inbox[a]), "slot")
  /\ inbox' = [inbox EXCEPT ![a] = Tail(@)]
  /\ UNCHANGED <<req, routerVars, expired, awaits, replyVars, said>>

AcquireSlot(r) ==
  /\ At(r, "slot")
  /\ Cardinality({q \in Request : HasSlot(q) /\ req[q].agent = req[r].agent}) < MaxConcurrency
  /\ Goto(r, "lock")
  /\ UNCHANGED <<req, routerVars, inbox, expired, awaits, replyVars, said>>
-----------------------------------------------------------------------------
(* handleAgentExecute.                                                     *)

\* The request's own 5 minutes pass.  A delegation's started after those of
\* the request that waits for it.
Expire(r) ==
  /\ stage[r] \in {"lock", "turn", "waiting"}
  /\ r \notin expired
  /\ HasReplyTo(r) => \/ req[r].parent \in expired
                      \/ ~InTurn(req[r].parent)
  /\ expired' = expired \cup {r}
  /\ UNCHANGED <<req, stage, routerVars, inbox, awaits, replyVars, said>>

\* lock.Lock() takes no context: an expired request waits on.
LockTurn(r) ==
  /\ At(r, "lock")
  /\ TurnLockFree(r)
  /\ Goto(r, "turn")
  /\ UNCHANGED <<req, routerVars, inbox, expired, awaits, replyVars, said>>

\* requestDelegation: only the executive has the tool.  An expired turn can
\* still get to the next tool call of the same response.
Delegate(r, c) ==
  /\ At(r, "turn") /\ req[r].agent = Executive
  /\ At(c, "new")
  /\ r \notin expired \/ \E q \in Request : req[q].parent = r
  /\ Post("AgentDelegate", c)
  /\ \E a \in Agent \cup {Unknown}, toUser \in BOOLEAN :
       /\ req' = [req EXCEPT ![c] = [agent |-> a, session |-> req[r].session,
                                     parent |-> r, direct |-> toUser]]
       /\ IF toUser
            THEN Goto(c, "bus") /\ UNCHANGED awaits
            ELSE /\ stage' = [stage EXCEPT ![r] = "waiting", ![c] = "bus"]
                 /\ awaits' = [awaits EXCEPT ![r] = c]
  /\ UNCHANGED <<evt, inbox, expired, replyVars, said>>

\* A result or an error: either goes to the LLM.
GetReply(r) ==
  /\ At(r, "waiting")
  /\ reply[awaits[r]] # "none"
  /\ reply' = [reply EXCEPT ![awaits[r]] = "none"]
  /\ awaits' = [awaits EXCEPT ![r] = NoRequest]
  /\ Goto(r, "turn")
  /\ UNCHANGED <<req, routerVars, inbox, expired, replies, said>>

\* Bug: the select has no case for the context.
NeverGiveUp(r) == FALSE /\ UNCHANGED vars

\* ctx.Done: its deadline is earlier than the timer of the wait.
GiveUp(r) ==
  /\ At(r, "waiting")
  /\ r \in expired
  /\ awaits' = [awaits EXCEPT ![r] = NoRequest]
  /\ Goto(r, "turn")
  /\ UNCHANGED <<req, routerVars, inbox, expired, replyVars, said>>

\* A response without tool calls.
EndTurn(r) ==
  /\ At(r, "turn")
  /\ r \notin expired
  /\ Goto(r, "result")
  /\ UNCHANGED <<req, routerVars, inbox, expired, awaits, replyVars, said>>

\* The LLM call fails, or the loop finds its context done.
FailTurn(r) ==
  /\ At(r, "turn")
  /\ Goto(r, "failed")
  /\ UNCHANGED <<req, routerVars, inbox, expired, awaits, replyVars, said>>

\* sendOutboundMessage: given up when the bus stays full for 5 seconds.
TellUser(r) ==
  IF Full THEN UNCHANGED <<bus, said>>
          ELSE /\ Post("OutboundMessage", r)
               /\ said' = [said EXCEPT ![r] = @ + 1]

\* routeResponse.
RouteResponse(r) ==
  /\ At(r, "result")
  /\ IF HasReplyTo(r) /\ ~req[r].direct
       THEN SendReply(r, "result") /\ UNCHANGED <<bus, said>>
       ELSE TellUser(r) /\ UNCHANGED replyVars
  /\ Goto(r, "over")
  /\ UNCHANGED <<req, evt, inbox, expired, awaits>>

\* sendError: first whoever delegated ...
ReplyError(r) ==
  /\ At(r, "failed")
  /\ IF HasReplyTo(r) THEN SendReply(r, "error") ELSE UNCHANGED replyVars
  /\ Goto(r, "apology")
  /\ UNCHANGED <<req, routerVars, inbox, expired, awaits, said>>

\* Bug: only whoever delegated is told.
NoApology(r) ==
  /\ At(r, "apology")
  /\ Goto(r, "over")
  /\ UNCHANGED <<req, routerVars, inbox, expired, awaits, replyVars, said>>

\* Bug: handleAgentExecute goes on after the error, to the response.
ApologiseAndGoOn(r) ==
  /\ At(r, "apology")
  /\ TellUser(r)
  /\ Goto(r, "result")
  /\ UNCHANGED <<req, evt, inbox, expired, awaits, replyVars>>

\* ... then the user.
Apologise(r) ==
  /\ At(r, "apology")
  /\ TellUser(r)
  /\ Goto(r, "over")
  /\ UNCHANGED <<req, evt, inbox, expired, awaits, replyVars>>

Run(r) == \/ AcquireSlot(r) \/ LockTurn(r) \/ Expire(r)
          \/ \E c \in Request : Delegate(r, c)
          \/ GetReply(r) \/ GiveUp(r)
          \/ EndTurn(r) \/ FailTurn(r)
          \/ RouteResponse(r) \/ ReplyError(r) \/ Apologise(r)
-----------------------------------------------------------------------------
Next == \/ \E r \in Request : UserMessage(r) \/ Run(r)
        \/ Router
        \/ \E a \in Agent : Take(a)

Spec == Init /\ [][Next]_vars

\* The router and the agents' loops run; time passes for every request, and
\* an LLM call or a wait ends with its context at the latest.
FairSpec == /\ Spec
            /\ WF_vars(Router)
            /\ \A a \in Agent : WF_vars(Take(a))
            /\ \A r \in Request : WF_vars(Run(r))
-----------------------------------------------------------------------------
(* Properties.                                                             *)

\* One turn at a time in a session of an agent: the history of the session is
\* read and written by one loop only.
TurnsAreSerial ==
  \A q, r \in Request :
    (InTurn(q) /\ InTurn(r) /\ req[q].agent = req[r].agent /\ req[q].session = req[r].session)
      => q = r

\* A reply channel has room for one event and gets no more than one, whoever
\* sends it: no sender blocks on a channel nobody reads any more.
OneReply == \A r \in Request : replies[r] <= 1

\* Who waits does not wait in vain: the reply is there, or somebody who will
\* send it has the request.
ReplyIsComing ==
  \A r \in Request :
    At(r, "waiting") => \/ reply[awaits[r]] # "none"
                        \/ stage[awaits[r]] \notin {"new", "apology", "over"}

\* Every request ends, a delegation of the executive to itself included.
RequestsEnd == \A r \in Request : At(r, "bus") ~> At(r, "over")

\* "Don't leave user hanging": on a bus with room, the user hears of every
\* message that an agent received.
UserHears == \A r \in Request :
               (At(r, "inbox") /\ ~HasReplyTo(r)) ~> said[r] > 0
==============================================================================
