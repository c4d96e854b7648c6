-------------------------- MODULE DelegationProofs --------------------------
(***************************************************************************)
(* What holds of delegation for all sets of requests, agents and sessions, *)
(* and all sizes of the bus, the inboxes and the pools of slots.           *)
(***************************************************************************)
EXTENDS DelegationInvariant, TLAPS

USE DelegationAssumption

\* An event that carries a request names it.
LEMMA EventIds ==
  ASSUME NEW e \in Event \cup {NoEvent}, e.type \in Carriers
  PROVE  e.id \in Request
BY DEF Event, NoEvent, Carriers

\* A sequence after its head has been taken: all moved up one place.
LEMMA TailOfSeq ==
  ASSUME NEW S, NEW s \in Seq(S), s # <<>>
  PROVE  /\ Head(s) \in S
         /\ Head(s) = s[1]
         /\ Tail(s) \in Seq(S)
         /\ Len(s) \in Nat \ {0}
         /\ Len(Tail(s)) = Len(s) - 1
         /\ \A i \in 1..Len(Tail(s)) : Tail(s)[i] = s[i + 1]
OBVIOUS

\* A sequence after a send: one element more, at the end.
LEMMA AppendToSeq ==
  ASSUME NEW S, NEW s \in Seq(S), NEW e \in S
  PROVE  /\ Append(s, e) \in Seq(S)
         /\ Len(s) \in Nat
         /\ Len(Append(s, e)) = Len(s) + 1
         /\ \A i \in 1..Len(s) : Append(s, e)[i] = s[i]
         /\ Append(s, e)[Len(s) + 1] = e
OBVIOUS

LEMMA ElementOfSeq ==
  ASSUME NEW S, NEW s \in Seq(S), NEW i \in 1..Len(s)
  PROVE  s[i] \in S
OBVIOUS

\* The cases of a step, once for all the proofs that go through them.
LEMMA Steps ==
  ASSUME Next
  PROVE  \/ \E r \in Request :
              \/ UserMessage(r) \/ Deliver(r) \/ DropMessage(r) \/ RefuseDelegation(r)
              \/ AcquireSlot(r) \/ Expire(r) \/ LockTurn(r) \/ GetReply(r) \/ GiveUp(r)
              \/ EndTurn(r) \/ FailTurn(r) \/ RouteResponse(r) \/ ReplyError(r)
              \/ Apologise(r)
              \/ \E c \in Request : Delegate(r, c)
         \/ Receive \/ ShowUser
         \/ \E a \in Agent : Take(a)
BY DEF Next, Run, Router
-----------------------------------------------------------------------------
\* Every variable keeps its type.
LEMMA TypeInit == Init => TypeOK
BY DEF Init, TypeOK, Payload, Stage, NoEvent

\* What a delegation changes, as a handoff and as a wait.
LEMMA DelegateCases ==
  ASSUME NEW r \in Request, NEW c \in Request, Delegate(r, c)
  PROVE  \E a \in Agent \cup {Unknown}, toUser \in BOOLEAN :
           /\ req' = [req EXCEPT ![c] = [agent |-> a, session |-> req[r].session,
                                         parent |-> r, direct |-> toUser]]
           /\ \/ /\ toUser
                 /\ stage' = [stage EXCEPT ![c] = "bus"]
                 /\ awaits' = awaits
              \/ /\ ~toUser
                 /\ stage' = [stage EXCEPT ![r] = "waiting", ![c] = "bus"]
                 /\ awaits' = [awaits EXCEPT ![r] = c]
BY DEF Delegate, Goto

\* Sends on a reply channel and to the user keep the types.
LEMMA SendReplyTypes ==
  ASSUME TypeOK, NEW r \in Request, NEW what \in {"result", "error"},
         SendReply(r, what) \/ UNCHANGED replyVars
  PROVE  /\ reply' \in [Request -> {"none", "result", "error"}]
         /\ replies' \in [Request -> Nat]
<1>1. CASE SendReply(r, what)
  <2>1. reply' \in [Request -> {"none", "result", "error"}]
    BY <1>1 DEF SendReply, TypeOK
  <2>2. replies' \in [Request -> Nat]
    BY <1>1 DEF SendReply, TypeOK
  <2> QED
    BY <2>1, <2>2
<1>2. CASE UNCHANGED replyVars
  BY <1>2 DEF replyVars, TypeOK
<1> QED
  BY <1>1, <1>2

LEMMA TellUserTypes ==
  ASSUME TypeOK, NEW r \in Request, TellUser(r) \/ UNCHANGED <<bus, said>>
  PROVE  bus' \in Seq(Event) /\ said' \in [Request -> Nat]
<1>1. [type |-> "OutboundMessage", id |-> r] \in Event
  BY DEF Event
<1>2. CASE UNCHANGED <<bus, said>>
  BY <1>2 DEF TypeOK
<1>3. CASE TellUser(r) /\ ~Full
  <2>1. bus' = Append(bus, [type |-> "OutboundMessage", id |-> r])
    BY <1>3 DEF TellUser, Post
  <2>2. said' \in [Request -> Nat]
    BY <1>3 DEF TellUser, TypeOK
  <2> QED
    BY <1>1, <2>1, <2>2, AppendToSeq DEF TypeOK
<1>4. CASE TellUser(r) /\ Full
  BY <1>4 DEF TellUser, TypeOK
<1> QED
  BY <1>2, <1>3, <1>4

LEMMA TypeNext == TypeOK /\ [Next]_vars => TypeOK'
<1> SUFFICES ASSUME TypeOK, [Next]_vars PROVE TypeOK'
  OBVIOUS
<1> USE DEF TypeOK, routerVars, replyVars, Goto, At, Stage
<1>0. \A r \in Request, type \in {"MessageReceived", "AgentDelegate", "OutboundMessage"} :
        [type |-> type, id |-> r] \in Event
  BY DEF Event
<1>1. ASSUME NEW r \in Request, UserMessage(r) PROVE TypeOK'
  <2>1. bus' \in Seq(Event)
    BY <1>0, <1>1, AppendToSeq DEF UserMessage, Post
  <2>2. req' \in [Request -> Payload]
    BY <1>1 DEF UserMessage, Payload
  <2> QED
    BY <1>1, <2>1, <2>2 DEF UserMessage
<1>2. ASSUME NEW r \in Request, Deliver(r) PROVE TypeOK'
  <2>1. inbox' \in [Agent -> Seq(Request)]
    BY <1>2, AppendToSeq DEF Deliver, HasRoom
  <2> QED
    BY <1>2, <2>1 DEF Deliver
<1>3. ASSUME NEW r \in Request, DropMessage(r) PROVE TypeOK'
  BY <1>3 DEF DropMessage
<1>4. ASSUME NEW r \in Request, RefuseDelegation(r) PROVE TypeOK'
  BY <1>4 DEF RefuseDelegation, SendReply
<1>5. ASSUME NEW r \in Request, AcquireSlot(r) PROVE TypeOK'
  BY <1>5 DEF AcquireSlot
<1>6. ASSUME NEW r \in Request, Expire(r) PROVE TypeOK'
  BY <1>6 DEF Expire
<1>7. ASSUME NEW r \in Request, LockTurn(r) PROVE TypeOK'
  BY <1>7 DEF LockTurn
<1>8. ASSUME NEW r \in Request, GetReply(r) PROVE TypeOK'
  BY <1>8 DEF GetReply
<1>9. ASSUME NEW r \in Request, GiveUp(r) PROVE TypeOK'
  BY <1>9 DEF GiveUp
<1>10. ASSUME NEW r \in Request, EndTurn(r) \/ FailTurn(r) PROVE TypeOK'
  BY <1>10 DEF EndTurn, FailTurn
<1>11. ASSUME NEW r \in Request, RouteResponse(r) PROVE TypeOK'
  <2>1. SendReply(r, "result") \/ UNCHANGED replyVars
    BY <1>11 DEF RouteResponse
  <2>2. TellUser(r) \/ UNCHANGED <<bus, said>>
    BY <1>11 DEF RouteResponse
  <2>3. stage' \in [Request -> Stage]
    BY <1>11 DEF RouteResponse
  <2>4. UNCHANGED <<req, evt, inbox, expired, awaits>>
    BY <1>11 DEF RouteResponse
  <2> QED
    BY <2>1, <2>2, <2>3, <2>4, SendReplyTypes, TellUserTypes
<1>12. ASSUME NEW r \in Request, ReplyError(r) PROVE TypeOK'
  <2>1. SendReply(r, "error") \/ UNCHANGED replyVars
    BY <1>12 DEF ReplyError
  <2>2. stage' \in [Request -> Stage]
    BY <1>12 DEF ReplyError
  <2>3. UNCHANGED <<req, routerVars, inbox, expired, awaits, said>>
    BY <1>12 DEF ReplyError
  <2> QED
    BY <2>1, <2>2, <2>3, SendReplyTypes
<1>13. ASSUME NEW r \in Request, Apologise(r) PROVE TypeOK'
  <2>1. stage' \in [Request -> Stage]
    BY <1>13 DEF Apologise
  <2>2. TellUser(r) /\ UNCHANGED <<req, evt, inbox, expired, awaits, replyVars>>
    BY <1>13 DEF Apologise
  <2> QED
    BY <2>1, <2>2, TellUserTypes
<1>14. ASSUME NEW r \in Request, NEW c \in Request, Delegate(r, c) PROVE TypeOK'
  <2>1. bus' \in Seq(Event)
    BY <1>0, <1>14, AppendToSeq DEF Delegate, Post
  <2>2. PICK a \in Agent \cup {Unknown}, toUser \in BOOLEAN :
           /\ req' = [req EXCEPT ![c] = [agent |-> a, session |-> req[r].session,
                                         parent |-> r, direct |-> toUser]]
           /\ \/ /\ stage' = [stage EXCEPT ![c] = "bus"]
                 /\ awaits' = awaits
              \/ /\ stage' = [stage EXCEPT ![r] = "waiting", ![c] = "bus"]
                 /\ awaits' = [awaits EXCEPT ![r] = c]
    BY <1>14, DelegateCases
  <2>3. req' \in [Request -> Payload]
    BY <2>2 DEF Payload
  <2>4. awaits' \in [Request -> Request \cup {NoRequest}]
    <3>1. awaits \in [Request -> Request \cup {NoRequest}]
      BY DEF TypeOK
    <3>2. CASE awaits' = awaits
      BY <3>1, <3>2
    <3>3. CASE awaits' = [awaits EXCEPT ![r] = c]
      BY <3>1, <3>3
    <3> QED
      BY <2>2, <3>2, <3>3
  <2>5. stage' \in [Request -> Stage]
    BY <2>2
  <2>6. UNCHANGED <<evt, inbox, expired, replyVars, said>>
    BY <1>14 DEF Delegate
  <2> QED
    BY <2>1, <2>3, <2>4, <2>5, <2>6
<1>15. CASE Receive
  BY <1>15, TailOfSeq DEF Receive
<1>16. CASE ShowUser
  BY <1>16 DEF ShowUser
<1>17. ASSUME NEW a \in Agent, Take(a) PROVE TypeOK'
  <2>1. Head(inbox[a]) \in Request /\ Tail(inbox[a]) \in Seq(Request)
    BY <1>17, TailOfSeq DEF Take
  <2> QED
    BY <1>17, <2>1 DEF Take
<1>18. CASE UNCHANGED vars
  BY <1>18 DEF vars
<1> QED
  BY <1>1, <1>2, <1>3, <1>4, <1>5, <1>6, <1>7, <1>8, <1>9, <1>10, <1>11, <1>12, <1>13,
     <1>14, <1>15, <1>16, <1>17, <1>18, Steps

\* Every variable of the delegation protocol keeps its type.
THEOREM TypeCorrect == Spec => []TypeOK
BY TypeInit, TypeNext, PTL DEF Spec
-----------------------------------------------------------------------------
\* Only a free lock is taken, and who holds it does not change his name.
LEMMA SerialNext ==
  ASSUME TypeOK, TurnsAreSerial, [Next]_vars
  PROVE  TurnsAreSerial'
<1> DEFINE HoldsStill ==
      \A x \in Request : stage'[x] \in {"turn", "waiting"} =>
        /\ stage[x] \in {"turn", "waiting"}
        /\ req'[x] = req[x]
<1>0. ASSUME HoldsStill PROVE TurnsAreSerial'
  BY <1>0 DEF TurnsAreSerial, InTurn
<1> USE DEF TypeOK, Goto, At
<1>1. ASSUME NEW r \in Request, UserMessage(r) PROVE HoldsStill
  BY <1>1 DEF UserMessage
<1>2. ASSUME NEW r \in Request, Deliver(r) \/ DropMessage(r) \/ RefuseDelegation(r)
      PROVE HoldsStill
  BY <1>2 DEF Deliver, DropMessage, RefuseDelegation
<1>3. ASSUME NEW r \in Request, AcquireSlot(r) \/ Expire(r) PROVE HoldsStill
  BY <1>3 DEF AcquireSlot, Expire
<1>4. ASSUME NEW r \in Request, LockTurn(r) PROVE TurnsAreSerial'
  <2>1. req' = req /\ stage' = [stage EXCEPT ![r] = "turn"]
    BY <1>4 DEF LockTurn
  <2>2. \A q \in Request : (req[q].agent = req[r].agent /\ req[q].session = req[r].session)
                              => stage[q] \notin {"turn", "waiting"}
    BY <1>4 DEF LockTurn, TurnLockFree, InTurn
  <2> QED
    BY <2>1, <2>2 DEF TurnsAreSerial, InTurn
<1>5. ASSUME NEW r \in Request, GetReply(r) \/ GiveUp(r) PROVE HoldsStill
  BY <1>5 DEF GetReply, GiveUp
<1>6. ASSUME NEW r \in Request, EndTurn(r) \/ FailTurn(r) PROVE HoldsStill
  BY <1>6 DEF EndTurn, FailTurn
<1>7. ASSUME NEW r \in Request, RouteResponse(r) \/ ReplyError(r) \/ Apologise(r)
      PROVE HoldsStill
  <2>1. req' = req /\ \E x \in {"apology", "over"} : stage' = [stage EXCEPT ![r] = x]
    BY <1>7 DEF RouteResponse, ReplyError, Apologise
  <2> QED
    BY <2>1
<1>8. ASSUME NEW r \in Request, NEW c \in Request, Delegate(r, c) PROVE HoldsStill
  <2>1. stage[r] = "turn" /\ stage[c] = "new"
    BY <1>8 DEF Delegate
  <2>2. \/ stage' = [stage EXCEPT ![c] = "bus"]
        \/ stage' = [stage EXCEPT ![r] = "waiting", ![c] = "bus"]
    BY <1>8, DelegateCases
  <2>3. \A x \in Request \ {c} : req'[x] = req[x]
    BY <1>8, DelegateCases
  <2> QED
    BY <2>1, <2>2, <2>3
<1>9. ASSUME Receive \/ ShowUser PROVE HoldsStill
  BY <1>9 DEF Receive, ShowUser
<1>10. ASSUME NEW a \in Agent, Take(a) PROVE HoldsStill
  <2>1. req' = req /\ stage' = [stage EXCEPT ![Head(inbox[a])] = "slot"]
    BY <1>10 DEF Take
  <2> QED
    BY <2>1
<1>11. ASSUME UNCHANGED vars PROVE HoldsStill
  BY <1>11 DEF vars
<1> HIDE DEF HoldsStill
<1> QED
  BY <1>0, <1>1, <1>2, <1>3, <1>4, <1>5, <1>6, <1>7, <1>8, <1>9, <1>10, <1>11, Steps

\* In every session of every agent one execution loop runs at a time: the lock
\* of turnLockFor does what it is for.
THEOREM SerialTurns == Spec => []TurnsAreSerial
<1>1. Init => TypeOK /\ TurnsAreSerial
  BY TypeInit DEF Init, TurnsAreSerial, InTurn
<1>2. TypeOK /\ TurnsAreSerial /\ [Next]_vars => (TypeOK /\ TurnsAreSerial)'
  BY TypeNext, SerialNext
<1> QED
  BY <1>1, <1>2, PTL DEF Spec
-----------------------------------------------------------------------------
\* Who waits, waits for a delegation of its own, and an event that says it is
\* a message of the user is not about a delegation.
LEMMA WaitsNext ==
  ASSUME TypeOK, CarriersAreTrue, WaitsForItsOwn, [Next]_vars
  PROVE  WaitsForItsOwn'
<1> USE DEF TypeOK, Goto, At, HasReplyTo
<1> DEFINE Ends == {"apology", "over"}
<1>0. ASSUME UNCHANGED <<req, awaits, reply>>,
             \A x \in Request :
               /\ stage'[x] = "waiting" => stage[x] = "waiting"
               /\ stage'[x] = "new" => stage[x] = "new"
               /\ stage'[x] \in Ends /\ stage[x] \notin Ends =>
                    req[x].parent = NoRequest \/ req[x].direct
      PROVE  WaitsForItsOwn'
  <2>1. SUFFICES ASSUME NEW r \in Request, stage'[r] = "waiting"
        PROVE  /\ awaits[r] \in Request
               /\ req[awaits[r]].parent = r
               /\ ~req[awaits[r]].direct
               /\ stage'[awaits[r]] # "new"
               /\ stage'[awaits[r]] \in Ends => reply[awaits[r]] # "none"
    BY <1>0 DEF WaitsForItsOwn
  <2>2. stage[r] = "waiting"
    BY <1>0, <2>1
  <2>3. /\ awaits[r] \in Request
        /\ req[awaits[r]].parent = r
        /\ ~req[awaits[r]].direct
        /\ stage[awaits[r]] # "new"
        /\ stage[awaits[r]] \in Ends => reply[awaits[r]] # "none"
    BY <2>2 DEF WaitsForItsOwn
  <2>4. stage'[awaits[r]] \in Ends => stage[awaits[r]] \in Ends
    BY <1>0, <2>3
  <2> QED
    BY <1>0, <2>3, <2>4
<1>1. ASSUME NEW r \in Request, UserMessage(r) PROVE WaitsForItsOwn'
  <2>1. /\ stage[r] = "new" /\ stage' = [stage EXCEPT ![r] = "bus"]
        /\ UNCHANGED <<awaits, reply>>
        /\ \A x \in Request \ {r} : req'[x] = req[x]
    BY <1>1 DEF UserMessage, replyVars
  <2> QED
    BY <2>1 DEF WaitsForItsOwn
<1>2. ASSUME NEW r \in Request, Deliver(r) PROVE WaitsForItsOwn'
  BY <1>0, <1>2 DEF Deliver, replyVars
<1>3. ASSUME NEW r \in Request, DropMessage(r) PROVE WaitsForItsOwn'
  <2>1. req[r].parent = NoRequest
    BY <1>3 DEF DropMessage, CarriersAreTrue, Carriers
  <2> QED
    BY <1>0, <1>3, <2>1 DEF DropMessage, replyVars
<1>4. ASSUME NEW r \in Request, NEW what \in {"result", "error"}, NEW x \in Ends,
             SendReply(r, what), stage' = [stage EXCEPT ![r] = x],
             UNCHANGED <<req, awaits>>
      PROVE  WaitsForItsOwn'
  <2>1. reply'[r] # "none" /\ \A q \in Request \ {r} : reply'[q] = reply[q]
    BY <1>4 DEF SendReply
  <2> QED
    BY <1>4, <2>1 DEF WaitsForItsOwn
<1>5. ASSUME NEW r \in Request, RefuseDelegation(r) PROVE WaitsForItsOwn'
  BY <1>4, <1>5 DEF RefuseDelegation
<1>6. ASSUME NEW r \in Request, AcquireSlot(r) \/ Expire(r) \/ LockTurn(r)
      PROVE WaitsForItsOwn'
  BY <1>0, <1>6 DEF AcquireSlot, Expire, LockTurn, replyVars
<1>7. ASSUME NEW r \in Request, GetReply(r) PROVE WaitsForItsOwn'
  <2>1. /\ stage[r] = "waiting" /\ stage' = [stage EXCEPT ![r] = "turn"]
        /\ reply' = [reply EXCEPT ![awaits[r]] = "none"]
        /\ awaits' = [awaits EXCEPT ![r] = NoRequest]
        /\ req' = req
    BY <1>7 DEF GetReply
  <2>2. req[awaits[r]].parent = r
    BY <2>1 DEF WaitsForItsOwn
  <2> QED
    BY <2>1, <2>2 DEF WaitsForItsOwn
<1>8. ASSUME NEW r \in Request, GiveUp(r) PROVE WaitsForItsOwn'
  BY <1>8 DEF GiveUp, WaitsForItsOwn, replyVars
<1>9. ASSUME NEW r \in Request, EndTurn(r) \/ FailTurn(r) PROVE WaitsForItsOwn'
  BY <1>0, <1>9 DEF EndTurn, FailTurn, replyVars
<1>10. ASSUME NEW r \in Request, RouteResponse(r) PROVE WaitsForItsOwn'
  <2>1. stage' = [stage EXCEPT ![r] = "over"] /\ UNCHANGED <<req, awaits>>
    BY <1>10 DEF RouteResponse
  <2>2. CASE HasReplyTo(r) /\ ~req[r].direct
    <3>1. SendReply(r, "result")
      BY <1>10, <2>2 DEF RouteResponse
    <3> QED
      BY <1>4, <2>1, <3>1
  <2>3. CASE ~(HasReplyTo(r) /\ ~req[r].direct)
    <3>1. reply' = reply
      BY <1>10, <2>3 DEF RouteResponse, replyVars
    <3> QED
      BY <1>0, <2>1, <2>3, <3>1
  <2> QED
    BY <2>2, <2>3
<1>11. ASSUME NEW r \in Request, ReplyError(r) PROVE WaitsForItsOwn'
  <2>1. stage' = [stage EXCEPT ![r] = "apology"] /\ UNCHANGED <<req, awaits>>
    BY <1>11 DEF ReplyError
  <2>2. CASE HasReplyTo(r)
    <3>1. SendReply(r, "error")
      BY <1>11, <2>2 DEF ReplyError
    <3> QED
      BY <1>4, <2>1, <3>1
  <2>3. CASE ~HasReplyTo(r)
    <3>1. reply' = reply
      BY <1>11, <2>3 DEF ReplyError, replyVars
    <3> QED
      BY <1>0, <2>1, <2>3, <3>1
  <2> QED
    BY <2>2, <2>3
<1>12. ASSUME NEW r \in Request, Apologise(r) PROVE WaitsForItsOwn'
  <2>1. /\ stage[r] = "apology" /\ stage' = [stage EXCEPT ![r] = "over"]
        /\ UNCHANGED <<req, awaits, reply>>
    BY <1>12 DEF Apologise, replyVars
  <2> QED
    BY <1>0, <2>1
<1>13. ASSUME NEW r \in Request, NEW c \in Request, Delegate(r, c) PROVE WaitsForItsOwn'
  <2>1. stage[r] = "turn" /\ stage[c] = "new" /\ reply' = reply
    BY <1>13 DEF Delegate, replyVars
  <2>2. PICK a \in Agent \cup {Unknown}, toUser \in BOOLEAN :
           /\ req' = [req EXCEPT ![c] = [agent |-> a, session |-> req[r].session,
                                         parent |-> r, direct |-> toUser]]
           /\ \/ /\ stage' = [stage EXCEPT ![c] = "bus"]
                 /\ awaits' = awaits
              \/ /\ ~toUser
                 /\ stage' = [stage EXCEPT ![r] = "waiting", ![c] = "bus"]
                 /\ awaits' = [awaits EXCEPT ![r] = c]
    BY <1>13, DelegateCases
  <2>3. SUFFICES ASSUME NEW q \in Request, stage'[q] = "waiting"
        PROVE  /\ awaits'[q] \in Request
               /\ req'[awaits'[q]].parent = q
               /\ ~req'[awaits'[q]].direct
               /\ stage'[awaits'[q]] # "new"
               /\ stage'[awaits'[q]] \in Ends => reply'[awaits'[q]] # "none"
    BY DEF WaitsForItsOwn
  <2>4. CASE stage[q] = "waiting"
    <3>1. /\ awaits[q] \in Request
          /\ req[awaits[q]].parent = q
          /\ ~req[awaits[q]].direct
          /\ stage[awaits[q]] # "new"
          /\ stage[awaits[q]] \in Ends => reply[awaits[q]] # "none"
      BY <2>4 DEF WaitsForItsOwn
    <3>2. awaits'[q] = awaits[q]
      BY <2>1, <2>2, <2>4
    <3>3. req'[awaits[q]] = req[awaits[q]]
      BY <2>1, <2>2, <3>1
    <3>4. stage'[awaits[q]] \in {stage[awaits[q]], "waiting"}
      BY <2>1, <2>2, <3>1
    <3> QED
      BY <2>1, <3>1, <3>2, <3>3, <3>4
  <2>5. CASE stage[q] # "waiting"
    <3>1. q = r /\ awaits'[r] = c /\ ~toUser
      BY <2>1, <2>2, <2>3, <2>5
    <3> QED
      BY <2>1, <2>2, <3>1
  <2> QED
    BY <2>4, <2>5
<1>14. CASE Receive \/ ShowUser
  BY <1>14 DEF Receive, ShowUser, WaitsForItsOwn, replyVars
<1>15. ASSUME NEW a \in Agent, Take(a) PROVE WaitsForItsOwn'
  <2>1. stage' = [stage EXCEPT ![Head(inbox[a])] = "slot"] /\ UNCHANGED <<req, awaits, reply>>
    BY <1>15 DEF Take, replyVars
  <2> QED
    BY <1>0, <2>1
<1>16. CASE UNCHANGED vars
  BY <1>16 DEF vars, WaitsForItsOwn, replyVars
<1> QED
  BY <1>1, <1>2, <1>3, <1>5, <1>6, <1>7, <1>8, <1>9, <1>10, <1>11, <1>12, <1>13, <1>14,
     <1>15, <1>16, Steps
-----------------------------------------------------------------------------
\* Events on their way.  Most steps send no carrier and take none from the bus.
LEMMA CarriersKept ==
  ASSUME TypeOK, CarriersAreTrue, CarriedOnce,
         evt' = evt \/ evt' = NoEvent,
         \A i \in 1..Len(bus') :
           bus'[i].type \in Carriers => i \in 1..Len(bus) /\ bus'[i] = bus[i],
         \A x \in Request :
           (stage[x] = "bus" /\ ~(evt' = NoEvent /\ evt.type \in Carriers /\ evt.id = x))
             => stage'[x] = "bus" /\ req'[x] = req[x]
  PROVE  CarriersAreTrue' /\ CarriedOnce'
<1>1. NoEvent.type \notin Carriers
  BY DEF NoEvent, Carriers
<1>2. ASSUME NEW i \in 1..Len(bus'), bus'[i].type \in Carriers
      PROVE  /\ i \in 1..Len(bus) /\ bus'[i] = bus[i]
             /\ stage'[bus'[i].id] = "bus"
             /\ bus'[i].type = "AgentDelegate" <=> req'[bus'[i].id].parent # NoRequest
  <2>1. i \in 1..Len(bus) /\ bus'[i] = bus[i]
    BY <1>2
  <2>2. bus[i].id \in Request
    BY <1>2, <2>1, EventIds, ElementOfSeq DEF TypeOK
  <2>3. /\ stage[bus[i].id] = "bus"
        /\ bus[i].type = "AgentDelegate" <=> req[bus[i].id].parent # NoRequest
    BY <1>2, <2>1 DEF CarriersAreTrue
  <2>4. evt.type \in Carriers => evt.id # bus[i].id
    BY <1>2, <2>1 DEF CarriedOnce
  <2>5. stage'[bus[i].id] = "bus" /\ req'[bus[i].id] = req[bus[i].id]
    BY <2>2, <2>3, <2>4
  <2> QED
    BY <2>1, <2>3, <2>5
<1>3. ASSUME evt'.type \in Carriers
      PROVE  /\ evt' = evt
             /\ stage'[evt'.id] = "bus"
             /\ evt'.type = "AgentDelegate" <=> req'[evt'.id].parent # NoRequest
  <2>1. evt' = evt /\ evt' # NoEvent
    BY <1>1, <1>3
  <2>2. evt.id \in Request
    BY <1>3, <2>1, EventIds DEF TypeOK
  <2>3. /\ stage[evt.id] = "bus"
        /\ evt.type = "AgentDelegate" <=> req[evt.id].parent # NoRequest
    BY <1>3, <2>1 DEF CarriersAreTrue
  <2>4. stage'[evt.id] = "bus" /\ req'[evt.id] = req[evt.id]
    BY <2>1, <2>2, <2>3
  <2> QED
    BY <2>1, <2>3, <2>4
<1>4. CarriersAreTrue'
  BY <1>2, <1>3 DEF CarriersAreTrue
<1>5. CarriedOnce'
  BY <1>2, <1>3 DEF CarriedOnce
<1> QED
  BY <1>4, <1>5

\* The event of a request that was new is the only one about it.
LEMMA CarrierSent ==
  ASSUME TypeOK, CarriersAreTrue, CarriedOnce,
         NEW r \in Request, NEW type \in Carriers,
         stage[r] = "new", stage'[r] = "bus",
         bus' = Append(bus, [type |-> type, id |-> r]), evt' = evt,
         \A x \in Request : stage[x] = "bus" => stage'[x] = "bus" /\ req'[x] = req[x],
         type = "AgentDelegate" <=> req'[r].parent # NoRequest
  PROVE  CarriersAreTrue' /\ CarriedOnce'
<1> DEFINE e == [type |-> type, id |-> r]
<1>1. e \in Event /\ e.type = type /\ e.id = r
  BY DEF Event, Carriers
<1>2. /\ Len(bus') = Len(bus) + 1
      /\ \A i \in 1..Len(bus) : bus'[i] = bus[i]
      /\ bus'[Len(bus) + 1] = e
      /\ Len(bus) \in Nat
  BY <1>1, AppendToSeq DEF TypeOK
<1> HIDE DEF e
<1>3. ASSUME NEW i \in 1..Len(bus), bus[i].type \in Carriers
      PROVE  /\ bus[i].id # r
             /\ stage'[bus[i].id] = "bus"
             /\ bus[i].type = "AgentDelegate" <=> req'[bus[i].id].parent # NoRequest
  <2>1. bus[i].id \in Request
    BY <1>3, EventIds, ElementOfSeq DEF TypeOK
  <2>2. /\ stage[bus[i].id] = "bus"
        /\ bus[i].type = "AgentDelegate" <=> req[bus[i].id].parent # NoRequest
    BY <1>3 DEF CarriersAreTrue
  <2> QED
    BY <2>1, <2>2
<1>4. ASSUME evt.type \in Carriers
      PROVE  /\ evt.id # r
             /\ stage'[evt.id] = "bus"
             /\ evt.type = "AgentDelegate" <=> req'[evt.id].parent # NoRequest
  <2>1. evt.id \in Request
    BY <1>4, EventIds DEF TypeOK
  <2>2. /\ stage[evt.id] = "bus"
        /\ evt.type = "AgentDelegate" <=> req[evt.id].parent # NoRequest
    BY <1>4 DEF CarriersAreTrue
  <2> QED
    BY <2>1, <2>2
<1>5. \A i \in 1..Len(bus') : i \in 1..Len(bus) \/ i = Len(bus) + 1
  BY <1>2
<1>6. CarriersAreTrue'
  <2>1. ASSUME NEW i \in 1..Len(bus'), bus'[i].type \in Carriers
        PROVE  /\ stage'[bus'[i].id] = "bus"
               /\ bus'[i].type = "AgentDelegate" <=> req'[bus'[i].id].parent # NoRequest
    BY <1>1, <1>2, <1>3, <1>5, <2>1
  <2> QED
    BY <1>4, <2>1 DEF CarriersAreTrue
<1>7. CarriedOnce'
  <2>1. ASSUME NEW i \in 1..Len(bus'), NEW j \in 1..Len(bus'),
               bus'[i].type \in Carriers, bus'[j].type \in Carriers, bus'[i].id = bus'[j].id
        PROVE  i = j
    <3>1. CASE i \in 1..Len(bus) /\ j \in 1..Len(bus)
      BY <1>2, <2>1, <3>1 DEF CarriedOnce
    <3>2. CASE i \in 1..Len(bus) /\ j = Len(bus) + 1
      BY <1>1, <1>2, <1>3, <2>1, <3>2
    <3>3. CASE j \in 1..Len(bus) /\ i = Len(bus) + 1
      BY <1>1, <1>2, <1>3, <2>1, <3>3
    <3> QED
      BY <1>5, <3>1, <3>2, <3>3
  <2>2. ASSUME NEW i \in 1..Len(bus'), bus'[i].type \in Carriers, evt'.type \in Carriers
        PROVE  bus'[i].id # evt'.id
    <3>1. CASE i \in 1..Len(bus)
      BY <1>2, <2>2, <3>1 DEF CarriedOnce
    <3>2. CASE i = Len(bus) + 1
      BY <1>1, <1>2, <1>4, <2>2, <3>2
    <3> QED
      BY <1>5, <3>1, <3>2
  <2> QED
    BY <2>1, <2>2 DEF CarriedOnce
<1> QED
  BY <1>6, <1>7

\* The event that the router takes is no longer on the bus.
LEMMA CarrierReceived ==
  ASSUME TypeOK, CarriersAreTrue, CarriedOnce, Receive
  PROVE  CarriersAreTrue' /\ CarriedOnce'
<1>1. UNCHANGED <<req, stage>> /\ evt' = Head(bus) /\ bus' = Tail(bus) /\ bus # <<>>
  BY DEF Receive
<1>2. /\ evt' = bus[1]
      /\ Len(bus) \in Nat \ {0}
      /\ Len(bus') = Len(bus) - 1
      /\ \A i \in 1..Len(bus') : bus'[i] = bus[i + 1]
  BY <1>1, TailOfSeq DEF TypeOK
<1>3. 1 \in 1..Len(bus) /\ \A i \in 1..Len(bus') : i + 1 \in 1..Len(bus) /\ i + 1 # 1
  BY <1>2
<1>4. CarriersAreTrue'
  BY <1>1, <1>2, <1>3 DEF CarriersAreTrue
<1>5. CarriedOnce'
  <2>1. ASSUME NEW i \in 1..Len(bus'), NEW j \in 1..Len(bus'),
               bus'[i].type \in Carriers, bus'[j].type \in Carriers, bus'[i].id = bus'[j].id
        PROVE  i = j
    <3>1. i + 1 = j + 1
      BY <1>2, <1>3, <2>1 DEF CarriedOnce
    <3> QED
      BY <3>1
  <2>2. ASSUME NEW i \in 1..Len(bus'), bus'[i].type \in Carriers, evt'.type \in Carriers
        PROVE  bus'[i].id # evt'.id
    BY <1>2, <1>3, <2>2 DEF CarriedOnce
  <2> QED
    BY <2>1, <2>2 DEF CarriedOnce
<1> QED
  BY <1>4, <1>5

LEMMA NoCarrierSent ==
  ASSUME TypeOK, NEW r \in Request, TellUser(r) \/ bus' = bus
  PROVE  \A i \in 1..Len(bus') :
           bus'[i].type \in Carriers => i \in 1..Len(bus) /\ bus'[i] = bus[i]
<1> DEFINE e == [type |-> "OutboundMessage", id |-> r]
<1>1. e \in Event /\ e.type \notin Carriers
  BY DEF Event, Carriers
<1>2. CASE bus' = bus
  BY <1>2
<1>3. CASE bus' = Append(bus, e)
  <2>1. /\ Len(bus') = Len(bus) + 1
        /\ \A i \in 1..Len(bus) : bus'[i] = bus[i]
        /\ bus'[Len(bus) + 1] = e
        /\ Len(bus) \in Nat
    BY <1>1, <1>3, AppendToSeq DEF TypeOK
  <2>2. \A i \in 1..Len(bus') : i \in 1..Len(bus) \/ i = Len(bus) + 1
    BY <2>1
  <2> QED
    BY <1>1, <2>1, <2>2
<1>4. bus' = bus \/ bus' = Append(bus, e)
  BY DEF TellUser, Post
<1> QED
  BY <1>2, <1>3, <1>4

\* A carrier is about a request on its way: what the router does with it, it
\* does once.
LEMMA CarriersNext ==
  ASSUME TypeOK, CarriersAreTrue, CarriedOnce, InboxesAreTrue, [Next]_vars
  PROVE  CarriersAreTrue' /\ CarriedOnce'
<1> DEFINE Goal == CarriersAreTrue' /\ CarriedOnce'
<1> USE DEF Goto, At
<1>0. ASSUME UNCHANGED <<bus, evt, req>>,
             \A x \in Request : stage[x] = "bus" => stage'[x] = "bus"
      PROVE  Goal
  BY <1>0, CarriersKept
<1>1. ASSUME NEW r \in Request, UserMessage(r) PROVE Goal
  <2>1. /\ stage[r] = "new" /\ stage'[r] = "bus"
        /\ bus' = Append(bus, [type |-> "MessageReceived", id |-> r]) /\ evt' = evt
        /\ \A x \in Request : stage[x] = "bus" => stage'[x] = "bus" /\ req'[x] = req[x]
        /\ req'[r].parent = NoRequest
    BY <1>1 DEF UserMessage, Post, TypeOK
  <2>2. "MessageReceived" \in Carriers
    BY DEF Carriers
  <2> QED
    BY <2>1, <2>2, CarrierSent
<1>2. ASSUME NEW r \in Request, NEW x \in {"inbox", "over"},
             evt.type \in Carriers, evt.id = r, evt' = NoEvent,
             stage' = [stage EXCEPT ![r] = x], UNCHANGED <<bus, req>>
      PROVE  Goal
  BY <1>2, CarriersKept DEF TypeOK
<1>3. ASSUME NEW r \in Request, Deliver(r) \/ DropMessage(r) \/ RefuseDelegation(r)
      PROVE  Goal
  BY <1>2, <1>3 DEF Deliver, DropMessage, RefuseDelegation, Carriers
<1>4. ASSUME NEW r \in Request,
             AcquireSlot(r) \/ Expire(r) \/ LockTurn(r) \/ GetReply(r) \/ GiveUp(r)
      PROVE  Goal
  BY <1>0, <1>4 DEF AcquireSlot, Expire, LockTurn, GetReply, GiveUp, routerVars, TypeOK
<1>5. ASSUME NEW r \in Request, EndTurn(r) \/ FailTurn(r) PROVE Goal
  BY <1>0, <1>5 DEF EndTurn, FailTurn, routerVars, TypeOK
<1>6. ASSUME NEW r \in Request, RouteResponse(r) \/ Apologise(r) PROVE Goal
  <2>1. /\ stage[r] # "bus" /\ stage' = [stage EXCEPT ![r] = "over"]
        /\ UNCHANGED <<evt, req>>
        /\ TellUser(r) \/ bus' = bus
    BY <1>6 DEF RouteResponse, Apologise
  <2>2. \A x \in Request : stage[x] = "bus" => stage'[x] = "bus"
    BY <2>1 DEF TypeOK
  <2>3. \A i \in 1..Len(bus') :
          bus'[i].type \in Carriers => i \in 1..Len(bus) /\ bus'[i] = bus[i]
    BY <2>1, NoCarrierSent
  <2> QED
    BY <2>1, <2>2, <2>3, CarriersKept
<1>7. ASSUME NEW r \in Request, ReplyError(r) PROVE Goal
  BY <1>0, <1>7 DEF ReplyError, routerVars, TypeOK
<1>8. ASSUME NEW r \in Request, NEW c \in Request, Delegate(r, c) PROVE Goal
  <2>1. /\ stage[r] = "turn" /\ stage[c] = "new"
        /\ bus' = Append(bus, [type |-> "AgentDelegate", id |-> c]) /\ evt' = evt
    BY <1>8 DEF Delegate, Post
  <2>2. PICK a \in Agent \cup {Unknown}, toUser \in BOOLEAN :
           /\ req' = [req EXCEPT ![c] = [agent |-> a, session |-> req[r].session,
                                         parent |-> r, direct |-> toUser]]
           /\ \/ stage' = [stage EXCEPT ![c] = "bus"]
              \/ stage' = [stage EXCEPT ![r] = "waiting", ![c] = "bus"]
    BY <1>8, DelegateCases
  <2>3. /\ stage'[c] = "bus"
        /\ \A x \in Request : stage[x] = "bus" => stage'[x] = "bus"
    BY <2>1, <2>2 DEF TypeOK
  <2>4. \A x \in Request : stage[x] = "bus" => req'[x] = req[x]
    BY <2>1, <2>2 DEF TypeOK
  <2>5. req'[c].parent # NoRequest
    BY <2>2 DEF TypeOK
  <2>6. "AgentDelegate" \in Carriers
    BY DEF Carriers
  <2> QED
    BY <2>1, <2>3, <2>4, <2>5, <2>6, CarrierSent
<1>9. CASE Receive
  BY <1>9, CarrierReceived
<1>10. CASE ShowUser
  <2>1. evt.type \notin Carriers /\ evt' = NoEvent /\ UNCHANGED <<bus, req, stage>>
    BY <1>10 DEF ShowUser, Carriers
  <2> QED
    BY <2>1, CarriersKept
<1>11. ASSUME NEW a \in Agent, Take(a) PROVE Goal
  <2>1. /\ stage' = [stage EXCEPT ![Head(inbox[a])] = "slot"]
        /\ UNCHANGED <<bus, evt, req>> /\ inbox[a] # <<>>
    BY <1>11 DEF Take, routerVars
  <2>2. Head(inbox[a]) = inbox[a][1] /\ 1 \in 1..Len(inbox[a])
    BY <2>1, TailOfSeq DEF TypeOK
  <2>3. stage[Head(inbox[a])] = "inbox"
    BY <2>2 DEF InboxesAreTrue
  <2> QED
    BY <1>0, <2>1, <2>3 DEF TypeOK
<1>12. CASE UNCHANGED vars
  BY <1>0, <1>12 DEF vars, routerVars
<1> QED
  BY <1>1, <1>3, <1>4, <1>5, <1>6, <1>7, <1>8, <1>9, <1>10, <1>11, <1>12, Steps
-----------------------------------------------------------------------------
\* What is in an inbox is there once.
LEMMA InboxesNext ==
  ASSUME TypeOK, CarriersAreTrue, InboxesAreTrue, [Next]_vars
  PROVE  InboxesAreTrue'
<1> USE DEF Goto, At
<1>0. ASSUME inbox' = inbox,
             \A x \in Request : stage[x] = "inbox" => stage'[x] = "inbox" /\ req'[x] = req[x]
      PROVE  InboxesAreTrue'
  <2>1. \A a \in Agent : \A i \in 1..Len(inbox[a]) : inbox[a][i] \in Request
    BY ElementOfSeq DEF TypeOK
  <2> QED
    BY <1>0, <2>1 DEF InboxesAreTrue
<1>1. ASSUME NEW r \in Request, UserMessage(r) PROVE InboxesAreTrue'
  BY <1>0, <1>1 DEF UserMessage, TypeOK
<1>2. ASSUME NEW r \in Request, Deliver(r) PROVE InboxesAreTrue'
  <2> DEFINE d == req[r].agent
  <2>1. /\ d \in Agent /\ stage[r] = "bus"
        /\ inbox' = [inbox EXCEPT ![d] = Append(@, r)]
        /\ stage' = [stage EXCEPT ![r] = "inbox"]
        /\ req' = req
    BY <1>2 DEF Deliver, HasRoom, CarriersAreTrue, Carriers
  <2> HIDE DEF d
  <2>2. ASSUME NEW a \in Agent, NEW i \in 1..Len(inbox[a])
        PROVE  /\ inbox[a][i] \in Request \ {r}
               /\ stage'[inbox[a][i]] = "inbox" /\ req'[inbox[a][i]].agent = a
    <3>1. inbox[a][i] \in Request
      BY ElementOfSeq DEF TypeOK
    <3>2. stage[inbox[a][i]] = "inbox" /\ req[inbox[a][i]].agent = a
      BY DEF InboxesAreTrue
    <3> QED
      BY <2>1, <3>1, <3>2 DEF TypeOK
  <2>3. \A a \in Agent \ {d} : inbox'[a] = inbox[a]
    BY <2>1 DEF TypeOK
  <2>4. inbox'[d] = Append(inbox[d], r) /\ inbox[d] \in Seq(Request)
    BY <2>1 DEF TypeOK
  <2>5. /\ Len(inbox[d]) \in Nat
        /\ Len(inbox'[d]) = Len(inbox[d]) + 1
        /\ \A i \in 1..Len(inbox[d]) : inbox'[d][i] = inbox[d][i]
        /\ inbox'[d][Len(inbox[d]) + 1] = r
    BY <2>4, AppendToSeq
  <2>6. \A i \in 1..Len(inbox'[d]) : i \in 1..Len(inbox[d]) \/ i = Len(inbox[d]) + 1
    BY <2>5
  <2>7. stage'[r] = "inbox" /\ req'[r].agent = d
    BY <2>1 DEF TypeOK, d
  <2>8. ASSUME NEW i \in 1..Len(inbox'[d])
        PROVE  stage'[inbox'[d][i]] = "inbox" /\ req'[inbox'[d][i]].agent = d
    <3>1. CASE i \in 1..Len(inbox[d])
      BY <2>1, <2>2, <2>5, <3>1
    <3>2. CASE i = Len(inbox[d]) + 1
      BY <2>5, <2>7, <3>2
    <3> QED
      BY <2>6, <3>1, <3>2
  <2>9. ASSUME NEW i \in 1..Len(inbox'[d]), NEW j \in 1..Len(inbox'[d]),
               inbox'[d][i] = inbox'[d][j]
        PROVE  i = j
    <3>1. CASE i \in 1..Len(inbox[d]) /\ j \in 1..Len(inbox[d])
      BY <2>1, <2>5, <2>9, <3>1 DEF InboxesAreTrue
    <3>2. CASE i \in 1..Len(inbox[d]) /\ j = Len(inbox[d]) + 1
      BY <2>1, <2>2, <2>5, <2>9, <3>2
    <3>3. CASE j \in 1..Len(inbox[d]) /\ i = Len(inbox[d]) + 1
      BY <2>1, <2>2, <2>5, <2>9, <3>3
    <3> QED
      BY <2>6, <3>1, <3>2, <3>3
  <2>10. ASSUME NEW a \in Agent \ {d}
         PROVE  /\ \A i \in 1..Len(inbox'[a]) :
                     stage'[inbox'[a][i]] = "inbox" /\ req'[inbox'[a][i]].agent = a
                /\ \A i, j \in 1..Len(inbox'[a]) : inbox'[a][i] = inbox'[a][j] => i = j
    BY <2>2, <2>3 DEF InboxesAreTrue
  <2> QED
    BY <2>8, <2>9, <2>10 DEF InboxesAreTrue
<1>3. ASSUME NEW r \in Request, DropMessage(r) \/ RefuseDelegation(r) PROVE InboxesAreTrue'
  BY <1>0, <1>3 DEF DropMessage, RefuseDelegation, CarriersAreTrue, Carriers, TypeOK
<1>4. ASSUME NEW r \in Request,
             AcquireSlot(r) \/ Expire(r) \/ LockTurn(r) \/ GetReply(r) \/ GiveUp(r)
      PROVE  InboxesAreTrue'
  BY <1>0, <1>4 DEF AcquireSlot, Expire, LockTurn, GetReply, GiveUp, TypeOK
<1>5. ASSUME NEW r \in Request, EndTurn(r) \/ FailTurn(r) PROVE InboxesAreTrue'
  BY <1>0, <1>5 DEF EndTurn, FailTurn, TypeOK
<1>6. ASSUME NEW r \in Request, RouteResponse(r) \/ ReplyError(r) \/ Apologise(r)
      PROVE  InboxesAreTrue'
  BY <1>0, <1>6 DEF RouteResponse, ReplyError, Apologise, TypeOK
<1>7. ASSUME NEW r \in Request, NEW c \in Request, Delegate(r, c) PROVE InboxesAreTrue'
  <2>1. stage[r] = "turn" /\ stage[c] = "new" /\ inbox' = inbox
    BY <1>7 DEF Delegate
  <2>2. \/ stage' = [stage EXCEPT ![c] = "bus"]
        \/ stage' = [stage EXCEPT ![r] = "waiting", ![c] = "bus"]
    BY <1>7, DelegateCases
  <2>3. \A x \in Request \ {c} : req'[x] = req[x]
    BY <1>7, DelegateCases DEF TypeOK
  <2> QED
    BY <1>0, <2>1, <2>2, <2>3 DEF TypeOK
<1>8. CASE Receive \/ ShowUser
  BY <1>0, <1>8 DEF Receive, ShowUser
<1>9. ASSUME NEW b \in Agent, Take(b) PROVE InboxesAreTrue'
  <2>1. /\ inbox[b] # <<>> /\ inbox[b] \in Seq(Request)
        /\ stage' = [stage EXCEPT ![Head(inbox[b])] = "slot"]
        /\ inbox' = [inbox EXCEPT ![b] = Tail(@)]
        /\ req' = req
    BY <1>9 DEF Take, TypeOK
  <2>2. /\ Head(inbox[b]) = inbox[b][1]
        /\ Len(inbox[b]) \in Nat \ {0}
        /\ inbox'[b] = Tail(inbox[b])
        /\ Len(inbox'[b]) = Len(inbox[b]) - 1
        /\ \A i \in 1..Len(inbox'[b]) : inbox'[b][i] = inbox[b][i + 1]
    BY <2>1, TailOfSeq DEF TypeOK
  <2>3. /\ 1 \in 1..Len(inbox[b])
        /\ \A i \in 1..Len(inbox'[b]) : i + 1 \in 1..Len(inbox[b]) /\ i + 1 # 1
    BY <2>2
  <2>4. stage[inbox[b][1]] = "inbox" /\ req[inbox[b][1]].agent = b
    BY <2>3 DEF InboxesAreTrue
  <2>5. ASSUME NEW i \in 1..Len(inbox'[b])
        PROVE  stage'[inbox'[b][i]] = "inbox" /\ req'[inbox'[b][i]].agent = b
    <3>1. stage[inbox[b][i + 1]] = "inbox" /\ req[inbox[b][i + 1]].agent = b
      BY <2>3 DEF InboxesAreTrue
    <3>2. inbox[b][i + 1] # inbox[b][1]
      BY <2>3 DEF InboxesAreTrue
    <3>3. inbox[b][i + 1] \in Request
      BY <2>1, <2>3, ElementOfSeq
    <3> QED
      BY <2>1, <2>2, <3>1, <3>2, <3>3 DEF TypeOK
  <2>6. ASSUME NEW i \in 1..Len(inbox'[b]), NEW j \in 1..Len(inbox'[b]),
               inbox'[b][i] = inbox'[b][j]
        PROVE  i = j
    <3>1. i + 1 = j + 1
      BY <2>2, <2>3, <2>6 DEF InboxesAreTrue
    <3> QED
      BY <3>1
  <2>7. ASSUME NEW a \in Agent \ {b}
        PROVE  /\ \A i \in 1..Len(inbox'[a]) :
                    stage'[inbox'[a][i]] = "inbox" /\ req'[inbox'[a][i]].agent = a
               /\ \A i, j \in 1..Len(inbox'[a]) : inbox'[a][i] = inbox'[a][j] => i = j
    <3>1. inbox'[a] = inbox[a]
      BY <2>1 DEF TypeOK
    <3>2. ASSUME NEW i \in 1..Len(inbox[a])
          PROVE  stage'[inbox[a][i]] = "inbox" /\ req'[inbox[a][i]].agent = a
      <4>1. stage[inbox[a][i]] = "inbox" /\ req[inbox[a][i]].agent = a
        BY DEF InboxesAreTrue
      <4>2. inbox[a][i] \in Request /\ inbox[a][i] # Head(inbox[b])
        BY <2>2, <2>4, <4>1, ElementOfSeq DEF TypeOK
      <4> QED
        BY <2>1, <4>1, <4>2 DEF TypeOK
    <3> QED
      BY <3>1, <3>2 DEF InboxesAreTrue
  <2> QED
    BY <2>5, <2>6, <2>7 DEF InboxesAreTrue
<1>10. CASE UNCHANGED vars
  BY <1>0, <1>10 DEF vars
<1> QED
  BY <1>1, <1>2, <1>3, <1>4, <1>5, <1>6, <1>7, <1>8, <1>9, <1>10, Steps
-----------------------------------------------------------------------------
\* Only a request that was not replied to is replied to.
LEMMA RepliesNext ==
  ASSUME TypeOK, CarriersAreTrue, InboxesAreTrue, RepliedAtTheEnd, [Next]_vars
  PROVE  RepliedAtTheEnd'
<1> DEFINE Ends == {"apology", "over"}
<1> USE DEF Goto, At
<1>0. ASSUME replies' = replies,
             \A x \in Request : stage[x] \in Ends => stage'[x] \in Ends
      PROVE  RepliedAtTheEnd'
  BY <1>0 DEF RepliedAtTheEnd
<1>1. ASSUME NEW r \in Request, NEW x \in Ends, stage[r] \notin Ends,
             stage' = [stage EXCEPT ![r] = x],
             replies' = [replies EXCEPT ![r] = @ + 1] \/ replies' = replies
      PROVE  RepliedAtTheEnd'
  <2>1. replies[r] = 0
    BY <1>1 DEF RepliedAtTheEnd
  <2>2. stage'[r] \in Ends /\ \A q \in Request \ {r} : stage'[q] = stage[q]
    BY <1>1 DEF TypeOK
  <2>3. /\ replies'[r] \in {0, 1}
        /\ \A q \in Request \ {r} : replies'[q] = replies[q]
    BY <1>1, <2>1 DEF TypeOK
  <2> QED
    BY <2>2, <2>3 DEF RepliedAtTheEnd
<1>2. ASSUME NEW r \in Request, UserMessage(r) PROVE RepliedAtTheEnd'
  BY <1>0, <1>2 DEF UserMessage, replyVars, TypeOK
<1>3. ASSUME NEW r \in Request, Deliver(r) \/ DropMessage(r) PROVE RepliedAtTheEnd'
  BY <1>0, <1>3 DEF Deliver, DropMessage, CarriersAreTrue, Carriers, replyVars, TypeOK
<1>4. ASSUME NEW r \in Request, RefuseDelegation(r) PROVE RepliedAtTheEnd'
  BY <1>1, <1>4 DEF RefuseDelegation, SendReply, CarriersAreTrue, Carriers
<1>5. ASSUME NEW r \in Request,
             AcquireSlot(r) \/ Expire(r) \/ LockTurn(r) \/ GetReply(r) \/ GiveUp(r)
      PROVE  RepliedAtTheEnd'
  BY <1>0, <1>5 DEF AcquireSlot, Expire, LockTurn, GetReply, GiveUp, replyVars, TypeOK
<1>6. ASSUME NEW r \in Request, EndTurn(r) \/ FailTurn(r) PROVE RepliedAtTheEnd'
  BY <1>0, <1>6 DEF EndTurn, FailTurn, replyVars, TypeOK
<1>7. ASSUME NEW r \in Request, RouteResponse(r) PROVE RepliedAtTheEnd'
  BY <1>1, <1>7 DEF RouteResponse, SendReply, replyVars
<1>8. ASSUME NEW r \in Request, ReplyError(r) PROVE RepliedAtTheEnd'
  BY <1>1, <1>8 DEF ReplyError, SendReply, replyVars
<1>9. ASSUME NEW r \in Request, Apologise(r) PROVE RepliedAtTheEnd'
  BY <1>0, <1>9 DEF Apologise, replyVars, TypeOK
<1>10. ASSUME NEW r \in Request, NEW c \in Request, Delegate(r, c) PROVE RepliedAtTheEnd'
  <2>1. stage[r] = "turn" /\ stage[c] = "new" /\ replies' = replies
    BY <1>10 DEF Delegate, replyVars
  <2>2. \/ stage' = [stage EXCEPT ![c] = "bus"]
        \/ stage' = [stage EXCEPT ![r] = "waiting", ![c] = "bus"]
    BY <1>10, DelegateCases
  <2> QED
    BY <1>0, <2>1, <2>2 DEF TypeOK
<1>11. CASE Receive \/ ShowUser
  BY <1>0, <1>11 DEF Receive, ShowUser, replyVars
<1>12. ASSUME NEW a \in Agent, Take(a) PROVE RepliedAtTheEnd'
  <2>1. /\ stage' = [stage EXCEPT ![Head(inbox[a])] = "slot"]
        /\ replies' = replies /\ inbox[a] # <<>>
    BY <1>12 DEF Take, replyVars
  <2>2. Head(inbox[a]) = inbox[a][1] /\ 1 \in 1..Len(inbox[a])
    BY <2>1, TailOfSeq DEF TypeOK
  <2>3. stage[Head(inbox[a])] = "inbox"
    BY <2>2 DEF InboxesAreTrue
  <2> QED
    BY <1>0, <2>1, <2>3 DEF TypeOK
<1>13. CASE UNCHANGED vars
  BY <1>0, <1>13 DEF vars, replyVars
<1> QED
  BY <1>2, <1>3, <1>4, <1>5, <1>6, <1>7, <1>8, <1>9, <1>10, <1>11, <1>12, <1>13, Steps
-----------------------------------------------------------------------------
\* The inductive invariant of DelegationInvariant.tla is one.
LEMMA InductiveInit == Init => Inductive
<1> SUFFICES ASSUME Init PROVE Inductive
  OBVIOUS
<1>1. TypeOK
  BY TypeInit
<1>2. /\ bus = <<>> /\ evt.type \notin Carriers
      /\ \A a \in Agent : inbox[a] = <<>>
      /\ \A r \in Request : stage[r] = "new" /\ replies[r] = 0
  BY DEF Init, NoEvent, Carriers
<1>3. 1..Len(bus) = {} /\ \A a \in Agent : 1..Len(inbox[a]) = {}
  BY <1>2
<1>4. CarriersAreTrue /\ CarriedOnce
  BY <1>2, <1>3 DEF CarriersAreTrue, CarriedOnce
<1>5. InboxesAreTrue
  BY <1>3 DEF InboxesAreTrue
<1>6. RepliedAtTheEnd /\ TurnsAreSerial /\ WaitsForItsOwn
  BY <1>2 DEF RepliedAtTheEnd, TurnsAreSerial, InTurn, WaitsForItsOwn
<1> QED
  BY <1>1, <1>4, <1>5, <1>6 DEF Inductive

LEMMA InductiveNext == Inductive /\ [Next]_vars => Inductive'
BY TypeNext, SerialNext, WaitsNext, CarriersNext, InboxesNext, RepliesNext DEF Inductive

THEOREM InductiveInvariant == Spec => []Inductive
BY InductiveInit, InductiveNext, PTL DEF Spec

\* A reply channel, which has room for one event, is sent at most one: by the
\* kernel's refusal or by the agent, never both, so safeReply never blocks.
THEOREM RepliedOnce == Spec => []OneReply
<1>1. Inductive => OneReply
  BY DEF Inductive, RepliedAtTheEnd, OneReply
<1> QED
  BY <1>1, InductiveInvariant, PTL

\* A delegation somebody waits for is on its way, at work or answered: no
\* failure of the kernel or of the other agent goes unreported.
THEOREM WaitsAreAnswered == Spec => []ReplyIsComing
<1>1. Inductive => ReplyIsComing
  <2> SUFFICES ASSUME Inductive, NEW r \in Request, stage[r] = "waiting"
               PROVE  \/ reply[awaits[r]] # "none"
                      \/ stage[awaits[r]] \notin {"new", "apology", "over"}
    BY DEF ReplyIsComing, At
  <2> QED
    BY DEF Inductive, WaitsForItsOwn
<1> QED
  BY <1>1, InductiveInvariant, PTL
==============================================================================
