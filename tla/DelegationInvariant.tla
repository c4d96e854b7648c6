------------------------ MODULE DelegationInvariant ------------------------
(***************************************************************************)
(* Why the safety properties of Delegation.tla hold: a request is in one   *)
(* place at a time, the place its stage names, so it is handled once and   *)
(* replied to once.                                                        *)
(***************************************************************************)
EXTENDS Delegation

\* The events that take a request to an agent.
Carriers == {"MessageReceived", "AgentDelegate"}

\* An event on its way carries a request that is on its way, and a delegation
\* is never mistaken for a message of the user.
CarriersAreTrue ==
  /\ \A i \in 1..Len(bus) :
       bus[i].type \in Carriers =>
         /\ stage[bus[i].id] = "bus"
         /\ bus[i].type = "AgentDelegate" <=> req[bus[i].id].parent # NoRequest
  /\ evt.type \in Carriers =>
         /\ stage[evt.id] = "bus"
         /\ evt.type = "AgentDelegate" <=> req[evt.id].parent # NoRequest

\* No two events carry the same request.
CarriedOnce ==
  /\ \A i, j \in 1..Len(bus) :
       (bus[i].type \in Carriers /\ bus[j].type \in Carriers /\ bus[i].id = bus[j].id)
         => i = j
  /\ \A i \in 1..Len(bus) :
       (bus[i].type \in Carriers /\ evt.type \in Carriers) => bus[i].id # evt.id

\* What is in an inbox is for this agent, and there once.
InboxesAreTrue ==
  \A a \in Agent :
    /\ \A i \in 1..Len(inbox[a]) :
         stage[inbox[a][i]] = "inbox" /\ req[inbox[a][i]].agent = a
    /\ \A i, j \in 1..Len(inbox[a]) : inbox[a][i] = inbox[a][j] => i = j

\* A request is replied to once, at the end of its life.
RepliedAtTheEnd ==
  \A r \in Request : \/ replies[r] = 0
                     \/ replies[r] = 1 /\ stage[r] \in {"apology", "over"}

\* A request waits for a delegation of its own, which is on its way or has
\* left its answer.
WaitsForItsOwn ==
  \A r \in Request :
    stage[r] = "waiting" =>
      /\ awaits[r] \in Request
      /\ req[awaits[r]].parent = r
      /\ ~req[awaits[r]].direct
      /\ stage[awaits[r]] # "new"
      /\ stage[awaits[r]] \in {"apology", "over"} => reply[awaits[r]] # "none"

\* The inductive invariant of the delegation protocol between executive_tools.go,
\* event_loop.go, event_send.go and the kernel's handlers.
Inductive ==
  /\ TypeOK
  /\ CarriersAreTrue
  /\ CarriedOnce
  /\ InboxesAreTrue
  /\ RepliedAtTheEnd
  /\ TurnsAreSerial
  /\ WaitsForItsOwn
==============================================================================
