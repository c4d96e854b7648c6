--------------------------- MODULE MessageHistory ---------------------------
(***************************************************************************)
(* The messages of one session (pkg/message, table messages), the turns    *)
(* that agents take in it (pkg/agents), and what a turn loads: the history *)
(* that goes to the LLM ahead of the new message.  A provider refuses a    *)
(* request in which a tool call has no result, or a result no call.        *)
(*                                                                         *)
(* A row is written under the session's lock, with the time it is written  *)
(* at, and none is ever removed: the rows are a sequence that grows, and a *)
(* list of messages is a set of positions in it. What an agent says to     *)
(* whoever delegated to it is no row. A turn that waits for a delegation   *)
(* is one that takes its time over a tool result; the delegated turn is a  *)
(* turn of its own.                                                        *)
(***************************************************************************)
EXTENDS Naturals, Sequences, FiniteSets

CONSTANTS Agent,
          Executive,    \* the agent that sees what the others wrote
          Turn,         \* the requests there are at once
          Call,         \* ids of tool calls, fresh for every response
          NoCall,       \* the tool_call_id of a row that is no tool result
          HistoryTurns, \* DefaultHistoryTurns
          MaxRows       \* bound: messages in the session

ASSUME HistoryAssumption ==
  /\ Executive \in Agent
  /\ NoCall \notin Call
  /\ HistoryTurns \in Nat
  /\ MaxRows \in Nat

VARIABLES
  rows,  \* the messages of the conversation, by timestamp
  turn,  \* the requests agents have, and how far they are
  used,  \* the ids of the tool calls there have been
  lost   \* those whose assistant message could not be saved

vars == <<rows, turn, used, lost>>

Row == [role : {"user", "assistant", "notification", "tool"}, agent : Agent,
        calls : SUBSET Call, id : Call \cup {NoCall}]

\* calls: the tool calls still to be made for the last response.
Request == [stage : {"none", "queued", "running", "answering"}, agent : Agent,
            calls : SUBSET Call]

NoRequest == [stage |-> "none", agent |-> Executive, calls |-> {}]

TypeOK ==
  /\ rows \in Seq(Row)
  /\ turn \in [Turn -> Request]
  /\ used \in SUBSET Call
  /\ lost \in SUBSET Call

Init ==
  /\ rows = <<>>
  /\ turn = [t \in Turn |-> NoRequest]
  /\ used = {}
  /\ lost = {}
-----------------------------------------------------------------------------
(* Loading the history: the positions in a table r that agent a is shown.  *)

\* GetMessagesByAgent; GetFullHistory leaves out the tool rows of others.
Visible(r, a) ==
  {i \in DOMAIN r : r[i].agent = a \/ (a = Executive /\ r[i].role # "tool")}

\* getHistory: a turn starts with each user row; the last maxTurns are kept.
Recent(r, V) ==
  {i \in V : Cardinality({j \in V : j > i /\ r[j].role = "user"}) < HistoryTurns}

\* The tool rows that directly follow row i.
Following(r, V, i) ==
  {j \in V : j > i /\ \A k \in V : k \in (i + 1)..j => r[k].role = "tool"}

\* Bug: one result is enough.
SomeResult(r, V, i) ==
  r[i].calls = {} \/ \E j \in Following(r, V, i) : r[j].id \in r[i].calls

Complete(r, V, i) == r[i].calls \subseteq {r[j].id : j \in Following(r, V, i)}

\* sanitizeToolCallSequence: a message with tool calls stays, with all tool
\* rows that follow it, if its calls are among them; other tool rows go.
Sanitize(r, V) ==
  {i \in V :
     IF r[i].role = "tool"
       THEN \E h \in V : /\ i \in Following(r, V, h)
                         /\ r[h].calls # {}
                         /\ Complete(r, V, h)
       ELSE Complete(r, V, i)}

History(r, a) == Sanitize(r, Recent(r, Visible(r, a)))
-----------------------------------------------------------------------------
Save(role, a, C, id) ==
  /\ Len(rows) < MaxRows
  /\ rows' = Append(rows, [role |-> role, agent |-> a, calls |-> C, id |-> id])

\* A message that cannot be saved is logged, and the turn goes on.
SaveIf(saved, role, a, C, id) ==
  IF saved THEN Save(role, a, C, id) ELSE UNCHANGED rows

Enqueue(t, a) ==
  /\ turn[t].stage = "none"
  /\ turn' = [turn EXCEPT ![t] = [NoRequest EXCEPT !.stage = "queued", !.agent = a]]

\* handleMessageReceived.  A reply to a message of an agent goes to that agent.
UserMessage(t, a, saved) ==
  /\ Enqueue(t, a)
  /\ SaveIf(saved, "user", a, {}, NoCall)
  /\ UNCHANGED <<used, lost>>

\* The agent's inbox stays full: the message has been saved all the same.
DropMessage(a) ==
  /\ Save("user", a, {}, NoCall)
  /\ UNCHANGED <<turn, used, lost>>

\* A reminder or a digest goes out, whatever the agents are doing.
Notify ==
  /\ Save("notification", Executive, {}, NoCall)
  /\ UNCHANGED <<turn, used, lost>>

\* A delegation, a handoff, a workflow's task or its results: no row.
OtherRequest(t, a) ==
  /\ Enqueue(t, a)
  /\ UNCHANGED <<rows, used, lost>>

\* Bug: turns of an agent do not exclude each other.
LockAlwaysFree(a) == TRUE

TurnLockFree(a) == \A t \in Turn : turn[t].agent = a => turn[t].stage # "running"

\* Under the turn lock, prepareExecution loads History(rows, agent).  No copy of
\* it is kept here: the properties are about what it is at every moment.
PrepareExecution(t) ==
  /\ turn[t].stage = "queued"
  /\ TurnLockFree(turn[t].agent)
  /\ turn' = [turn EXCEPT ![t].stage = "running"]
  /\ UNCHANGED <<rows, used, lost>>

\* A response with tool calls is saved, and then its calls are made.
CallTools(t, saved) ==
  /\ turn[t].stage = "running"
  /\ turn[t].calls = {}
  /\ \E C \in SUBSET (Call \ used) :
       /\ C # {}
       /\ SaveIf(saved, "assistant", turn[t].agent, C, NoCall)
       /\ turn' = [turn EXCEPT ![t].calls = C]
       /\ used' = used \cup C
       /\ lost' = IF saved THEN lost ELSE lost \cup C

\* One call after the other; an error and a halt are results too.
ToolResult(t, c, saved) ==
  /\ turn[t].stage = "running"
  /\ c \in turn[t].calls
  /\ SaveIf(saved, "tool", turn[t].agent, {}, c)
  /\ turn' = [turn EXCEPT ![t].calls = @ \ {c}]
  /\ UNCHANGED <<used, lost>>

\* A response without tool calls, or the synthesis at the limits.  It goes to
\* the user, and the turn lock is released before it is saved; or it goes to
\* whoever asked, and is no row.
Respond(t) ==
  /\ turn[t].stage = "running"
  /\ turn[t].calls = {}
  /\ \/ turn' = [turn EXCEPT ![t].stage = "answering"]
     \/ turn' = [turn EXCEPT ![t] = NoRequest]
  /\ UNCHANGED <<rows, used, lost>>

\* The LLM, a result that cannot be marshalled or the five minutes end the
\* turn, between two calls too; the user gets an apology, whoever had asked.
Fail(t) ==
  /\ turn[t].stage = "running"
  /\ turn' = [turn EXCEPT ![t].stage = "answering", ![t].calls = {}]
  /\ UNCHANGED <<rows, used, lost>>

\* sendOutboundMessage.
SaveAnswer(t, saved) ==
  /\ turn[t].stage = "answering"
  /\ SaveIf(saved, "assistant", turn[t].agent, {}, NoCall)
  /\ turn' = [turn EXCEPT ![t] = NoRequest]
  /\ UNCHANGED <<used, lost>>

\* The process stops and starts again.
Restart ==
  /\ turn' = [t \in Turn |-> NoRequest]
  /\ UNCHANGED <<rows, used, lost>>
-----------------------------------------------------------------------------
Reliable ==
  \/ \E t \in Turn, a \in Agent : UserMessage(t, a, TRUE) \/ OtherRequest(t, a)
  \/ \E a \in Agent : DropMessage(a)
  \/ Notify
  \/ \E t \in Turn : \/ PrepareExecution(t)
                     \/ CallTools(t, TRUE)
                     \/ Respond(t)
                     \/ SaveAnswer(t, TRUE)
  \/ \E t \in Turn, c \in Call : ToolResult(t, c, TRUE)

Fault ==
  \/ \E t \in Turn, a \in Agent : UserMessage(t, a, FALSE)
  \/ \E t \in Turn : \/ CallTools(t, FALSE)
                     \/ SaveAnswer(t, FALSE)
                     \/ Fail(t)
  \/ \E t \in Turn, c \in Call : ToolResult(t, c, FALSE)
  \/ Restart

Next == Reliable \/ Fault

Spec == Init /\ [][Next]_vars

\* Nothing fails and nothing stops.
ReliableSpec == Init /\ [][Reliable]_vars
-----------------------------------------------------------------------------
(* Properties.                                                             *)

\* "OpenAI requires every tool_call_id to have a response before the next
\* assistant turn": whatever was saved or not, and whoever wrote in between,
\* each tool call that a request takes from the history has its result right
\* behind it.
CallsAreAnswered ==
  \A a \in Agent : LET H == History(rows, a) IN
    \A i \in H : \A c \in rows[i].calls :
      \E j \in H : /\ j > i
                   /\ rows[j].id = c
                   /\ \A k \in H : k \in (i + 1)..j => rows[k].role = "tool"

\* And each result has its call, unless the call could not be saved.
ResultsHaveCalls ==
  \A a \in Agent : LET H == History(rows, a) IN
    \A j \in H : rows[j].role = "tool" /\ rows[j].id \notin lost =>
      \E i \in H : /\ i < j
                   /\ rows[j].id \in rows[i].calls
                   /\ \A k \in H : k \in (i + 1)..j => rows[k].role = "tool"

\* What the turn lock gives: between a tool call of an agent and its result,
\* the agent neither makes another call nor saves the result of one it made
\* elsewhere.
ExchangesDoNotMix ==
  \A i, j \in DOMAIN rows :
    i < j /\ rows[j].role = "tool" /\ rows[j].id \in rows[i].calls =>
      /\ rows[j].agent = rows[i].agent
      /\ \A k \in (i + 1)..j : rows[k].agent = rows[i].agent =>
           /\ rows[k].calls = {}
           /\ rows[k].role = "tool" => rows[k].id \in rows[i].calls

\* What was in an agent's history leaves it at its old end only, as the window
\* moves on: no row that is added makes a hole in what the LLM was shown.
HistoryOnlySlides ==
  [][\A a \in Agent :
       LET old == History(rows, a)
           new == History(rows', a)
       IN \A i \in old \ new : \A k \in new : i < k]_rows

\* "The agents' turn lock should prevent these from occurring": with no fault,
\* and no turn under way, what an agent wrote itself needs no sanitizing.
TurnLockSuffices ==
  (\A t \in Turn : turn[t].stage \in {"none", "queued"}) =>
    \A a \in Agent : LET V == Recent(rows, Visible(rows, a))
                     IN \A i \in V : rows[i].agent = a => i \in Sanitize(rows, V)
==============================================================================
