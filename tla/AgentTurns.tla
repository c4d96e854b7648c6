----------------------------- MODULE AgentTurns -----------------------------
(***************************************************************************)
(* The execution loop of one agent (pkg/agents/execution.go), and what its *)
(* turns share: the list of tools, a.tools, and the groups of tools each   *)
(* session has activated, a.activeGroups.  Turns of one session run one at *)
(* a time, turns of different sessions together, and nothing guards what   *)
(* they share.                                                             *)
(*                                                                         *)
(* The stages of a turn:                                                   *)
(*   new        not yet in runExecutionLoop                                *)
(*   queued     its groups are reset, it waits for the turn lock           *)
(*   loop       at the head of the loop                                    *)
(*   asked      the LLM has its messages and its tools                     *)
(*   acting     in processToolCalls                                        *)
(*   synthesis  the limit is hit and the tools are put aside               *)
(*   wrapup     the LLM was asked for a last answer                        *)
(*   answered, failed                                                      *)
(*                                                                         *)
(* The tools of a skill come and go together, so a list of tools is a list *)
(* of skills, and Threshold is counted in skills.  What the LLM answers is *)
(* open: it may name tools it was not given.  Replies, history and the     *)
(* budget of tokens are in Delegation, MessageHistory and TokenBudget.     *)
(***************************************************************************)
EXTENDS Naturals, Sequences, FiniteSets

CONSTANTS Turn,
          Session,
          Skill,          \* the skills the kernel knows
          Boot,           \* those the agent got at boot
          Group,          \* the groups a skill divides its tools into
          Threshold,      \* toolThreshold
          MaxIterations,  \* max_iterations; nothing forbids zero
          MaxToolCalls,   \* max_cumulative_tool_calls
          MaxBatch,       \* bound: tool calls in one answer
          MaxTools        \* bound: length of the list of tools

ASSUME TurnsAssumption ==
  /\ Boot \subseteq Skill
  /\ IsFiniteSet(Boot)
  /\ Threshold \in Nat
  /\ MaxIterations \in Nat
  /\ MaxToolCalls \in Nat
  /\ MaxBatch \in Nat \ {0}
  /\ MaxTools \in Nat

VARIABLES
  tools,      \* a.tools
  groups,     \* a.activeGroups
  session,    \* the session of each turn
  stage,
  asks,       \* callCount
  used,       \* cumulativeToolCalls
  left,       \* the calls of the answer still to be processed
  offered,    \* the tools of the last request to the LLM
  saved,      \* savedTools
  picked,     \* history: the groups the turn has activated itself
  raced,      \* history: turns that were open with another one of their session
  disturbed   \* history: a.tools was written while a synthesis had put it aside

shared == <<tools, groups>>
history == <<picked, raced, disturbed>>
vars == <<shared, session, stage, asks, used, left, offered, saved, history>>

Tool == Skill \X Group
Meta == <<"meta", "tools">>

Stage == {"new", "queued", "loop", "asked", "acting", "synthesis", "wrapup",
          "answered", "failed"}

TypeOK ==
  /\ tools \in Seq(Skill)
  /\ groups \in [Session -> SUBSET Tool]
  /\ session \in [Turn -> Session]
  /\ stage \in [Turn -> Stage]
  /\ asks \in [Turn -> 0 .. MaxIterations]
  /\ used \in [Turn -> 0 .. MaxToolCalls + MaxBatch]
  /\ left \in [Turn -> 0 .. MaxBatch]
  /\ offered \in [Turn -> SUBSET (Tool \cup {Meta})]
  /\ saved \in [Turn -> Seq(Skill)]
  /\ picked \in [Turn -> SUBSET Tool]
  /\ raced \in SUBSET Turn
  /\ disturbed \in BOOLEAN

Init ==
  /\ tools \in {s \in [1 .. Cardinality(Boot) -> Boot] : \A k \in Boot : \E i \in DOMAIN s : s[i] = k}
  /\ groups = [s \in Session |-> {}]
  /\ session \in [Turn -> Session]
  /\ stage = [t \in Turn |-> "new"]
  /\ asks = [t \in Turn |-> 0]
  /\ used = [t \in Turn |-> 0]
  /\ left = [t \in Turn |-> 0]
  /\ offered = [t \in Turn |-> {}]
  /\ saved = [t \in Turn |-> <<>>]
  /\ picked = [t \in Turn |-> {}]
  /\ raced = {}
  /\ disturbed = FALSE
-----------------------------------------------------------------------------
Goto(t, there) == stage' = [stage EXCEPT ![t] = there]

Closed(t) == stage[t] \in {"new", "answered", "failed"}

Holds(t) == ~Closed(t) /\ stage[t] # "queued"

Synthesizing(t) == stage[t] \in {"synthesis", "wrapup"}

\* The other turns of the session that are under way.
Companions(t) == {u \in Turn \ {t} : session[u] = session[t] /\ ~Closed(u)}

InList(list) == {list[i] : i \in DOMAIN list}

needsGroupManagement == Len(tools) > Threshold

ToolsForRequest(s) ==
  IF needsGroupManagement THEN {Meta} \cup groups[s] ELSE InList(tools) \X Group

\* Bug: the groups of every session go.
ResetAllGroups(s) == groups' = [x \in Session |-> {}]

ResetGroupSelection(s) == groups' = [groups EXCEPT ![s] = {}]

\* Bug: a turn that fails keeps the lock.
LockLeaks(t) ==
  \A u \in Turn \ {t} : session[u] = session[t] => stage[u] \in {"new", "queued", "answered"}

TurnLockFree(t) == \A u \in Companions(t) : ~Holds(u)
-----------------------------------------------------------------------------
\* runExecutionLoop up to the turn lock.
Arrive(t) ==
  /\ stage[t] = "new"
  /\ ResetGroupSelection(session[t])
  /\ Goto(t, "queued")
  /\ raced' = IF Companions(t) = {} THEN raced ELSE raced \cup {t} \cup Companions(t)
  /\ UNCHANGED <<tools, session, asks, used, left, offered, saved, picked, disturbed>>

TakeTurn(t) ==
  /\ stage[t] = "queued"
  /\ TurnLockFree(t)
  /\ Goto(t, "loop")
  /\ UNCHANGED <<shared, session, asks, used, left, offered, saved, history>>

\* The request's five minutes are over, or the agent is stopped.
Cancel(t) ==
  /\ stage[t] = "loop"
  /\ Goto(t, "failed")
  /\ UNCHANGED <<shared, session, asks, used, left, offered, saved, history>>

AskLLM(t) ==
  /\ stage[t] = "loop"
  /\ asks[t] < MaxIterations
  /\ asks' = [asks EXCEPT ![t] = @ + 1]
  /\ offered' = [offered EXCEPT ![t] = ToolsForRequest(session[t])]
  /\ Goto(t, "asked")
  /\ UNCHANGED <<shared, session, used, left, saved, history>>

LLMFails(t) ==
  /\ stage[t] = "asked"
  /\ Goto(t, "failed")
  /\ UNCHANGED <<shared, session, asks, used, left, offered, saved, history>>

FinalAnswer(t) ==
  /\ stage[t] = "asked"
  /\ Goto(t, "answered")
  /\ UNCHANGED <<shared, session, asks, used, left, offered, saved, history>>

\* The answer has n tool calls, and the limit allows them.
CallTools(t) ==
  /\ stage[t] = "asked"
  /\ \E n \in 1 .. MaxBatch :
       /\ used[t] + n <= MaxToolCalls
       /\ used' = [used EXCEPT ![t] = @ + n]
       /\ left' = [left EXCEPT ![t] = n]
  /\ Goto(t, "acting")
  /\ UNCHANGED <<shared, session, asks, offered, saved, history>>

\* synthesizeFromContext up to its call: the tools of the agent are put aside.
PutToolsAside(t) ==
  /\ saved' = [saved EXCEPT ![t] = tools]
  /\ tools' = <<>>
  /\ disturbed' = (disturbed \/ \E u \in Turn \ {t} : Synthesizing(u))
  /\ Goto(t, "synthesis")

OutOfIterations(t) ==
  /\ stage[t] = "loop"
  /\ asks[t] = MaxIterations
  /\ PutToolsAside(t)
  /\ UNCHANGED <<groups, session, asks, used, left, offered, picked, raced>>

OutOfCalls(t) ==
  /\ stage[t] = "asked"
  /\ \E n \in 1 .. MaxBatch :
       /\ used[t] + n > MaxToolCalls
       /\ used' = [used EXCEPT ![t] = @ + n]
  /\ PutToolsAside(t)
  /\ UNCHANGED <<groups, session, asks, left, offered, picked, raced>>

\* One call of the answer is done; after the last one the loop goes on.
NextCall(t) ==
  /\ stage[t] = "acting"
  /\ left' = [left EXCEPT ![t] = @ - 1]
  /\ Goto(t, IF left[t] = 1 THEN "loop" ELSE "acting")

handleActivateGroups(t) ==
  /\ NextCall(t)
  /\ \E chosen \in (SUBSET (Boot \X Group)) \ {{}} :
       /\ groups' = [groups EXCEPT ![session[t]] = chosen]
       /\ picked' = [picked EXCEPT ![t] = chosen]
  /\ UNCHANGED <<tools, session, asks, used, offered, saved, raced, disturbed>>

\* find_skill: the tools are listed, the skill itself is not attached.
handleFindSkill(t) ==
  /\ NextCall(t)
  /\ Len(tools) < MaxTools
  /\ \E k \in Skill : tools' = Append(tools, k)
  /\ disturbed' = (disturbed \/ \E u \in Turn : Synthesizing(u))
  /\ UNCHANGED <<groups, session, asks, used, offered, saved, picked, raced>>

\* Any other call, and a call that fails: the turn goes on with its result.
requestToolCall(t) ==
  /\ NextCall(t)
  /\ UNCHANGED <<shared, session, asks, used, offered, saved, history>>

\* A result that cannot be encoded ends the turn.
ResultUnusable(t) ==
  /\ stage[t] = "acting"
  /\ Goto(t, "failed")
  /\ UNCHANGED <<shared, session, asks, used, left, offered, saved, history>>

LastCall(t) ==
  /\ stage[t] = "synthesis"
  /\ offered' = [offered EXCEPT ![t] = ToolsForRequest(session[t])]
  /\ Goto(t, "wrapup")
  /\ UNCHANGED <<shared, session, asks, used, left, saved, history>>

\* Bug: the tools come back only with an answer.
BackWithAnAnswer(t) ==
  /\ stage[t] = "wrapup"
  /\ \/ Goto(t, "answered") /\ tools' = saved[t]
     \/ Goto(t, "failed") /\ UNCHANGED tools
  /\ UNCHANGED <<groups, session, asks, used, left, offered, saved, history>>

EndSynthesis(t) ==
  /\ stage[t] = "wrapup"
  /\ Goto(t, "answered") \/ Goto(t, "failed")
  /\ tools' = saved[t]
  /\ UNCHANGED <<groups, session, asks, used, left, offered, saved, history>>

Step(t) ==
  \/ TakeTurn(t) \/ AskLLM(t) \/ OutOfIterations(t)
  \/ LLMFails(t) \/ FinalAnswer(t) \/ CallTools(t) \/ OutOfCalls(t)
  \/ handleActivateGroups(t) \/ handleFindSkill(t) \/ requestToolCall(t)
  \/ ResultUnusable(t) \/ LastCall(t) \/ EndSynthesis(t)

Next == \E t \in Turn : Arrive(t) \/ Cancel(t) \/ Step(t)

\* The goroutine of a turn runs; the lock of a session serves those who wait.
Fairness == \A t \in Turn : WF_vars(Step(t)) /\ SF_vars(TakeTurn(t))

Spec == Init /\ [][Next]_vars /\ Fairness
-----------------------------------------------------------------------------
\* A synthesis takes the tools away from the whole agent and gives them back
\* (execution.go:264-267).  When none is under way the agent has the tools it
\* was given at boot, unless two of them, or one and find_skill, overlapped.
ToolsComeBack ==
  (~disturbed /\ \A t \in Turn : ~Synthesizing(t)) => Boot \subseteq InList(tools)

\* A turn plans for itself: the active groups of its session are those it has
\* activated, none when it starts, as long as it is alone in its session.
\* Groups are reset before the turn lock is taken (execution.go:49).
GroupsFollowTheTurn ==
  \A t \in Turn : (Holds(t) /\ t \notin raced) => groups[session[t]] = picked[t]

\* Whatever the LLM answers, the limits on calls bring a turn to its end.
TurnsEnd == \A t \in Turn : stage[t] = "queued" ~> stage[t] \in {"answered", "failed"}
==============================================================================
