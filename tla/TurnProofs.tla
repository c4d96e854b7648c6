----------------------------- MODULE TurnProofs -----------------------------
(***************************************************************************)
(* What holds of an agent's turns, of the streams its answers come in, of  *)
(* the files that go through it and of the reminders it keeps, for all     *)
(* sets of turns, sessions, skills, groups, calls, files and reminders,    *)
(* and all limits on calls, iterations, tools and chunks.                  *)
(***************************************************************************)
EXTENDS AgentTurns, LLMStream, Attachments, Reminders, TLAPS, FiniteSetTheorems, WellFoundedInduction,
        SequenceTheorems

USE TurnsAssumption

\* What is in a list after something was appended: what was in it, and that.
LEMMA InAppended ==
  ASSUME NEW S, NEW list \in Seq(S), NEW x \in S
  PROVE  InList(list) \subseteq InList(Append(list, x))
<1>1. \A i \in DOMAIN list : i \in DOMAIN Append(list, x) /\ Append(list, x)[i] = list[i]
  OBVIOUS
<1> QED
  BY <1>1 DEF InList

LEMMA InListType ==
  ASSUME NEW S, NEW list \in Seq(S)
  PROVE  InList(list) \subseteq S
BY DEF InList

\* A request carries tools, the activated groups or the one that lists them.
LEMMA RequestType ==
  ASSUME TypeOK, NEW s \in Session
  PROVE  ToolsForRequest(s) \in SUBSET (Tool \cup {Meta})
<1>1. InList(tools) \X Group \subseteq Tool
  BY InListType DEF TypeOK, Tool
<1> QED
  BY <1>1 DEF TypeOK, ToolsForRequest

\* The cases of a step.
LEMMA TurnSteps ==
  ASSUME Next
  PROVE  \E t \in Turn :
           \/ Arrive(t) \/ Cancel(t) \/ TakeTurn(t) \/ AskLLM(t) \/ OutOfIterations(t)
           \/ LLMFails(t) \/ FinalAnswer(t) \/ CallTools(t) \/ OutOfCalls(t)
           \/ handleActivateGroups(t) \/ handleFindSkill(t) \/ requestToolCall(t)
           \/ ResultUnusable(t) \/ LastCall(t) \/ EndSynthesis(t)
BY DEF Next, Step
-----------------------------------------------------------------------------
\* The counts of a turn in each stage: a turn that acts has calls left, and one
\* that may still ask has not reached the limit on calls.
Counts ==
  \A t \in Turn :
    /\ stage[t] = "acting" => left[t] # 0
    /\ stage[t] \in {"new", "queued", "loop", "asked", "acting"} => used[t] <= MaxToolCalls

TurnTypes == TypeOK /\ Counts

\* The variables have their types when the agent is made.
LEMMA TypeInit == Init => TurnTypes
<1> SUFFICES ASSUME Init PROVE TurnTypes
  OBVIOUS
<1> USE DEF Init
<1>1. Cardinality(Boot) \in Nat
  BY FS_CardinalityType
<1>2. tools \in Seq(Skill)
  BY <1>1
<1>3. stage \in [Turn -> Stage] /\ groups \in [Session -> SUBSET Tool]
  BY DEF Stage
<1>4. asks \in [Turn -> 0 .. MaxIterations] /\ left \in [Turn -> 0 .. MaxBatch]
  OBVIOUS
<1>5. used \in [Turn -> 0 .. MaxToolCalls + MaxBatch]
  OBVIOUS
<1>6. saved \in [Turn -> Seq(Skill)]
  OBVIOUS
<1>7. offered \in [Turn -> SUBSET (Tool \cup {Meta})] /\ picked \in [Turn -> SUBSET Tool]
  OBVIOUS
<1>8. Counts
  BY DEF Counts
<1> QED
  BY <1>2, <1>3, <1>4, <1>5, <1>6, <1>7, <1>8 DEF TurnTypes, TypeOK

\* A turn goes to another stage.
LEMMA GotoTypes ==
  ASSUME TypeOK, NEW t \in Turn, NEW there \in Stage, Goto(t, there)
  PROVE  /\ stage' \in [Turn -> Stage]
         /\ stage'[t] = there
         /\ \A u \in Turn \ {t} : stage'[u] = stage[u]
BY DEF TypeOK, Goto

\* A stage and a count of calls after one call of an answer.
LEMMA CallDone ==
  ASSUME TurnTypes, NEW t \in Turn, NextCall(t), UNCHANGED used
  PROVE  /\ stage' \in [Turn -> Stage]
         /\ left' \in [Turn -> 0 .. MaxBatch]
         /\ stage'[t] \in {"loop", "acting"}
         /\ \A u \in Turn \ {t} : stage'[u] = stage[u]
         /\ Counts'
<1>1. left[t] \in 1 .. MaxBatch
  BY DEF NextCall, TurnTypes, TypeOK, Counts
<1>2. /\ stage' \in [Turn -> Stage]
      /\ stage'[t] = IF left[t] = 1 THEN "loop" ELSE "acting"
      /\ \A u \in Turn \ {t} : stage'[u] = stage[u]
  BY DEF TurnTypes, TypeOK, NextCall, Goto, Stage
<1>3. /\ left' \in [Turn -> 0 .. MaxBatch]
      /\ left'[t] = left[t] - 1
      /\ \A u \in Turn \ {t} : left'[u] = left[u]
  BY <1>1 DEF TurnTypes, TypeOK, NextCall
<1>4. stage[t] = "acting"
  BY DEF NextCall
<1>5. Counts'
  BY <1>1, <1>2, <1>3, <1>4 DEF TurnTypes, Counts
<1> QED
  BY <1>2, <1>3, <1>5

LEMMA TypeNext == TurnTypes /\ [Next]_vars => TurnTypes'
<1> SUFFICES ASSUME TurnTypes, [Next]_vars PROVE TurnTypes'
  OBVIOUS
<1> USE DEF TurnTypes, shared, history
<1>0. TypeOK /\ Counts
  OBVIOUS
<1>1. ASSUME NEW t \in Turn, Arrive(t) PROVE TurnTypes'
  BY <1>1, GotoTypes DEF Arrive, ResetGroupSelection, Companions, TypeOK, Counts, Stage
<1>2. ASSUME NEW t \in Turn, TakeTurn(t) PROVE TurnTypes'
  BY <1>2, GotoTypes DEF TakeTurn, TypeOK, Counts, Stage
<1>3. ASSUME NEW t \in Turn, Cancel(t) PROVE TurnTypes'
  BY <1>3, GotoTypes DEF Cancel, TypeOK, Counts, Stage
<1>4. ASSUME NEW t \in Turn, AskLLM(t) PROVE TurnTypes'
  <2>1. /\ stage' \in [Turn -> Stage] /\ stage'[t] = "asked"
        /\ \A u \in Turn \ {t} : stage'[u] = stage[u]
    BY <1>4, GotoTypes DEF AskLLM, Stage
  <2>2. offered' \in [Turn -> SUBSET (Tool \cup {Meta})]
    BY <1>4, RequestType DEF AskLLM, TypeOK
  <2>3. asks' \in [Turn -> 0 .. MaxIterations]
    BY <1>4 DEF AskLLM, TypeOK
  <2>4. UNCHANGED <<tools, groups, session, used, left, saved, picked, raced, disturbed>>
    BY <1>4 DEF AskLLM
  <2>5. Counts'
    BY <1>4, <2>1, <2>4 DEF AskLLM, Counts
  <2> QED
    BY <2>1, <2>2, <2>3, <2>4, <2>5 DEF TypeOK
<1>5. ASSUME NEW t \in Turn, LLMFails(t) \/ FinalAnswer(t) PROVE TurnTypes'
  BY <1>5, GotoTypes DEF LLMFails, FinalAnswer, TypeOK, Counts, Stage
<1>6. ASSUME NEW t \in Turn, CallTools(t) PROVE TurnTypes'
  <2>1. /\ stage' \in [Turn -> Stage] /\ stage'[t] = "acting"
        /\ \A u \in Turn \ {t} : stage'[u] = stage[u]
    BY <1>6, GotoTypes DEF CallTools, Stage
  <2>2. UNCHANGED <<tools, groups, session, asks, offered, saved, picked, raced, disturbed>>
    BY <1>6 DEF CallTools
  <2>3. PICK n \in 1 .. MaxBatch :
          /\ used[t] + n <= MaxToolCalls
          /\ used' = [used EXCEPT ![t] = @ + n]
          /\ left' = [left EXCEPT ![t] = n]
    BY <1>6 DEF CallTools
  <2>4. used' \in [Turn -> 0 .. MaxToolCalls + MaxBatch] /\ left' \in [Turn -> 0 .. MaxBatch]
    BY <2>3 DEF TypeOK
  <2>5. Counts'
    BY <2>1, <2>3 DEF Counts, TypeOK
  <2> QED
    BY <2>1, <2>2, <2>4, <2>5 DEF TypeOK
<1>7. ASSUME NEW t \in Turn, OutOfIterations(t) PROVE TurnTypes'
  BY <1>7, GotoTypes DEF OutOfIterations, PutToolsAside, TypeOK, Counts, Stage
<1>8. ASSUME NEW t \in Turn, OutOfCalls(t) PROVE TurnTypes'
  <2>1. /\ stage' \in [Turn -> Stage] /\ stage'[t] = "synthesis"
        /\ \A u \in Turn \ {t} : stage'[u] = stage[u]
    BY <1>8, GotoTypes DEF OutOfCalls, PutToolsAside, Stage
  <2>2. UNCHANGED <<groups, session, asks, left, offered, picked, raced>>
    BY <1>8 DEF OutOfCalls
  <2>3. PICK n \in 1 .. MaxBatch : used' = [used EXCEPT ![t] = @ + n]
    BY <1>8 DEF OutOfCalls
  <2>4. used[t] <= MaxToolCalls
    BY <1>8 DEF OutOfCalls, Counts
  <2>5. used' \in [Turn -> 0 .. MaxToolCalls + MaxBatch]
    BY <2>3, <2>4 DEF TypeOK
  <2>6. Counts'
    BY <2>1, <2>2, <2>3 DEF Counts, TypeOK
  <2>7. tools' \in Seq(Skill) /\ saved' \in [Turn -> Seq(Skill)] /\ disturbed' \in BOOLEAN
    BY <1>8 DEF OutOfCalls, PutToolsAside, TypeOK
  <2> QED
    BY <2>1, <2>2, <2>5, <2>6, <2>7 DEF TypeOK
<1>9. ASSUME NEW t \in Turn, handleActivateGroups(t) PROVE TurnTypes'
  <2>1. NextCall(t) /\ UNCHANGED <<tools, session, asks, used, offered, saved, raced, disturbed>>
    BY <1>9 DEF handleActivateGroups
  <2>2. PICK chosen \in SUBSET (Boot \X Group) :
          groups' = [groups EXCEPT ![session[t]] = chosen] /\ picked' = [picked EXCEPT ![t] = chosen]
    BY <1>9 DEF handleActivateGroups
  <2>3. chosen \in SUBSET Tool
    BY DEF Tool
  <2> QED
    BY <2>1, <2>2, <2>3, CallDone DEF TypeOK
<1>10. ASSUME NEW t \in Turn, handleFindSkill(t) PROVE TurnTypes'
  <2>1. NextCall(t) /\ UNCHANGED <<groups, session, asks, used, offered, saved, picked, raced>>
    BY <1>10 DEF handleFindSkill
  <2>2. tools' \in Seq(Skill) /\ disturbed' \in BOOLEAN
    BY <1>10 DEF handleFindSkill, TypeOK
  <2> QED
    BY <2>1, <2>2, CallDone DEF TypeOK
<1>11. ASSUME NEW t \in Turn, requestToolCall(t) PROVE TurnTypes'
  BY <1>11, CallDone DEF requestToolCall, TypeOK
<1>12. ASSUME NEW t \in Turn, ResultUnusable(t) PROVE TurnTypes'
  BY <1>12, GotoTypes DEF ResultUnusable, TypeOK, Counts, Stage
<1>13. ASSUME NEW t \in Turn, LastCall(t) PROVE TurnTypes'
  BY <1>13, GotoTypes, RequestType DEF LastCall, TypeOK, Counts, Stage
<1>14. ASSUME NEW t \in Turn, EndSynthesis(t) PROVE TurnTypes'
  BY <1>14, GotoTypes DEF EndSynthesis, TypeOK, Counts, Stage
<1>15. CASE UNCHANGED vars
  BY <1>15 DEF vars, TypeOK, Counts
<1> QED
  BY <1>1, <1>2, <1>3, <1>4, <1>5, <1>6, <1>7, <1>8, <1>9, <1>10, <1>11, <1>12, <1>13, <1>14,
     <1>15, TurnSteps

\* Every variable of the execution loop keeps its type.
THEOREM TypeCorrect == Spec => []TypeOK
<1>1. TurnTypes => TypeOK
  BY DEF TurnTypes
<1> QED
  BY <1>1, TypeInit, TypeNext, PTL DEF Spec
-----------------------------------------------------------------------------
\* A turn that was not in synthesis before a step and is not the one that
\* takes it, is not in it after; so for what changes no stage but its own.
LEMMA OnlyGoes ==
  ASSUME TypeOK, NEW t \in Turn, NEW there \in Stage, Goto(t, there)
  PROVE  /\ \A u \in Turn \ {t} : Synthesizing(u)' <=> Synthesizing(u)
         /\ Synthesizing(t)' <=> there \in {"synthesis", "wrapup"}
BY GotoTypes DEF Synthesizing

\* What the tools are while a synthesis has put them aside, and that there is
\* only one then.
ToolsAreKept ==
  \/ disturbed
  \/ /\ (\A t \in Turn : ~Synthesizing(t)) => Boot \subseteq InList(tools)
     /\ \A t \in Turn : Synthesizing(t) => Boot \subseteq InList(saved[t])
     /\ \A t, u \in Turn : Synthesizing(t) /\ Synthesizing(u) => t = u

\* A turn outside synthesis that stays outside, and leaves the list as it is.
LEMMA ToolsUntouched ==
  ASSUME TypeOK, ToolsAreKept, NEW t \in Turn, NEW there \in Stage, Goto(t, there),
         Synthesizing(t) <=> there \in {"synthesis", "wrapup"},
         UNCHANGED <<tools, saved, disturbed>>
  PROVE  ToolsAreKept'
<1>1. \A u \in Turn : Synthesizing(u)' <=> Synthesizing(u)
  BY OnlyGoes
<1> QED
  BY <1>1 DEF ToolsAreKept

\* The tools are put aside: whole, unless another synthesis has them.
LEMMA ToolsPutAside ==
  ASSUME TypeOK, ToolsAreKept, NEW t \in Turn, ~Synthesizing(t), PutToolsAside(t)
  PROVE  ToolsAreKept'
<1> SUFFICES ASSUME ~disturbed'
             PROVE  /\ \A u \in Turn : Synthesizing(u)' => Boot \subseteq InList(saved'[u])
                    /\ \A u, v \in Turn : Synthesizing(u)' /\ Synthesizing(v)' => u = v
                    /\ \E u \in Turn : Synthesizing(u)'
  BY DEF ToolsAreKept
<1>1. ~disturbed /\ \A u \in Turn : ~Synthesizing(u)
  BY DEF PutToolsAside
<1>2. Boot \subseteq InList(tools)
  BY <1>1 DEF ToolsAreKept
<1>3. Synthesizing(t)' /\ \A u \in Turn \ {t} : ~Synthesizing(u)'
  BY <1>1, OnlyGoes DEF PutToolsAside, Stage
<1>4. saved'[t] = tools
  BY DEF PutToolsAside, TypeOK
<1> QED
  BY <1>2, <1>3, <1>4

\* One call of an answer changes no other stage and starts no synthesis.
LEMMA CallStays ==
  ASSUME TypeOK, NEW t \in Turn, NextCall(t)
  PROVE  \A u \in Turn : Synthesizing(u)' <=> Synthesizing(u)
<1>1. \E there \in {"loop", "acting"} : Goto(t, there)
  BY DEF NextCall
<1>2. ~Synthesizing(t)
  BY DEF NextCall, Synthesizing
<1> QED
  BY <1>1, <1>2, OnlyGoes DEF Stage

LEMMA ToolsNext == TurnTypes /\ ToolsAreKept /\ [Next]_vars => ToolsAreKept'
<1> SUFFICES ASSUME TypeOK, ToolsAreKept, [Next]_vars PROVE ToolsAreKept'
  BY DEF TurnTypes
<1> USE DEF shared, history
<1>1. ASSUME NEW t \in Turn, Arrive(t) PROVE ToolsAreKept'
  BY <1>1, ToolsUntouched DEF Arrive, Stage, Synthesizing
<1>2. ASSUME NEW t \in Turn, TakeTurn(t) \/ Cancel(t) \/ AskLLM(t) PROVE ToolsAreKept'
  BY <1>2, ToolsUntouched DEF TakeTurn, Cancel, AskLLM, Stage, Synthesizing
<1>3. ASSUME NEW t \in Turn, LLMFails(t) \/ FinalAnswer(t) \/ CallTools(t) PROVE ToolsAreKept'
  BY <1>3, ToolsUntouched DEF LLMFails, FinalAnswer, CallTools, Stage, Synthesizing
<1>4. ASSUME NEW t \in Turn, ResultUnusable(t) \/ LastCall(t) PROVE ToolsAreKept'
  BY <1>4, ToolsUntouched DEF ResultUnusable, LastCall, Stage, Synthesizing
<1>5. ASSUME NEW t \in Turn, OutOfIterations(t) \/ OutOfCalls(t) PROVE ToolsAreKept'
  <2>1. PutToolsAside(t) /\ ~Synthesizing(t)
    BY <1>5 DEF OutOfIterations, OutOfCalls, Synthesizing
  <2> QED
    BY <2>1, ToolsPutAside
<1>6. ASSUME NEW t \in Turn, handleActivateGroups(t) \/ requestToolCall(t) PROVE ToolsAreKept'
  <2>1. NextCall(t) /\ UNCHANGED <<tools, saved, disturbed>>
    BY <1>6 DEF handleActivateGroups, requestToolCall
  <2> QED
    BY <2>1, CallStays DEF ToolsAreKept
<1>7. ASSUME NEW t \in Turn, handleFindSkill(t) PROVE ToolsAreKept'
  <2> SUFFICES ASSUME ~disturbed' PROVE ToolsAreKept'
    BY DEF ToolsAreKept
  <2>1. ~disturbed /\ \A u \in Turn : ~Synthesizing(u)
    BY <1>7 DEF handleFindSkill
  <2>2. \A u \in Turn : ~Synthesizing(u)'
    BY <1>7, <2>1, CallStays DEF handleFindSkill
  <2>3. PICK k \in Skill : tools' = Append(tools, k)
    BY <1>7 DEF handleFindSkill
  <2>4. InList(tools) \subseteq InList(tools')
    BY <2>3, InAppended DEF TypeOK
  <2> QED
    BY <2>1, <2>2, <2>4 DEF ToolsAreKept
<1>8. ASSUME NEW t \in Turn, EndSynthesis(t) PROVE ToolsAreKept'
  <2> SUFFICES ASSUME ~disturbed PROVE ToolsAreKept'
    BY <1>8 DEF ToolsAreKept, EndSynthesis
  <2>1. Synthesizing(t) /\ Boot \subseteq InList(saved[t])
    BY <1>8 DEF EndSynthesis, Synthesizing, ToolsAreKept
  <2>2. \A u \in Turn \ {t} : ~Synthesizing(u)
    BY <2>1 DEF ToolsAreKept
  <2>3. \A u \in Turn : ~Synthesizing(u)'
    BY <1>8, <2>2, OnlyGoes DEF EndSynthesis, Stage
  <2>4. tools' = saved[t]
    BY <1>8 DEF EndSynthesis
  <2> QED
    BY <2>1, <2>3, <2>4 DEF ToolsAreKept
<1>9. CASE UNCHANGED vars
  BY <1>9 DEF vars, ToolsAreKept, Synthesizing
<1> QED
  BY <1>1, <1>2, <1>3, <1>4, <1>5, <1>6, <1>7, <1>8, <1>9, TurnSteps

\* A synthesis gives the agent its tools back: when none is under way the agent
\* has the tools it was given at boot, unless two of them, or one and
\* find_skill, overlapped.
THEOREM ToolsAreGivenBack == Spec => []ToolsComeBack
<1>1. Init => ToolsAreKept
  <2> SUFFICES ASSUME Init PROVE Boot \subseteq InList(tools) /\ \A t \in Turn : ~Synthesizing(t)
    BY DEF ToolsAreKept
  <2> QED
    BY DEF Init, InList, Synthesizing
<1>2. ToolsAreKept => ToolsComeBack
  BY DEF ToolsAreKept, ToolsComeBack
<1> QED
  BY <1>1, <1>2, TypeInit, TypeNext, ToolsNext, PTL DEF Spec
-----------------------------------------------------------------------------
\* A turn that was always alone in its session still is, and the groups of the
\* session are its own.
AloneInSession ==
  \A t \in Turn :
    /\ stage[t] \in {"new", "queued"} => picked[t] = {}
    /\ (~Closed(t) /\ t \notin raced) => Companions(t) = {} /\ groups[session[t]] = picked[t]

\* A turn that goes on or ends, and chooses no groups.
LEMMA AloneUntouched ==
  ASSUME TypeOK, AloneInSession, NEW t \in Turn, NEW there \in Stage \ {"new", "queued"},
         ~Closed(t), Goto(t, there), UNCHANGED <<groups, session, picked, raced>>
  PROVE  AloneInSession'
<1>1. \A u \in Turn : /\ Closed(u) => Closed(u)'
                      /\ stage'[u] \in {"new", "queued"} => stage[u] = stage'[u]
  BY GotoTypes DEF Closed, TypeOK
<1>2. \A u \in Turn : Companions(u)' \subseteq Companions(u)
  BY <1>1 DEF Companions
<1> SUFFICES ASSUME NEW u \in Turn
             PROVE  /\ stage'[u] \in {"new", "queued"} => picked[u] = {}
                    /\ (~Closed(u)' /\ u \notin raced) =>
                         Companions(u)' = {} /\ groups[session[u]] = picked[u]
  BY DEF AloneInSession
<1>3. /\ stage[u] \in {"new", "queued"} => picked[u] = {}
      /\ (~Closed(u) /\ u \notin raced) => Companions(u) = {} /\ groups[session[u]] = picked[u]
  BY DEF AloneInSession
<1> QED
  BY <1>1, <1>2, <1>3

\* A new turn resets the groups of its session; if it has companions none of
\* them is alone any more.
LEMMA AloneArrive ==
  ASSUME TypeOK, AloneInSession, NEW t \in Turn, Arrive(t)
  PROVE  AloneInSession'
<1>1. /\ stage[t] = "new" /\ stage' \in [Turn -> Stage] /\ stage'[t] = "queued"
      /\ \A u \in Turn \ {t} : stage'[u] = stage[u]
  BY GotoTypes DEF Arrive, Stage
<1>2. UNCHANGED <<session, picked>> /\ picked[t] = {}
  BY DEF Arrive, AloneInSession
<1>3. groups' = [groups EXCEPT ![session[t]] = {}] /\ session[t] \in Session
  BY DEF Arrive, ResetGroupSelection, TypeOK
<1>4. groups'[session[t]] = {} /\ \A s \in Session \ {session[t]} : groups'[s] = groups[s]
  BY <1>3 DEF TypeOK
<1>5. /\ raced \subseteq raced' /\ Companions(t) \subseteq raced'
      /\ Companions(t) # {} => t \in raced'
  BY DEF Arrive
<1>6. \A u \in Turn \ {t} : Closed(u)' <=> Closed(u)
  BY <1>1 DEF Closed
<1>7. Companions(t)' = Companions(t)
  BY <1>2, <1>6 DEF Companions
<1> SUFFICES ASSUME NEW u \in Turn
             PROVE  /\ stage'[u] \in {"new", "queued"} => picked'[u] = {}
                    /\ (~Closed(u)' /\ u \notin raced') =>
                         Companions(u)' = {} /\ groups'[session[u]] = picked'[u]
  BY <1>2 DEF AloneInSession
<1>8. stage'[u] \in {"new", "queued"} => picked'[u] = {}
  BY <1>1, <1>2 DEF AloneInSession
<1>9. ASSUME ~Closed(u)', u \notin raced' PROVE Companions(u)' = {} /\ groups'[session[u]] = picked'[u]
  <2>1. CASE u = t
    BY <2>1, <1>2, <1>4, <1>5, <1>7, <1>9
  <2>2. CASE u # t
    <3>1. ~Closed(u) /\ u \notin raced
      BY <1>5, <1>6, <1>9, <2>2
    <3>2. session[u] # session[t]
      BY <1>5, <1>9, <2>2, <3>1 DEF Companions
    <3>3. Companions(u) = {} /\ groups[session[u]] = picked[u]
      BY <3>1 DEF AloneInSession
    <3>4. Companions(u)' = {}
      BY <1>2, <1>6, <3>2, <3>3 DEF Companions
    <3> QED
      BY <1>2, <1>4, <3>2, <3>3, <3>4 DEF TypeOK
  <2> QED
    BY <2>1, <2>2
<1> QED
  BY <1>8, <1>9

\* A turn chooses groups: of its session, which is its own if it is alone.
LEMMA AloneChooses ==
  ASSUME TypeOK, AloneInSession, NEW t \in Turn, handleActivateGroups(t)
  PROVE  AloneInSession'
<1>1. PICK chosen \in SUBSET (Boot \X Group) :
        groups' = [groups EXCEPT ![session[t]] = chosen] /\ picked' = [picked EXCEPT ![t] = chosen]
  BY DEF handleActivateGroups
<1>2. /\ picked'[t] = chosen /\ \A u \in Turn \ {t} : picked'[u] = picked[u]
      /\ groups'[session[t]] = chosen
      /\ \A s \in Session \ {session[t]} : groups'[s] = groups[s]
  BY <1>1 DEF TypeOK
<1>3. PICK there \in {"loop", "acting"} : stage[t] = "acting" /\ Goto(t, there)
  BY DEF handleActivateGroups, NextCall
<1>4. /\ stage'[t] \notin {"new", "queued"} /\ ~Closed(t) /\ ~Closed(t)'
      /\ \A u \in Turn \ {t} : stage'[u] = stage[u]
  BY <1>3, GotoTypes DEF Closed, Stage
<1>5. \A u \in Turn : Closed(u)' <=> Closed(u)
  BY <1>4 DEF Closed
<1>6. UNCHANGED <<session, raced>>
  BY DEF handleActivateGroups
<1>7. \A u \in Turn : Companions(u)' = Companions(u)
  BY <1>5, <1>6 DEF Companions
<1> SUFFICES ASSUME NEW u \in Turn
             PROVE  /\ stage'[u] \in {"new", "queued"} => picked'[u] = {}
                    /\ (~Closed(u) /\ u \notin raced) =>
                         Companions(u) = {} /\ groups'[session[u]] = picked'[u]
  BY <1>5, <1>6, <1>7 DEF AloneInSession
<1>8. /\ stage[u] \in {"new", "queued"} => picked[u] = {}
      /\ (~Closed(u) /\ u \notin raced) => Companions(u) = {} /\ groups[session[u]] = picked[u]
  BY DEF AloneInSession
<1>9. CASE u = t
  BY <1>2, <1>4, <1>8, <1>9
<1>10. CASE u # t
  <2>1. stage'[u] \in {"new", "queued"} => picked'[u] = {}
    BY <1>2, <1>4, <1>8, <1>10
  <2>2. ASSUME ~Closed(u), u \notin raced
        PROVE  Companions(u) = {} /\ groups'[session[u]] = picked'[u]
    <3>1. session[u] # session[t]
      BY <1>4, <1>8, <1>10, <2>2 DEF Companions
    <3> QED
      BY <1>2, <1>8, <1>10, <2>2, <3>1 DEF TypeOK
  <2> QED
    BY <2>1, <2>2
<1> QED
  BY <1>9, <1>10

LEMMA AloneNext == TurnTypes /\ AloneInSession /\ [Next]_vars => AloneInSession'
<1> SUFFICES ASSUME TurnTypes, AloneInSession, [Next]_vars PROVE AloneInSession'
  OBVIOUS
<1> USE DEF shared, history
<1>0. TypeOK
  BY DEF TurnTypes
<1>1. ASSUME NEW t \in Turn, Arrive(t) PROVE AloneInSession'
  BY <1>0, <1>1, AloneArrive
<1>2. ASSUME NEW t \in Turn, handleActivateGroups(t) PROVE AloneInSession'
  BY <1>0, <1>2, AloneChooses
<1>3. ASSUME NEW t \in Turn, TakeTurn(t) \/ Cancel(t) \/ AskLLM(t) PROVE AloneInSession'
  BY <1>0, <1>3, AloneUntouched DEF TakeTurn, Cancel, AskLLM, Stage, Closed
<1>4. ASSUME NEW t \in Turn, LLMFails(t) \/ FinalAnswer(t) \/ CallTools(t) PROVE AloneInSession'
  BY <1>0, <1>4, AloneUntouched DEF LLMFails, FinalAnswer, CallTools, Stage, Closed
<1>5. ASSUME NEW t \in Turn, OutOfIterations(t) \/ OutOfCalls(t) PROVE AloneInSession'
  BY <1>0, <1>5, AloneUntouched DEF OutOfIterations, OutOfCalls, PutToolsAside, Stage, Closed
<1>6. ASSUME NEW t \in Turn, handleFindSkill(t) \/ requestToolCall(t) PROVE AloneInSession'
  <2>1. \E there \in {"loop", "acting"} : Goto(t, there)
    BY <1>6 DEF handleFindSkill, requestToolCall, NextCall
  <2>2. ~Closed(t) /\ UNCHANGED <<groups, session, picked, raced>>
    BY <1>6 DEF handleFindSkill, requestToolCall, NextCall, Closed
  <2> QED
    BY <1>0, <2>1, <2>2, AloneUntouched DEF Stage
<1>7. ASSUME NEW t \in Turn, ResultUnusable(t) \/ LastCall(t) \/ EndSynthesis(t) PROVE AloneInSession'
  BY <1>0, <1>7, AloneUntouched DEF ResultUnusable, LastCall, EndSynthesis, Stage, Closed
<1>8. CASE UNCHANGED vars
  BY <1>8 DEF vars, AloneInSession, Closed, Companions
<1> QED
  BY <1>1, <1>2, <1>3, <1>4, <1>5, <1>6, <1>7, <1>8, TurnSteps

\* The active groups of a session are those its turn has activated itself, as
\* long as the turn is alone in its session.
THEOREM GroupsAreTheTurns == Spec => []GroupsFollowTheTurn
<1>1. Init => AloneInSession
  BY DEF Init, AloneInSession, Closed
<1>2. AloneInSession => GroupsFollowTheTurn
  BY DEF AloneInSession, GroupsFollowTheTurn, Holds
<1> QED
  BY <1>1, <1>2, TypeInit, TypeNext, AloneNext, PTL DEF Spec
-----------------------------------------------------------------------------
\* The turn lock: two turns of one session never run at the same time.
OneTurnOfASession == \A t, u \in Turn : Holds(t) /\ Holds(u) /\ session[t] = session[u] => t = u

LEMMA OneTurnNext == TurnTypes /\ OneTurnOfASession /\ [Next]_vars => OneTurnOfASession'
<1> SUFFICES ASSUME TypeOK, OneTurnOfASession, [Next]_vars PROVE OneTurnOfASession'
  BY DEF TurnTypes
<1> USE DEF shared, history
<1>1. session' = session
  BY DEF Next, vars, Step, Arrive, Cancel, TakeTurn, AskLLM, OutOfIterations, LLMFails, FinalAnswer,
         CallTools, OutOfCalls, handleActivateGroups, handleFindSkill, requestToolCall,
         ResultUnusable, LastCall, EndSynthesis
<1>2. ASSUME NEW t \in Turn, TakeTurn(t) PROVE OneTurnOfASession'
  <2>1. \A u \in Turn \ {t} : session[u] = session[t] => ~Holds(u)
    BY <1>2 DEF TakeTurn, TurnLockFree, Companions, Holds
  <2>2. \A u \in Turn \ {t} : Holds(u)' <=> Holds(u)
    BY <1>2, GotoTypes DEF TakeTurn, Holds, Closed, Stage
  <2> QED
    BY <1>1, <2>1, <2>2 DEF OneTurnOfASession
<1>3. ASSUME \A u \in Turn : Holds(u)' => Holds(u) PROVE OneTurnOfASession'
  BY <1>1, <1>3 DEF OneTurnOfASession
<1>4. ASSUME NEW t \in Turn, NEW there \in Stage, Goto(t, there),
             Holds(t) \/ there = "queued"
      PROVE  \A u \in Turn : Holds(u)' => Holds(u)
  BY <1>4, GotoTypes DEF Holds, Closed
<1>5. ASSUME NEW t \in Turn,
             \/ Arrive(t) \/ Cancel(t) \/ AskLLM(t) \/ OutOfIterations(t) \/ LLMFails(t)
             \/ FinalAnswer(t) \/ CallTools(t) \/ OutOfCalls(t) \/ handleActivateGroups(t)
             \/ handleFindSkill(t) \/ requestToolCall(t) \/ ResultUnusable(t) \/ LastCall(t)
             \/ EndSynthesis(t)
      PROVE  \E there \in Stage : Goto(t, there) /\ (Holds(t) \/ there = "queued")
  BY <1>5 DEF Arrive, Cancel, AskLLM, OutOfIterations, LLMFails, FinalAnswer, CallTools, OutOfCalls,
         PutToolsAside, handleActivateGroups, handleFindSkill, requestToolCall, NextCall,
         ResultUnusable, LastCall, EndSynthesis, Holds, Closed, Stage
<1>6. CASE UNCHANGED vars
  BY <1>6 DEF vars, OneTurnOfASession, Holds, Closed
<1> QED
  BY <1>2, <1>3, <1>4, <1>5, <1>6, TurnSteps

\* In a session one turn at a time is in the loop, from the lock to its end.
THEOREM TurnsTakeTurns == Spec => []OneTurnOfASession
<1>1. Init => OneTurnOfASession
  BY DEF Init, OneTurnOfASession, Holds, Closed
<1> QED
  BY <1>1, TypeInit, TypeNext, OneTurnNext, PTL DEF Spec

-----------------------------------------------------------------------------
(* What a stream of an answer is put together to.                          *)

USE StreamAssumption

\* Of numbers that a well-founded relation orders by size there is a smallest.
LEMMA SmallestBelow ==
  ASSUME NEW R, IsWellFoundedOn(R, Nat), \A x, y \in Nat : <<y, x>> \in R <=> y < x,
         NEW T \in SUBSET Nat, T # {}
  PROVE  \E x \in T : \A y \in T : x <= y
<1>1. \E x \in T : \A y \in T : ~(<<y, x>> \in R)
  BY WFMin
<1>2. \A x, y \in T : ~(<<y, x>> \in R) => x <= y
  OBVIOUS
<1> QED
  BY <1>1, <1>2

\* Of natural numbers there is a smallest.
LEMMA Smallest ==
  ASSUME NEW T \in SUBSET Nat, T # {}
  PROVE  \E x \in T : \A y \in T : x <= y
<1> DEFINE R == OpToRel(<, Nat)
<1>1. IsWellFoundedOn(R, Nat)
  BY NatLessThanWellFounded
<1>2. \A x, y \in Nat : <<y, x>> \in R <=> y < x
  BY DEF OpToRel
<1> HIDE DEF R
<1> QED
  BY <1>1, <1>2, SmallestBelow

\* What was put together so far and the first of the calls of a chunk.
LEMMA AddCallNew ==
  ASSUME NEW b \in Seq(ToolCall), NEW tc, tc.id \notin Ids(b)
  PROVE  AddCall(b, tc) = Append(b, tc)
BY DEF AddCall

LEMMA FirstOnes ==
  ASSUME NEW S, NEW b \in Seq(S), NEW s \in Seq(S), NEW k \in 0 .. Len(s)
  PROVE  /\ b \o SubSeq(s, 1, k) \in Seq(S)
         /\ Len(b \o SubSeq(s, 1, k)) = Len(b) + k
         /\ \A i \in 1 .. Len(b) : (b \o SubSeq(s, 1, k))[i] = b[i]
         /\ \A i \in 1 .. k : (b \o SubSeq(s, 1, k))[Len(b) + i] = s[i]
<1>1. SubSeq(s, 1, k) \in Seq(S) /\ Len(SubSeq(s, 1, k)) = k
  OBVIOUS
<1>2. \A i \in 1 .. k : SubSeq(s, 1, k)[i] = s[i]
  OBVIOUS
<1> QED
  BY <1>1, <1>2

LEMMA OneMore ==
  ASSUME NEW S, NEW b \in Seq(S), NEW s \in Seq(S), NEW k \in 1 .. Len(s)
  PROVE  b \o SubSeq(s, 1, k) = Append(b \o SubSeq(s, 1, k - 1), s[k])
OBVIOUS

\* The calls of a chunk that are new come last, in their order.
LEMMA AddCallsNew ==
  ASSUME NEW b \in Seq(ToolCall), NEW calls \in Seq(ToolCall),
         \A i, j \in DOMAIN calls : calls[i].id = calls[j].id => i = j,
         \A i \in DOMAIN calls : calls[i].id \notin Ids(b)
  PROVE  AddCalls(b, calls) = b \o calls
<1> DEFINE Dom == 0 .. Len(calls)
           Grown(f) == [n \in Dom |-> IF n = 0 THEN b ELSE AddCall(f[n - 1], calls[n])]
           After == CHOOSE f : f = Grown(f)
           g == [n \in Dom |-> b \o SubSeq(calls, 1, n)]
<1>1. AddCalls(b, calls) = After[Len(calls)]
  BY DEF AddCalls
<1>2. g = Grown(g)
  <2>1. g[0] = b
    OBVIOUS
  <2>2. ASSUME NEW n \in 1 .. Len(calls)
        PROVE  g[n] = AddCall(g[n - 1], calls[n])
    <3>1. n - 1 \in 0 .. Len(calls) /\ g[n - 1] = b \o SubSeq(calls, 1, n - 1)
      OBVIOUS
    <3>2. g[n - 1] \in Seq(ToolCall)
      BY <3>1, FirstOnes
    <3>3. calls[n].id \notin Ids(g[n - 1])
      <4>1. SUFFICES ASSUME NEW i \in DOMAIN g[n - 1], g[n - 1][i].id = calls[n].id
                     PROVE  FALSE
        BY DEF Ids
      <4>2. i \in 1 .. Len(b) + (n - 1)
        BY <3>1, <3>2, FirstOnes
      <4>3. CASE i \in 1 .. Len(b)
        BY <4>1, <4>3, <3>1, FirstOnes DEF Ids
      <4>4. CASE i - Len(b) \in 1 .. n - 1
        <5>1. g[n - 1][i] = calls[i - Len(b)]
          <6>1. i = Len(b) + (i - Len(b))
            BY <4>2
          <6>2. \A m \in 1 .. n - 1 : g[n - 1][Len(b) + m] = calls[m]
            BY <3>1, FirstOnes
          <6> QED
            BY <6>1, <6>2, <4>4
        <5>2. i - Len(b) \in DOMAIN calls /\ n \in DOMAIN calls /\ i - Len(b) # n
          BY <4>4
        <5>3. calls[i - Len(b)].id = calls[n].id
          BY <5>1, <4>1
        <5> QED
          BY <5>2, <5>3
      <4> QED
        BY <4>2, <4>3, <4>4
    <3>4. AddCall(g[n - 1], calls[n]) = Append(g[n - 1], calls[n])
      BY <3>2, <3>3, AddCallNew
    <3>5. g[n] = Append(g[n - 1], calls[n])
      BY <3>1, OneMore
    <3> QED
      BY <3>4, <3>5
  <2>4. g = [n \in Dom |-> g[n]]
    OBVIOUS
  <2> HIDE DEF g
  <2>3. \A n \in Dom : g[n] = IF n = 0 THEN b ELSE AddCall(g[n - 1], calls[n])
    <3>1. \A n \in Dom : n = 0 \/ n \in 1 .. Len(calls)
      OBVIOUS
    <3> QED
      BY <2>1, <2>2, <3>1
  <2> QED
    BY <2>3, <2>4
<1>4. g[0] = b /\ \A n \in 1 .. Len(calls) : g[n] = AddCall(g[n - 1], calls[n])
  <2> HIDE DEF g
  <2>1. 0 \in Dom /\ \A n \in 1 .. Len(calls) : n \in Dom /\ n # 0
    OBVIOUS
  <2> HIDE DEF Dom
  <2> QED
    BY <1>2, <2>1
<1>6. g[Len(calls)] = b \o calls
  OBVIOUS
<1> HIDE DEF g
<1>3. After = Grown(After)
  <2> HIDE DEF Grown
  <2> QED
    BY <1>2
<1> HIDE DEF After
<1>5. After[0] = b /\ \A n \in 1 .. Len(calls) : After[n] = AddCall(After[n - 1], calls[n])
  BY <1>3
<1>7. \A n \in 0 .. Len(calls) : After[n] = g[n]
  <2> DEFINE bad == {n \in 0 .. Len(calls) : After[n] # g[n]}
  <2> SUFFICES ASSUME bad # {} PROVE FALSE
    OBVIOUS
  <2>1. bad \in SUBSET Nat
    OBVIOUS
  <2>2. PICK k \in bad : \A y \in bad : k <= y
    BY <2>1, Smallest
  <2>3. k \in 1 .. Len(calls)
    BY <1>4, <1>5
  <2>4. After[k - 1] = g[k - 1]
    <3>1. k - 1 \in 0 .. Len(calls) /\ ~(k <= k - 1)
      BY <2>3
    <3> QED
      BY <3>1, <2>2
  <2> QED
    BY <2>3, <2>4, <1>4, <1>5
<1> QED
  BY <1>1, <1>6, <1>7
\* The calls the provider has completed are all there: as they are or, of Gemini's
\* stream, in some order.
AllCalls(calls) ==
  IF provider = "gemini" /\ mode = "stream" THEN calls \in Orders(made) ELSE calls = made

\* A call is completed once.
CallsDiffer ==
  /\ \A i, j \in DOMAIN made : made[i].id = made[j].id => i = j
  /\ open # NoCall => provider # "gemini" /\ open.id \notin Ids(made)

\* Without streaming there are no chunks, and an answer comes at the end.
ChatFits ==
  /\ out = <<>>
  /\ reader = "reading" => heard = 0 /\ built = <<>>
  /\ reader # "reading" => source \in {"finishing", "closed"}
  /\ reader = "answered" => ~broken /\ heard = text /\ built = made

\* While the client reads, the agent has what was sent but for the one chunk on
\* its way; Gemini's calls all come at the end.
ReadingFits ==
  /\ ~broken /\ reader = "reading"
  /\ \/ /\ out = <<>> /\ heard = text
        /\ IF provider = "gemini" THEN built = <<>> ELSE built = made
     \/ /\ out = <<Text>> /\ heard + 1 = text
        /\ IF provider = "gemini" THEN built = <<>> ELSE built = made
     \/ /\ provider # "gemini" /\ heard = text
        /\ \E c \in ToolCall : out = <<Calls(<<c>>)>> /\ made = Append(built, c)

\* What comes last is an error, the end, or Gemini's calls and the end.
EndFitsStream ==
  IF broken
  THEN reader # "answered" /\ (reader = "reading" => out # <<>> /\ Head(out) = Error)
  ELSE /\ heard = text
       /\ \/ reader = "reading" /\ out = <<Done>> /\ AllCalls(built)
          \/ /\ reader = "reading" /\ provider = "gemini" /\ built = <<>>
             /\ \E s \in Orders(made) : out = <<Calls(s), Done>>
          \/ reader = "answered" /\ out = <<>> /\ AllCalls(built)

StreamInductive ==
  /\ StreamTypeOK /\ CallsDiffer
  /\ mode = "chat" => ChatFits
  /\ mode = "stream" /\ source \in {"asking", "reading"} => ReadingFits
  /\ mode = "stream" /\ source \in {"finishing", "closed"} => EndFitsStream

\* Gemini's calls come in any order, each once and none is left out.
LEMMA OrderedCalls ==
  ASSUME StreamTypeOK, CallsDiffer, NEW s \in Orders(made)
  PROVE  /\ s \in Seq(ToolCall)
         /\ Len(s) = Len(made)
         /\ ToSet(s) = ToSet(made)
         /\ AddCalls(<<>>, s) = s
<1> DEFINE n == Len(made)
           Dom == 1 .. n
           All == ToSet(made)
<1>1. /\ n \in Nat
      /\ made \in [Dom -> All]
      /\ s \in [Dom -> All]
      /\ \A t \in All : \E i \in Dom : s[i] = t
      /\ \A t \in All : \E i \in Dom : made[i] = t
      /\ \A i, j \in Dom : made[i].id = made[j].id => i = j
  <2>1. n \in Nat /\ DOMAIN made = Dom /\ made \in [Dom -> All]
    BY DEF StreamTypeOK, ToSet
  <2>2. s \in [Dom -> All] /\ ToSet(s) = All
    BY DEF Orders
  <2>3. DOMAIN s = Dom
    BY <2>2
  <2>4. \A t \in All : \E i \in Dom : s[i] = t
    BY <2>2, <2>3 DEF ToSet
  <2>5. \A t \in All : \E i \in Dom : made[i] = t
    BY <2>1 DEF ToSet
  <2> QED
    BY <2>1, <2>2, <2>4, <2>5 DEF CallsDiffer
<1>2. All \subseteq ToolCall
  BY DEF StreamTypeOK, ToSet
<1>3. s \in Seq(ToolCall) /\ Len(s) = n
  <2> HIDE DEF n, All
  <2>1. n \in Nat /\ s \in [1 .. n -> ToolCall]
    BY <1>1, <1>2
  <2> QED
    BY <2>1
<1>4. ToSet(s) = ToSet(made)
  BY DEF Orders
<1> HIDE DEF n, All
<1>5. IsFiniteSet(Dom)
  <2>1. 1 \in Int /\ n \in Int
    BY <1>1
  <2> QED
    BY <2>1, FS_Interval
<1> HIDE DEF Dom
<1>6. made \in Bijection(Dom, All)
  <2>1. \A i, j \in Dom : made[i] = made[j] => i = j
    BY <1>1
  <2> QED
    BY <1>1, <2>1 DEF Bijection, Injection, Surjection, IsInjective
<1>7. Cardinality(Dom) = Cardinality(All)
  BY <1>5, <1>6, FS_Bijection DEF ExistsBijection
<1>8. s \in Surjection(Dom, All)
  BY <1>1 DEF Surjection
<1>9. s \in Injection(Dom, All)
  BY <1>5, <1>7, <1>8, FS_SurjSameCardinalityImpliesInj
<1>10. \A i, j \in Dom : s[i].id = s[j].id => i = j
  <2> SUFFICES ASSUME NEW i \in Dom, NEW j \in Dom, s[i].id = s[j].id PROVE i = j
    OBVIOUS
  <2>1. PICK p \in Dom : s[i] = made[p]
    BY <1>1
  <2>2. PICK q \in Dom : s[j] = made[q]
    BY <1>1
  <2>3. p = q
    BY <2>1, <2>2, <1>1
  <2>4. s[i] = s[j]
    BY <2>1, <2>2, <2>3
  <2>5. \A k, m \in Dom : s[k] = s[m] => k = m
    BY <1>9 DEF Injection, IsInjective
  <2> QED
    BY <2>4, <2>5
<1>11. AddCalls(<<>>, s) = s
  <2>1. <<>> \in Seq(ToolCall) /\ <<>> \o s = s
    BY <1>3
  <2>2. \A i, j \in DOMAIN s : s[i].id = s[j].id => i = j
    BY <1>1, <1>10
  <2>3. \A i \in DOMAIN s : s[i].id \notin Ids(<<>>)
    BY DEF Ids
  <2>4. AddCalls(<<>>, s) = <<>> \o s
    BY <1>3, <2>1, <2>2, <2>3, AddCallsNew
  <2> QED
    BY <2>1, <2>4
<1> QED
  BY <1>3, <1>4, <1>11 DEF n

\* The calls of a chunk that has none, or one.
LEMMA AddNoCall ==
  ASSUME NEW b \in Seq(ToolCall)
  PROVE  AddCalls(b, <<>>) = b
<1>1. <<>> \in Seq(ToolCall) /\ b \o <<>> = b /\ DOMAIN <<>> = {}
  OBVIOUS
<1>2. AddCalls(b, <<>>) = b \o <<>>
  BY <1>1, AddCallsNew
<1> QED
  BY <1>1, <1>2

LEMMA AddOneCall ==
  ASSUME NEW b \in Seq(ToolCall), NEW c \in ToolCall, c.id \notin Ids(b)
  PROVE  AddCalls(b, <<c>>) = Append(b, c)
<1>1. <<c>> \in Seq(ToolCall) /\ b \o <<c>> = Append(b, c) /\ DOMAIN <<c>> = {1} /\ <<c>>[1] = c
  OBVIOUS
<1>2. AddCalls(b, <<c>>) = b \o <<c>>
  BY <1>1, AddCallsNew
<1> QED
  BY <1>1, <1>2

LEMMA OrdersStay ==
  ASSUME UNCHANGED made
  PROVE  Orders(made)' = Orders(made)
BY DEF Orders, ToSet

LEMMA StreamStarts == StreamInit => StreamInductive
<1> SUFFICES ASSUME StreamInit PROVE StreamInductive
  OBVIOUS
<1>1. StreamTypeOK
  <2>1. <<>> \in Seq(Chunk) /\ <<>> \in Seq(ToolCall)
    OBVIOUS
  <2>2. 0 \in 0 .. MaxText
    OBVIOUS
  <2>3. provider \in {"openai", "anthropic", "gemini"} /\ mode \in {"chat", "stream"}
    BY DEF StreamInit
  <2> QED
    BY <2>1, <2>2, <2>3, Zenon DEF StreamInit, StreamTypeOK
<1>3. CallsDiffer
  BY DEF StreamInit, CallsDiffer
<1>2. ChatFits /\ ReadingFits
  BY DEF StreamInit, ChatFits, ReadingFits
<1> QED
  BY <1>1, <1>2, <1>3 DEF StreamInductive, StreamInit

\* What the client sends are chunks.
LEMMA ChunkTypes ==
  /\ Text \in Chunk /\ Error \in Chunk /\ Done \in Chunk
  /\ \A s \in Seq(ToolCall) : Calls(s) \in Chunk
  /\ Text # Error /\ Text # Done /\ Error # Done
  /\ NoCall.args \in 0 .. MaxFragments
BY DEF Text, Error, Done, Calls, Chunk, NoCall

\* While the client reads the agent does, and without streaming nothing is sent.
LEMMA NothingIsOut ==
  ASSUME StreamInductive, mode = "chat"
  PROVE  out = <<>>
BY DEF StreamInductive, ChatFits

\* What a chunk does to what the agent has.
LEMMA Collected ==
  ASSUME StreamInductive, collectToolCalls
  PROVE  /\ mode = "stream" /\ reader = "reading"
         /\ \/ /\ source \in {"asking", "reading"}
               /\ heard + 1 = text /\ heard' = text
               /\ built' = built /\ out' = <<>> /\ reader' = "reading" /\ ~broken
               /\ IF provider = "gemini" THEN built = <<>> ELSE built = made
            \/ /\ source \in {"asking", "reading"} /\ provider # "gemini"
               /\ heard' = heard /\ heard = text
               /\ built' = made /\ out' = <<>> /\ reader' = "reading" /\ ~broken
            \/ /\ source \in {"finishing", "closed"} /\ broken
               /\ heard' = heard /\ built' = built /\ reader' = "failed"
            \/ /\ source \in {"finishing", "closed"} /\ ~broken
               /\ heard' = heard /\ heard = text /\ built' = built
               /\ out' = <<>> /\ reader' = "answered" /\ AllCalls(built)
            \/ /\ source \in {"finishing", "closed"} /\ ~broken
               /\ provider = "gemini" /\ heard' = heard /\ heard = text
               /\ \E s \in Orders(made) : built' = s /\ s \in Seq(ToolCall)
               /\ out' = <<Done>> /\ reader' = "reading"
<1>1. StreamTypeOK /\ CallsDiffer
  BY DEF StreamInductive
<1>2. mode = "stream" /\ reader = "reading" /\ out # <<>>
  BY <1>1, NothingIsOut DEF collectToolCalls, StreamTypeOK
<1>3. /\ out' = Tail(out)
      /\ built' = AddCalls(built, Head(out).calls)
      /\ heard' = IF Head(out).kind = "text" THEN heard + 1 ELSE heard
      /\ reader' = CASE Head(out).kind = "error" -> "failed"
                      [] Head(out).kind = "done" -> "answered"
                      [] OTHER -> "reading"
  BY DEF collectToolCalls
<1>4. built \in Seq(ToolCall) /\ heard \in Nat /\ made \in Seq(ToolCall)
  BY <1>1 DEF StreamTypeOK
<1>5. CASE source \in {"asking", "reading"}
  <2>1. ReadingFits
    BY <1>2, <1>5 DEF StreamInductive
  <2>2. CASE out = <<Text>> /\ heard + 1 = text
    <3>1. out' = <<>> /\ Head(out) = Text
      BY <1>3, <2>2
    <3>2. built' = built
      BY <1>3, <1>4, <3>1, AddNoCall DEF Text
    <3>3. heard' = text /\ reader' = "reading"
      BY <1>3, <2>2, <3>1 DEF Text
    <3>4. IF provider = "gemini" THEN built = <<>> ELSE built = made
      BY <2>1, <2>2 DEF ReadingFits, Calls, Text
    <3> QED
      BY <1>2, <1>5, <2>1, <2>2, <3>1, <3>2, <3>3, <3>4 DEF ReadingFits
  <2>3. ASSUME NEW c \in ToolCall, provider # "gemini", heard = text,
               out = <<Calls(<<c>>)>>, made = Append(built, c)
        PROVE  /\ built' = made /\ heard' = heard /\ out' = <<>> /\ reader' = "reading"
    <3>1. out' = <<>> /\ Head(out) = Calls(<<c>>)
      BY <1>3, <2>3
    <3>2. c.id \notin Ids(built)
      <4>1. SUFFICES ASSUME NEW i \in DOMAIN built, built[i].id = c.id PROVE FALSE
        BY DEF Ids
      <4>2. made[i] = built[i] /\ made[Len(built) + 1] = c /\ Len(made) = Len(built) + 1
        BY <1>4, <2>3
      <4>3. i \in DOMAIN made /\ Len(built) + 1 \in DOMAIN made /\ i # Len(built) + 1
        BY <1>4, <4>2
      <4> QED
        BY <1>1, <4>1, <4>2, <4>3 DEF CallsDiffer
    <3>3. built' = made
      BY <1>3, <1>4, <2>3, <3>1, <3>2, AddOneCall DEF Calls
    <3> QED
      BY <1>3, <3>1, <3>3 DEF Calls
  <2> QED
    BY <1>2, <1>5, <2>1, <2>2, <2>3 DEF ReadingFits
<1>6. CASE source \in {"finishing", "closed"}
  <2>1. EndFitsStream
    BY <1>2, <1>6 DEF StreamInductive
  <2>2. CASE broken
    <3>1. Head(out) = Error
      BY <1>2, <2>1, <2>2 DEF EndFitsStream
    <3>2. built' = built /\ heard' = heard /\ reader' = "failed"
      BY <1>3, <1>4, <3>1, AddNoCall DEF Error
    <3> QED
      BY <1>2, <1>6, <2>2, <3>2
  <2>3. CASE ~broken /\ out = <<Done>> /\ AllCalls(built)
    <3>1. out' = <<>> /\ Head(out) = Done
      BY <1>3, <2>3
    <3>2. built' = built /\ heard' = heard /\ reader' = "answered"
      BY <1>3, <1>4, <3>1, AddNoCall DEF Done
    <3>3. heard = text
      BY <2>1, <2>3 DEF EndFitsStream
    <3> QED
      BY <1>2, <1>6, <2>3, <3>1, <3>2, <3>3
  <2>4. ASSUME ~broken, provider = "gemini", built = <<>>,
               NEW s \in Orders(made), out = <<Calls(s), Done>>
        PROVE  /\ built' = s /\ s \in Seq(ToolCall) /\ heard' = heard /\ heard = text
               /\ out' = <<Done>> /\ reader' = "reading"
    <3>1. out' = <<Done>> /\ Head(out) = Calls(s)
      BY <1>3, <2>4
    <3>2. s \in Seq(ToolCall) /\ AddCalls(<<>>, s) = s
      BY <1>1, OrderedCalls
    <3>3. built' = s
      BY <1>3, <2>4, <3>1, <3>2 DEF Calls
    <3>4. heard' = heard /\ reader' = "reading"
      BY <1>3, <3>1 DEF Calls
    <3> QED
      BY <2>1, <2>4, <3>1, <3>2, <3>3, <3>4 DEF EndFitsStream
  <2> QED
    BY <1>2, <1>6, <2>1, <2>2, <2>3, <2>4 DEF EndFitsStream
<1> QED
  BY <1>1, <1>5, <1>6 DEF StreamTypeOK

\* The events of the provider keep everything in its place.
LEMMA EventTypes == StreamInductive /\ Events => StreamTypeOK'
<1> SUFFICES ASSUME StreamInductive, Events PROVE StreamTypeOK'
  OBVIOUS
<1>1. StreamTypeOK /\ out \in Seq(Chunk) /\ made \in Seq(ToolCall)
  BY DEF StreamInductive, StreamTypeOK
<1>2. \A chunks \in Seq(Chunk) : Emit(chunks) => out' \in Seq(Chunk)
  BY DEF Emit
<1>3. \A x \in Chunk, y \in Chunk : <<x>> \in Seq(Chunk) /\ <<x, y>> \in Seq(Chunk)
  OBVIOUS
<1>4. CASE Connect
  BY <1>1, <1>4 DEF Connect, StreamTypeOK
<1>5. CASE Refuse
  BY <1>1, <1>2, <1>3, <1>5, ChunkTypes DEF Refuse, StreamTypeOK
<1>6. CASE TextDelta
  <2>1. out' \in Seq(Chunk)
    BY <1>2, <1>3, <1>6, ChunkTypes DEF TextDelta
  <2>2. text' \in 0 .. MaxText
    BY <1>1, <1>6 DEF TextDelta, StreamTypeOK
  <2> QED
    BY <1>1, <1>6, <2>1, <2>2 DEF TextDelta, StreamTypeOK
<1>7. CASE handleContentBlockStart
  <2>1. open' \in ToolCall
    BY <1>7 DEF handleContentBlockStart, ToolCall
  <2> QED
    BY <1>1, <1>7, <2>1 DEF handleContentBlockStart, StreamTypeOK
<1>8. CASE handleContentBlockDelta
  <2>1. open \in ToolCall /\ open.args < MaxFragments /\ open' = [open EXCEPT !.args = @ + 1]
    BY <1>1, <1>8 DEF handleContentBlockDelta, StreamTypeOK
  <2>2. open.args + 1 \in 0 .. MaxFragments
    BY <2>1 DEF ToolCall
  <2>3. open' \in ToolCall
    BY <2>1, <2>2 DEF ToolCall
  <2> QED
    BY <1>1, <1>8, <2>3 DEF handleContentBlockDelta, StreamTypeOK
<1>9. CASE handleContentBlockStop
  <2>1. open \in ToolCall
    BY <1>1, <1>9 DEF handleContentBlockStop, StreamTypeOK
  <2>2. <<open>> \in Seq(ToolCall) /\ Append(made, open) \in Seq(ToolCall)
    BY <1>1, <2>1
  <2>3. out' \in Seq(Chunk)
    BY <1>2, <1>3, <1>9, <2>2, ChunkTypes DEF handleContentBlockStop
  <2> QED
    BY <1>1, <1>9, <2>2, <2>3 DEF handleContentBlockStop, StreamTypeOK
<1>10. CASE FunctionCallPart
  <2>1. made' \in Seq(ToolCall)
    BY <1>1, <1>10 DEF FunctionCallPart, ToolCall
  <2> QED
    BY <1>1, <1>10, <2>1 DEF FunctionCallPart, StreamTypeOK
<1>11. CASE Break
  <2>1. out' \in Seq(Chunk)
    BY <1>2, <1>3, <1>11, ChunkTypes DEF Break
  <2> QED
    BY <1>1, <1>11, <2>1 DEF Break, StreamTypeOK
<1>12. CASE EndOfStream
  <2>1. PICK chunks \in LastChunks : Emit(chunks)
    BY <1>12 DEF EndOfStream
  <2>2. \A s \in Orders(made) : s \in Seq(ToolCall)
    BY OrderedCalls DEF StreamInductive
  <2>3. chunks \in Seq(Chunk)
    BY <1>3, <2>2, ChunkTypes DEF LastChunks
  <2>4. out' \in Seq(Chunk)
    BY <1>2, <2>1, <2>3
  <2> QED
    BY <1>1, <1>12, <2>4 DEF EndOfStream, StreamTypeOK
<1> QED
  BY <1>4, <1>5, <1>6, <1>7, <1>8, <1>9, <1>10, <1>11, <1>12 DEF Events

LEMMA EventsDiffer == StreamInductive /\ Events => CallsDiffer'
<1> SUFFICES ASSUME StreamInductive, Events PROVE CallsDiffer'
  OBVIOUS
<1>1. CallsDiffer /\ made \in Seq(ToolCall) /\ open \in ToolCall \cup {NoCall}
  BY DEF StreamInductive, StreamTypeOK
<1>2. ASSUME NEW c \in ToolCall, c.id \notin Ids(made), made' = Append(made, c), open' = NoCall
      PROVE  CallsDiffer'
  <2>1. DOMAIN made' = 1 .. Len(made) + 1 /\ made'[Len(made) + 1] = c
    BY <1>1, <1>2
  <2>2. \A i \in 1 .. Len(made) : made'[i] = made[i] /\ made'[i].id # c.id
    BY <1>1, <1>2 DEF Ids
  <2>3. \A i, j \in DOMAIN made' : made'[i].id = made'[j].id => i = j
    <3>1. DOMAIN made = 1 .. Len(made) /\ Len(made) \in Nat
      BY <1>1
    <3>2. \A i \in 1 .. Len(made) + 1 : i \in 1 .. Len(made) \/ i = Len(made) + 1
      BY <3>1
    <3> QED
      BY <1>1, <2>1, <2>2, <3>1, <3>2 DEF CallsDiffer
  <2> QED
    BY <1>2, <2>3 DEF CallsDiffer
<1>3. CASE UNCHANGED <<made, open, provider>>
  BY <1>1, <1>3 DEF CallsDiffer, Ids
<1>4. CASE handleContentBlockStart
  <2>1. PICK c \in Call \ Ids(made) : open' = [id |-> c, args |-> 0]
    BY <1>4 DEF handleContentBlockStart
  <2>2. made' = made /\ provider' = provider /\ provider # "gemini" /\ open'.id \notin Ids(made)
    BY <1>4, <2>1 DEF handleContentBlockStart
  <2> QED
    BY <1>1, <2>2 DEF CallsDiffer, Ids
<1>5. CASE handleContentBlockDelta
  <2>1. open # NoCall /\ open'.id = open.id /\ made' = made /\ provider' = provider
    BY <1>1, <1>5 DEF handleContentBlockDelta, ToolCall
  <2> QED
    BY <1>1, <2>1 DEF CallsDiffer, Ids
<1>6. CASE handleContentBlockStop
  BY <1>1, <1>2, <1>6 DEF handleContentBlockStop, CallsDiffer
<1>7. CASE FunctionCallPart
  <2>1. PICK c \in Call \ Ids(made), n \in 0 .. MaxFragments :
          made' = Append(made, [id |-> c, args |-> n])
    BY <1>7 DEF FunctionCallPart
  <2>2. [id |-> c, args |-> n] \in ToolCall /\ [id |-> c, args |-> n].id \notin Ids(made)
    BY <2>1 DEF ToolCall
  <2>3. open' = NoCall
    BY <1>1, <1>7 DEF FunctionCallPart, CallsDiffer
  <2> QED
    BY <1>2, <2>1, <2>2, <2>3
<1> QED
  BY <1>3, <1>4, <1>5, <1>6, <1>7
     DEF Events, Connect, Refuse, TextDelta, Break, EndOfStream

\* What all events leave alone, and what they send.
LEMMA EventFrame ==
  ASSUME StreamInductive, Events
  PROVE  /\ UNCHANGED <<provider, mode, reader, heard, built>>
         /\ source \in {"asking", "reading"} /\ source' \in {"reading", "finishing"}
         /\ out' = out \/ \E chunks : Emit(chunks)
BY DEF Events, Ready, Connect, Refuse, TextDelta, handleContentBlockStart, handleContentBlockDelta,
       handleContentBlockStop, FunctionCallPart, Break, EndOfStream

LEMMA EventsFitChat ==
  ASSUME StreamInductive, Events, mode = "chat"
  PROVE  ChatFits'
<1>1. ChatFits
  BY DEF StreamInductive
<1>2. out' = <<>>
  BY <1>1, EventFrame DEF Emit, ChatFits
<1> QED
  BY <1>1, <1>2, EventFrame DEF ChatFits

\* Nothing is all there is of no calls.
LEMMA NoOrders == <<>> \in Orders(<<>>)
<1>1. <<>> \in [1 .. Len(<<>>) -> ToSet(<<>>)]
  BY DEF ToSet
<1> QED
  BY <1>1 DEF Orders

LEMMA EventsFitStream ==
  ASSUME StreamInductive, Events, mode = "stream"
  PROVE  IF source' = "reading" THEN ReadingFits' ELSE EndFitsStream'
<1>1. ReadingFits /\ StreamTypeOK /\ CallsDiffer
  BY EventFrame DEF StreamInductive
<1>2. \A chunks : Emit(chunks) => out' = chunks
  BY DEF Emit
<1>3. UNCHANGED <<provider, mode, reader, heard, built>> /\ ~broken /\ reader = "reading"
  BY <1>1, EventFrame DEF ReadingFits
<1>4. Ready => /\ heard = text
               /\ IF provider = "gemini" THEN built = <<>> ELSE built = made
  BY <1>1 DEF Ready, ReadingFits
<1>5. CASE UNCHANGED <<out, text, made, broken>> /\ source' = "reading"
  BY <1>1, <1>3, <1>5 DEF ReadingFits
<1>6. CASE source' = "finishing" /\ broken' /\ (Emit(<<Error>>) \/ Emit(<<Error, Done>>))
  <2>1. out' # <<>> /\ Head(out') = Error
    BY <1>2, <1>6
  <2> QED
    BY <1>3, <1>6, <2>1 DEF EndFitsStream
<1>7. CASE TextDelta
  <2>1. out' = <<Text>> /\ heard' + 1 = text' /\ made' = made /\ broken' = broken /\ source' = "reading"
    BY <1>1, <1>2, <1>3, <1>4, <1>7 DEF TextDelta, Ready
  <2> QED
    BY <1>3, <1>4, <1>7, <2>1 DEF ReadingFits, TextDelta
<1>8. CASE handleContentBlockStop
  <2>1. provider # "gemini" /\ open \in ToolCall
    BY <1>1, <1>8 DEF handleContentBlockStop, CallsDiffer, StreamTypeOK
  <2>2. /\ out' = <<Calls(<<open>>)>> /\ made' = Append(built', open)
        /\ heard' = text' /\ ~broken' /\ reader' = "reading" /\ provider' # "gemini"
        /\ source' = "reading"
    BY <1>2, <1>3, <1>4, <1>8, <2>1 DEF handleContentBlockStop, Ready
  <2> QED
    BY <2>1, <2>2 DEF ReadingFits
<1>9. CASE FunctionCallPart
  <2>1. /\ provider' = "gemini" /\ heard' = text' /\ out' = <<>> /\ built' = <<>>
        /\ ~broken' /\ reader' = "reading" /\ source' = "reading"
    BY <1>3, <1>4, <1>9 DEF FunctionCallPart, Ready
  <2> QED
    BY <2>1 DEF ReadingFits
<1>10. CASE EndOfStream
  <2>1. PICK chunks \in LastChunks : out' = chunks
    BY <1>2, <1>10 DEF EndOfStream
  <2>2. Orders(made)' = Orders(made)
    BY <1>10, OrdersStay DEF EndOfStream
  <2>3. ~broken' /\ heard' = text' /\ source' = "finishing"
    BY <1>3, <1>4, <1>10 DEF EndOfStream
  <2>4. CASE provider = "gemini" /\ made # <<>>
    <3>1. PICK s \in Orders(made) : out' = <<Calls(s), Done>>
      BY <2>1, <2>4 DEF LastChunks
    <3>2. built' = <<>> /\ provider' = "gemini" /\ reader' = "reading" /\ s \in Orders(made)'
      BY <1>3, <1>4, <1>10, <2>2, <2>4 DEF EndOfStream
    <3> QED
      BY <2>3, <3>1, <3>2 DEF EndFitsStream
  <2>5. CASE ~(provider = "gemini" /\ made # <<>>)
    <3>1. out' = <<Done>> /\ reader' = "reading"
      BY <1>3, <2>1, <2>5 DEF LastChunks
    <3>2. AllCalls(built)'
      <4>1. provider' = provider /\ built' = built /\ mode' = mode /\ made' = made
        BY <1>3, <1>10 DEF EndOfStream
      <4>2. provider = "gemini" => built \in Orders(made)
        BY <1>4, <1>10, <2>5, NoOrders DEF EndOfStream
      <4>3. provider # "gemini" => built = made
        BY <1>4, <1>10 DEF EndOfStream
      <4> QED
        BY <2>2, <4>1, <4>2, <4>3 DEF AllCalls
    <3> QED
      BY <2>3, <3>1, <3>2 DEF EndFitsStream
  <2> QED
    BY <2>3, <2>4, <2>5
<1> QED
  BY <1>5, <1>6, <1>7, <1>8, <1>9, <1>10
     DEF Events, Ready, Connect, Refuse, handleContentBlockStart, handleContentBlockDelta, Break

LEMMA EventsKeep == StreamInductive /\ Events => StreamInductive'
<1> SUFFICES ASSUME StreamInductive, Events PROVE StreamInductive'
  OBVIOUS
<1>1. StreamTypeOK' /\ CallsDiffer'
  BY EventTypes, EventsDiffer
<1>2. mode' = mode /\ source' \in {"reading", "finishing"} /\ mode \in {"chat", "stream"}
  BY EventFrame DEF StreamInductive, StreamTypeOK
<1>3. mode = "chat" => ChatFits'
  BY EventsFitChat
<1>4. mode = "stream" => IF source' = "reading" THEN ReadingFits' ELSE EndFitsStream'
  BY EventsFitStream
<1> QED
  BY <1>1, <1>2, <1>3, <1>4 DEF StreamInductive

LEMMA HandoverTypes == StreamInductive /\ Handover => StreamTypeOK' /\ CallsDiffer'
<1> SUFFICES ASSUME StreamInductive, Handover PROVE StreamTypeOK' /\ CallsDiffer'
  OBVIOUS
<1>1. StreamTypeOK /\ CallsDiffer
  BY DEF StreamInductive
<1>2. CallsDiffer'
  BY <1>1 DEF CallsDiffer, Ids, Handover, collectToolCalls, parseResponse, ChatFails, NoCandidates,
              CloseChannel
<1>3. CASE collectToolCalls
  <2>1. out' \in Seq(Chunk)
    BY <1>1, <1>3 DEF collectToolCalls, StreamTypeOK
  <2>2. /\ heard' \in 0 .. MaxText /\ built' \in Seq(ToolCall)
        /\ reader' \in {"reading", "answered", "failed"}
    <3>1. built \in Seq(ToolCall) /\ made \in Seq(ToolCall) /\ heard \in 0 .. MaxText /\ text \in 0 .. MaxText
      BY <1>1 DEF StreamTypeOK
    <3>2. heard' = heard \/ heard' = text
      BY <1>3, Collected
    <3>3. built' \in Seq(ToolCall)
      BY <1>3, <3>1, Collected
    <3>4. reader' \in {"reading", "answered", "failed"}
      BY <1>3, Collected
    <3> QED
      BY <3>1, <3>2, <3>3, <3>4
  <2>3. UNCHANGED <<provider, mode, source, text, made, open, broken>>
    BY <1>3 DEF collectToolCalls
  <2>4. /\ provider' \in {"openai", "anthropic", "gemini"} /\ mode' \in {"chat", "stream"}
        /\ source' \in {"asking", "reading", "finishing", "closed"}
        /\ text' \in 0 .. MaxText /\ made' \in Seq(ToolCall)
        /\ open' \in ToolCall \cup {NoCall} /\ broken' \in BOOLEAN
    BY <1>1, <2>3 DEF StreamTypeOK
  <2> QED
    BY <1>2, <2>1, <2>2, <2>4 DEF StreamTypeOK
<1>4. CASE parseResponse
  BY <1>1, <1>2, <1>4 DEF StreamTypeOK, parseResponse
<1>5. CASE ChatFails
  BY <1>1, <1>2, <1>5 DEF StreamTypeOK, ChatFails
<1>6. CASE NoCandidates
  BY <1>1, <1>2, <1>6 DEF StreamTypeOK, NoCandidates
<1>7. CASE CloseChannel
  BY <1>1, <1>2, <1>7 DEF StreamTypeOK, CloseChannel
<1> QED
  BY <1>2, <1>3, <1>4, <1>5, <1>6, <1>7 DEF Handover

LEMMA HandoverFits ==
  ASSUME StreamInductive, Handover
  PROVE  /\ mode = "chat" => ChatFits'
         /\ mode = "stream" /\ source' \in {"asking", "reading"} => ReadingFits'
         /\ mode = "stream" /\ source' \in {"finishing", "closed"} => EndFitsStream'
<1>1. StreamTypeOK /\ mode \in {"chat", "stream"}
  BY DEF StreamInductive, StreamTypeOK
<1>2. Orders(made)' = Orders(made)
  BY OrdersStay DEF Handover, collectToolCalls, parseResponse, ChatFails, NoCandidates, CloseChannel
<1>3. CASE collectToolCalls
  <2>1. /\ UNCHANGED <<provider, mode, source, text, made, open, broken>>
    BY <1>3 DEF collectToolCalls
  <2>2. mode = "stream" /\ reader = "reading"
    BY <1>3, Collected
  <2>3. CASE source \in {"asking", "reading"}
    <3>1. ReadingFits'
      BY <1>3, <2>1, <2>3, Collected DEF ReadingFits
    <3> QED
      BY <2>1, <2>2, <2>3, <3>1
  <2>4. CASE source \in {"finishing", "closed"}
    <3>1. CASE broken
      <4>1. reader' = "failed"
        BY <1>3, <2>4, <3>1, Collected
      <4> QED
        BY <2>1, <2>2, <2>4, <3>1, <4>1 DEF EndFitsStream
    <3>2. CASE ~broken
      <4>1. \/ heard' = text' /\ built' = built /\ out' = <<>> /\ reader' = "answered" /\ AllCalls(built)
            \/ /\ heard' = text' /\ provider = "gemini" /\ built' \in Orders(made)
               /\ out' = <<Done>> /\ reader' = "reading"
        BY <1>3, <2>1, <2>4, <3>2, Collected
      <4>2. AllCalls(built)'
        BY <1>2, <2>1, <2>2, <4>1 DEF AllCalls
      <4>3. EndFitsStream'
        BY <2>1, <3>2, <4>1, <4>2 DEF EndFitsStream
      <4> QED
        BY <2>1, <2>2, <2>4, <4>3
    <3> QED
      BY <3>1, <3>2
  <2> QED
    BY <1>1, <2>3, <2>4 DEF StreamTypeOK
<1>4. CASE parseResponse
  BY <1>4 DEF StreamInductive, parseResponse, ChatFits
<1>5. CASE ChatFails
  BY <1>5 DEF StreamInductive, ChatFails, ChatFits
<1>6. CASE NoCandidates
  BY <1>6 DEF StreamInductive, NoCandidates, ChatFits
<1>7. CASE CloseChannel
  <2>1. source = "finishing" /\ source' = "closed"
        /\ UNCHANGED <<provider, mode, out, text, made, open, broken, reader, heard, built>>
    BY <1>7 DEF CloseChannel
  <2>2. CASE mode = "chat"
    BY <1>7, <2>1, <2>2 DEF CloseChannel, StreamInductive, ChatFits
  <2>3. CASE mode = "stream"
    <3>1. EndFitsStream
      BY <2>1, <2>3 DEF StreamInductive
    <3>2. EndFitsStream'
      BY <1>2, <2>1, <3>1 DEF EndFitsStream, AllCalls
    <3> QED
      BY <2>1, <2>3, <3>2
  <2> QED
    BY <1>1, <2>2, <2>3
<1> QED
  BY <1>3, <1>4, <1>5, <1>6, <1>7 DEF Handover

LEMMA StreamGoesOn == StreamInductive /\ [StreamNext]_streamVars => StreamInductive'
<1> SUFFICES ASSUME StreamInductive, [StreamNext]_streamVars PROVE StreamInductive'
  OBVIOUS
<1>1. CASE UNCHANGED streamVars
  BY <1>1, OrdersStay DEF streamVars, StreamInductive, StreamTypeOK, CallsDiffer, Ids, ChatFits,
                          ReadingFits, EndFitsStream, AllCalls
<1>2. CASE Events
  BY <1>2, EventsKeep
<1>3. CASE Handover
  <2>1. mode' = mode
    BY <1>3 DEF Handover, collectToolCalls, parseResponse, ChatFails, NoCandidates, CloseChannel
  <2> QED
    BY <1>3, <2>1, HandoverTypes, HandoverFits DEF StreamInductive
<1> QED
  BY <1>1, <1>2, <1>3 DEF StreamNext

\* The state of a call of an LLM stays what the definitions say it is.
THEOREM StreamType == StreamSpec => []StreamTypeOK
<1>1. StreamInductive => StreamTypeOK
  BY DEF StreamInductive
<1> QED
  BY <1>1, StreamStarts, StreamGoesOn, PTL DEF StreamSpec

\* An answer the agent goes on with is the provider's whole answer, whatever the
\* provider sends and however the chunks and the agent's reading interleave.
THEOREM AnswersAreWhole == StreamSpec => []AnswerIsWhole
<1>1. StreamInductive => AnswerIsWhole
  <2> SUFFICES ASSUME StreamInductive, reader = "answered"
               PROVE  /\ ~broken /\ heard = text /\ ToSet(built) = ToSet(made)
                      /\ Len(built) = Len(made)
                      /\ (provider # "gemini" \/ mode = "chat") => built = made
    BY DEF AnswerIsWhole
  <2>1. CASE mode = "chat"
    BY <2>1 DEF StreamInductive, ChatFits
  <2>2. CASE mode = "stream"
    <3>1. source \in {"finishing", "closed"}
      BY <2>2 DEF StreamInductive, StreamTypeOK, ReadingFits
    <3>2. ~broken /\ heard = text /\ AllCalls(built)
      BY <2>2, <3>1 DEF StreamInductive, EndFitsStream
    <3>3. CASE provider = "gemini"
      <4>1. built \in Orders(made) /\ StreamTypeOK /\ CallsDiffer
        BY <2>2, <3>2, <3>3 DEF AllCalls, StreamInductive
      <4> QED
        BY <2>2, <3>2, <3>3, <4>1, OrderedCalls
    <3>4. CASE provider # "gemini"
      BY <2>2, <3>2, <3>4 DEF AllCalls
    <3> QED
      BY <3>3, <3>4
  <2> QED
    BY <2>1, <2>2 DEF StreamInductive, StreamTypeOK
<1> QED
  BY <1>1, StreamStarts, StreamGoesOn, PTL DEF StreamSpec

-----------------------------------------------------------------------------
(* The files that come with a message and go out with an answer.           *)

\* Lists of one element each, one after the other.
LEMMA FlattenSingles ==
  ASSUME NEW S, NEW e \in Seq(S), e # <<>>, NEW q, q = [i \in DOMAIN e |-> <<e[i]>>]
  PROVE  FlattenSeq(q) = e
<1> DEFINE n == Len(e)
           Grown(f) == [i \in 1 .. Len(q) |-> IF i = 1 THEN q[i] ELSE f[i - 1] \o q[i]]
           Flat == CHOOSE f : f = Grown(f)
           g == [i \in 1 .. Len(q) |-> SubSeq(e, 1, i)]
<1>1. n \in Nat /\ 1 <= n /\ DOMAIN e = 1 .. n
  OBVIOUS
<1>2. q \in Seq(Seq(S)) /\ Len(q) = n /\ \A i \in 1 .. n : q[i] = <<e[i]>>
  <2>1. \A i \in 1 .. n : <<e[i]>> \in Seq(S)
    OBVIOUS
  <2> QED
    BY <1>1, <2>1
<1>3. FlattenSeq(q) = Flat[Len(q)]
  <2>1. Len(q) # 0
    BY <1>1, <1>2
  <2>2. FlattenSeq(q) = IF Len(q) = 0 THEN q ELSE Flat[Len(q)]
    BY DEF FlattenSeq
  <2> HIDE DEF Flat
  <2> QED
    BY <2>1, <2>2
<1>4. g[1] = q[1] /\ \A i \in 2 .. n : g[i] = g[i - 1] \o q[i]
  <2>1. g[1] = <<e[1]>>
    <3>1. 1 \in 1 .. Len(q) /\ 1 \in 1 .. Len(e)
      BY <1>1, <1>2
    <3>2. SubSeq(e, 1, 1) = <<e[1]>>
      <4>1. SubSeq(e, 1, 1) \in Seq(S) /\ Len(SubSeq(e, 1, 1)) = 1 /\ SubSeq(e, 1, 1)[1] = e[1]
        BY <3>1
      <4>2. <<e[1]>> \in Seq(S) /\ Len(<<e[1]>>) = 1 /\ <<e[1]>>[1] = e[1]
        BY <3>1
      <4>3. \A i \in 1 .. 1 : SubSeq(e, 1, 1)[i] = <<e[1]>>[i]
        BY <4>1, <4>2
      <4> QED
        BY <4>1, <4>2, <4>3, SeqEqual
    <3> QED
      BY <3>1, <3>2
  <2>2. \A i \in 2 .. n : SubSeq(e, 1, i) = SubSeq(e, 1, i - 1) \o <<e[i]>>
    BY <1>1
  <2>3. \A i \in 2 .. n : i \in 1 .. n /\ i - 1 \in 1 .. n
    BY <1>1
  <2>4. \A i \in 1 .. n : g[i] = SubSeq(e, 1, i)
    BY <1>2
  <2>5. \A i \in 2 .. n : q[i] = <<e[i]>>
    BY <1>2, <2>3
  <2>6. 1 \in 1 .. n
    BY <1>1
  <2>7. g[1] = q[1]
    BY <1>2, <2>1, <2>6
  <2> HIDE DEF g, n
  <2>8. \A i \in 2 .. n : g[i] = g[i - 1] \o q[i]
    BY <2>2, <2>3, <2>4, <2>5
  <2> QED
    BY <2>7, <2>8
<1>5. g[Len(q)] = e
  BY <1>1, <1>2
<1>6. g = [i \in 1 .. Len(q) |-> g[i]]
  OBVIOUS
<1> HIDE DEF g, n
<1>7. g = Grown(g)
  <2>1. \A i \in 1 .. Len(q) : g[i] = IF i = 1 THEN q[i] ELSE g[i - 1] \o q[i]
    <3>1. \A i \in 1 .. Len(q) : i = 1 \/ i \in 2 .. n
      BY <1>1, <1>2
    <3> QED
      BY <1>4, <3>1
  <2> QED
    BY <1>6, <2>1
<1>8. Flat = Grown(Flat)
  <2> HIDE DEF Grown
  <2> QED
    BY <1>7
<1> HIDE DEF Flat
<1>9. Flat[1] = q[1] /\ \A i \in 2 .. n : Flat[i] = Flat[i - 1] \o q[i]
  <2>1. 1 \in 1 .. Len(q) /\ \A i \in 2 .. n : i \in 1 .. Len(q) /\ i # 1
    BY <1>1, <1>2
  <2> QED
    BY <1>8, <2>1
<1>10. Flat[n] = g[n]
  <2> DEFINE bad == {i \in 1 .. n : Flat[i] # g[i]}
  <2> SUFFICES ASSUME bad # {} PROVE FALSE
    BY <1>1
  <2>1. bad \in SUBSET Nat
    BY <1>1
  <2>2. PICK k \in bad : \A y \in bad : k <= y
    BY <2>1, Smallest
  <2>3. k \in 2 .. n
    <3>1. k \in 1 .. n /\ Flat[k] # g[k]
      OBVIOUS
    <3>2. k # 1
      BY <1>4, <1>9, <3>1
    <3> QED
      BY <1>1, <3>1, <3>2
  <2>4. Flat[k - 1] = g[k - 1]
    <3>1. k - 1 \in 1 .. n /\ ~(k <= k - 1)
      BY <1>1, <2>3
    <3> QED
      BY <3>1, <2>2
  <2> QED
    BY <2>2, <2>3, <2>4, <1>4, <1>9
<1> QED
  BY <1>2, <1>3, <1>5, <1>10

LEMMA AppendedRange ==
  ASSUME NEW s, s \in Seq(Range(s)), NEW x
  PROVE  Append(s, x) \in Seq(Range(Append(s, x)))
<1>1. s \in Seq(Range(s) \cup {x})
  BY SeqMonotonic
<1>2. Append(s, x) \in Seq(Range(s) \cup {x})
  BY <1>1
<1> QED
  BY <1>2, SeqOfRange

\* Every attachment becomes one part of the prompt, which is about it.
LEMMA OnePart ==
  ASSUME NEW f
  PROVE  PromptPart(f) = <<PromptPart(f)[1]>> /\ PromptPart(f)[1].of = f.name
BY DEF PromptPart, IsSupportedByLLM, IsImage, IsDocument

LEMMA UserMessage ==
  ASSUME attached \in Seq(Range(attached)), attached # <<>>
  PROVE  /\ buildUserMessage[1].of = Words
         /\ [i \in DOMAIN attached |-> attached[i].name]
               = [i \in 1 .. Len(buildUserMessage) - 1 |-> buildUserMessage[i + 1].of]
<1> DEFINE e == [i \in DOMAIN attached |-> PromptPart(attached[i])[1]]
           q == [i \in DOMAIN attached |-> PromptPart(attached[i])]
           w == [of |-> Words, as |-> "text"]
           n == Len(attached)
<1>1. n \in Nat /\ DOMAIN attached = 1 .. n /\ 1 <= n
  OBVIOUS
<1>2. e \in Seq(Range(e)) /\ Len(e) = n /\ e # <<>> /\ DOMAIN e = DOMAIN attached
  <2>1. \A i \in 1 .. n : e[i] \in Range(e)
    BY <1>1 DEF Range
  <2>2. e \in [1 .. n -> Range(e)]
    BY <1>1, <2>1
  <2> QED
    BY <1>1, <2>2
<1>3. q = [i \in DOMAIN e |-> <<e[i]>>]
  BY OnePart
<1>4. \A i \in 1 .. n : e[i].of = attached[i].name
  BY <1>1, OnePart
<1>5. buildUserMessage = <<w>> \o FlattenSeq(q)
  BY DEF buildUserMessage
<1> HIDE DEF e, q, w, n
<1>6. FlattenSeq(q) = e
  BY <1>2, <1>3, FlattenSingles
<1>7. buildUserMessage = <<w>> \o e
  BY <1>5, <1>6
<1>8. <<w>> \in Seq({w} \cup Range(e)) /\ e \in Seq({w} \cup Range(e))
  BY <1>2, SeqMonotonic
<1>9. /\ Len(buildUserMessage) = n + 1 /\ buildUserMessage[1] = w
      /\ \A i \in 1 .. n : buildUserMessage[i + 1] = e[i]
  BY <1>1, <1>2, <1>7, <1>8
<1>10. w.of = Words
  BY DEF w
<1> QED
  BY <1>1, <1>4, <1>9, <1>10

\* The files of the turns that answered with words of their own.
Sent == UNION {turn[a].written : a \in {b \in Worker : turn[b].at = "answered"}}

\* Records and lists are what they are made as, whatever they hold.
FilesShape ==
  /\ turn = [a \in Worker |-> [at |-> turn[a].at, parts |-> turn[a].parts,
                               calls |-> turn[a].calls, written |-> turn[a].written,
                               produced |-> turn[a].produced, direct |-> turn[a].direct]]
  /\ attached \in Seq(Range(attached))
  /\ chat \in Seq(Range(chat))

\* What a turn lists are the files its calls wrote, each once; another turn's
\* calls have other names.
ProducedFits(a) ==
  /\ turn[a].calls \in Nat
  /\ turn[a].produced \in Seq(turn[a].written)
  /\ \A f \in turn[a].written :
       /\ \E i \in DOMAIN turn[a].produced : turn[a].produced[i] = f
       /\ \E n \in 1 .. turn[a].calls : f.name = <<a, n>>
  /\ \A i, j \in DOMAIN turn[a].produced : turn[a].produced[i] = turn[a].produced[j] => i = j
  /\ turn[a].at = "idle" => turn[a].written = {}

\* A turn begins when the message has been taken apart and its files are there.
PromptFits(a) ==
  turn[a].at # "idle" =>
    /\ content # <<>> /\ specs = <<>>
    /\ turn[a].parts[1].of = Words
    /\ [i \in DOMAIN attached |-> attached[i].name]
          = [i \in 1 .. Len(turn[a].parts) - 1 |-> turn[a].parts[i + 1].of]

SentFits ==
  /\ \A i \in DOMAIN chat : chat[i].file \in Sent
  /\ \A f \in Sent : \E i \in DOMAIN chat : chat[i].file = f
  /\ \A i, j \in DOMAIN chat : chat[i].file = chat[j].file => i = j

FilesInductive ==
  /\ FilesShape
  /\ \A a \in Worker : ProducedFits(a) /\ PromptFits(a)
  /\ SentFits

LEMMA FilesStart == AttachmentsInit => FilesInductive
<1> SUFFICES ASSUME AttachmentsInit PROVE FilesInductive
  OBVIOUS
<1>1. FilesShape
  BY DEF AttachmentsInit, FilesShape, NoTurn
<1>2. ASSUME NEW a \in Worker PROVE ProducedFits(a) /\ PromptFits(a)
  <2>1. turn[a] = NoTurn
    BY DEF AttachmentsInit
  <2> QED
    BY <2>1 DEF NoTurn, ProducedFits, PromptFits
<1>3. Sent = {}
  BY DEF AttachmentsInit, Sent, NoTurn
<1>4. SentFits
  BY <1>3 DEF AttachmentsInit, SentFits
<1> QED
  BY <1>1, <1>2, <1>4 DEF FilesInductive

\* The turns of others are as they were.
LEMMA OtherTurn ==
  ASSUME NEW b \in Worker, ProducedFits(b), PromptFits(b), turn'[b] = turn[b],
         turn[b].at = "idle" \/ (content' = content /\ specs' = specs /\ attached' = attached)
  PROVE  ProducedFits(b)' /\ PromptFits(b)'
<1>1. ProducedFits(b)'
  BY DEF ProducedFits
<1>2. CASE turn[b].at = "idle"
  BY <1>1, <1>2 DEF PromptFits
<1>3. CASE content' = content /\ specs' = specs /\ attached' = attached
  BY <1>1, <1>3 DEF PromptFits
<1> QED
  BY <1>2, <1>3

\* The message before any turn: the files come in.
LEMMA MessageFits ==
  ASSUME FilesInductive, handleMessageWithFiles \/ downloadAndSave
  PROVE  FilesInductive'
<1>1. UNCHANGED <<turn, chat>> /\ (content = <<>> \/ specs # <<>>)
  BY DEF handleMessageWithFiles, downloadAndSave
<1>2. attached' \in Seq(Range(attached'))
  <2>1. attached \in Seq(Range(attached))
    BY DEF FilesInductive, FilesShape
  <2>2. attached' = attached \/ \E f : attached' = Append(attached, f)
    BY DEF handleMessageWithFiles, downloadAndSave
  <2> QED
    BY <2>1, <2>2, AppendedRange
<1>3. FilesShape'
  BY <1>1, <1>2 DEF FilesInductive, FilesShape
<1>4. \A a \in Worker : turn[a].at = "idle"
  BY <1>1 DEF FilesInductive, PromptFits
<1>5. \A a \in Worker : ProducedFits(a)' /\ PromptFits(a)'
  BY <1>1, <1>4, OtherTurn DEF FilesInductive
<1>6. SentFits'
  BY <1>1 DEF FilesInductive, SentFits, Sent
<1> QED
  BY <1>3, <1>5, <1>6 DEF FilesInductive

LEMMA BegunRecord ==
  ASSUME NEW at, NEW parts, NEW calls, NEW written, NEW produced, NEW direct,
         NEW t, NEW d, NEW p,
         NEW x, x = [at |-> at, parts |-> parts, calls |-> calls, written |-> written,
                     produced |-> produced, direct |-> direct]
  PROVE  [x EXCEPT !.at = t, !.direct = d, !.parts = p]
           = [at |-> t, parts |-> p, calls |-> calls, written |-> written,
              produced |-> produced, direct |-> d]
<1> DEFINE y == [x EXCEPT !.at = t]
           z == [y EXCEPT !.direct = d]
<1>1. y = [at |-> t, parts |-> parts, calls |-> calls, written |-> written,
           produced |-> produced, direct |-> direct]
  OBVIOUS
<1>2. [x EXCEPT !.at = t, !.direct = d, !.parts = p] = [z EXCEPT !.parts = p]
  OBVIOUS
<1> HIDE DEF y
<1>3. z = [at |-> t, parts |-> parts, calls |-> calls, written |-> written,
           produced |-> produced, direct |-> d]
  BY <1>1
<1> HIDE DEF z
<1>4. [z EXCEPT !.parts = p] = [at |-> t, parts |-> p, calls |-> calls, written |-> written,
                                produced |-> produced, direct |-> d]
  BY <1>3
<1> QED
  BY <1>2, <1>4

LEMMA BegunTurn ==
  ASSUME NEW a, NEW direct
  PROVE  Begins(a, direct)
           = [at |-> Begins(a, direct).at, parts |-> Begins(a, direct).parts,
              calls |-> Begins(a, direct).calls, written |-> Begins(a, direct).written,
              produced |-> Begins(a, direct).produced, direct |-> Begins(a, direct).direct]
<1> DEFINE message0 == IF attached = <<>> THEN <<[of |-> Words, as |-> "text"]>> ELSE buildUserMessage
<1>1. Begins(a, direct) = [at |-> "working", parts |-> message0, calls |-> 0, written |-> {},
                           produced |-> <<>>, direct |-> direct]
  <2>1. Begins(a, direct) = [NoTurn EXCEPT !.at = "working", !.direct = direct, !.parts = message0]
    BY DEF Begins
  <2>2. NoTurn = [at |-> "idle", parts |-> <<>>, calls |-> 0, written |-> {},
                  produced |-> <<>>, direct |-> FALSE]
    BY DEF NoTurn
  <2> HIDE DEF message0
  <2> QED
    BY <2>1, <2>2, BegunRecord, Zenon
<1> HIDE DEF message0
<1> QED
  BY <1>1

\* A turn begins with the words of the message and a part for every attachment.
LEMMA TurnBegins ==
  ASSUME attached \in Seq(Range(attached)), content # <<>>, specs = <<>>,
         NEW a \in Worker, NEW direct,
         UNCHANGED <<content, specs, attached>>, turn'[a] = Begins(a, direct)
  PROVE  ProducedFits(a)' /\ PromptFits(a)' /\ turn'[a].at = "working" /\ turn'[a].written = {}
<1> DEFINE w == [of |-> Words, as |-> "text"]
           message0 == IF attached = <<>> THEN <<w>> ELSE buildUserMessage
<1>1. turn'[a] = [at |-> "working", parts |-> message0, calls |-> 0, written |-> {},
                  produced |-> <<>>, direct |-> direct]
  BY DEF Begins, NoTurn
<1>2. ProducedFits(a)'
  BY <1>1 DEF ProducedFits
<1>3. /\ message0[1].of = Words
      /\ [i \in DOMAIN attached |-> attached[i].name]
            = [i \in 1 .. Len(message0) - 1 |-> message0[i + 1].of]
  <2>1. CASE attached = <<>>
    <3>1. message0 = <<w>> /\ Len(<<w>>) = 1 /\ <<w>>[1] = w /\ w.of = Words
      BY <2>1
    <3>2. DOMAIN attached = {} /\ 1 .. (1 - 1) = {}
      BY <2>1
    <3> QED
      BY <3>1, <3>2
  <2>2. CASE attached # <<>>
    BY <2>2, UserMessage
  <2> QED
    BY <2>1, <2>2
<1> HIDE DEF message0
<1>4. PromptFits(a)'
  BY <1>1, <1>3 DEF PromptFits
<1> QED
  BY <1>1, <1>2, <1>4

\* Turns keep their shape when one of them gets a record of that shape.
LEMMA ShapeOfTurns ==
  ASSUME FilesShape, UNCHANGED attached, chat' \in Seq(Range(chat')), DOMAIN turn' = Worker,
         turn' = [b \in Worker |-> turn'[b]],
         \A b \in Worker :
           \/ turn'[b] = turn[b]
           \/ turn'[b] = [at |-> turn'[b].at, parts |-> turn'[b].parts,
                          calls |-> turn'[b].calls, written |-> turn'[b].written,
                          produced |-> turn'[b].produced, direct |-> turn'[b].direct]
  PROVE  FilesShape'
<1>1. \A b \in Worker : turn[b] = [at |-> turn[b].at, parts |-> turn[b].parts,
                          calls |-> turn[b].calls, written |-> turn[b].written,
                          produced |-> turn[b].produced, direct |-> turn[b].direct]
  BY DEF FilesShape
<1>2. \A b \in Worker : turn'[b] = [at |-> turn'[b].at, parts |-> turn'[b].parts,
                          calls |-> turn'[b].calls, written |-> turn'[b].written,
                          produced |-> turn'[b].produced, direct |-> turn'[b].direct]
  BY <1>1
<1>3. attached' \in Seq(Range(attached'))
  BY DEF FilesShape
<1>4. turn' = [b \in Worker |-> [at |-> turn'[b].at, parts |-> turn'[b].parts,
                          calls |-> turn'[b].calls, written |-> turn'[b].written,
                          produced |-> turn'[b].produced, direct |-> turn'[b].direct]]
  BY <1>2
<1> QED
  BY <1>3, <1>4 DEF FilesShape

\* A step of one turn, or of the executive and the sub-agent it starts, which does
\* not answer, leaves what was sent.
LEMMA SentStays ==
  ASSUME SentFits, UNCHANGED chat,
         \A b \in Worker : /\ turn'[b].at = "answered" <=> turn[b].at = "answered"
                           /\ turn[b].at = "answered" => turn'[b].written = turn[b].written
  PROVE  SentFits'
<1>1. Sent' = Sent
  BY DEF Sent
<1> QED
  BY <1>1 DEF SentFits

\* A file that is gone is missed by nobody here.
LEMMA VanishedFits ==
  ASSUME FilesInductive, NEW f, Vanishes(f)
  PROVE  FilesInductive'
<1>1. UNCHANGED <<content, specs, attached, turn, chat>>
  BY DEF Vanishes
<1>2. FilesShape'
  BY <1>1 DEF FilesInductive, FilesShape
<1>3. \A a \in Worker : ProducedFits(a)' /\ PromptFits(a)'
  BY <1>1, OtherTurn DEF FilesInductive
<1>4. SentFits'
  BY <1>1, SentStays DEF FilesInductive
<1> QED
  BY <1>2, <1>3, <1>4 DEF FilesInductive

\* A step of one turn.
LEMMA OneTurn ==
  ASSUME FilesInductive, NEW a \in Worker,
         NEW r, r = [at |-> r.at, parts |-> r.parts, calls |-> r.calls, written |-> r.written,
                     produced |-> r.produced, direct |-> r.direct],
         turn' = [turn EXCEPT ![a] = r], UNCHANGED <<content, specs, attached>>,
         chat' \in Seq(Range(chat')), ProducedFits(a)', PromptFits(a)'
  PROVE  /\ FilesShape'
         /\ \A b \in Worker : ProducedFits(b)' /\ PromptFits(b)'
<1>1. FilesShape /\ DOMAIN turn = Worker
  BY DEF FilesInductive, FilesShape
<1>2. turn'[a] = r /\ DOMAIN turn' = Worker /\ \A b \in Worker \ {a} : turn'[b] = turn[b]
  BY <1>1
<1>3. turn' = [b \in Worker |-> turn'[b]]
  BY <1>1
<1>4. FilesShape'
  BY <1>1, <1>2, <1>3, ShapeOfTurns
<1>5. \A b \in Worker \ {a} : ProducedFits(b)' /\ PromptFits(b)'
  BY <1>2, OtherTurn DEF FilesInductive
<1> QED
  BY <1>4, <1>5

LEMMA PreparedFits ==
  ASSUME FilesInductive, prepareExecution
  PROVE  FilesInductive'
<1> DEFINE r == Begins("executive", TRUE)
<1>1. /\ content # <<>> /\ specs = <<>> /\ turn["executive"].at = "idle"
      /\ turn' = [turn EXCEPT !["executive"] = r]
      /\ UNCHANGED <<content, specs, attached, chat>>
  BY DEF prepareExecution
<1>2. "executive" \in Worker /\ DOMAIN turn = Worker /\ attached \in Seq(Range(attached))
      /\ chat \in Seq(Range(chat))
  BY DEF Worker, FilesInductive, FilesShape
<1>3. turn'["executive"] = r /\ \A b \in Worker \ {"executive"} : turn'[b] = turn[b]
  BY <1>1, <1>2
<1>4. r = [at |-> r.at, parts |-> r.parts, calls |-> r.calls, written |-> r.written,
           produced |-> r.produced, direct |-> r.direct]
  BY BegunTurn, Zenon
<1> HIDE DEF r
<1>5. ProducedFits("executive")' /\ PromptFits("executive")' /\ turn'["executive"].at = "working"
  BY <1>1, <1>2, <1>3, TurnBegins DEF r
<1>6. FilesShape' /\ \A b \in Worker : ProducedFits(b)' /\ PromptFits(b)'
  BY <1>1, <1>2, <1>4, <1>5, OneTurn
<1>7. SentFits'
  BY <1>1, <1>3, <1>5, SentStays DEF FilesInductive
<1> QED
  BY <1>6, <1>7 DEF FilesInductive

\* The turn after a call.
LEMMA CalledTurn ==
  ASSUME NEW at, NEW parts, NEW calls, NEW written, NEW produced, NEW direct,
         NEW c, NEW w, NEW p,
         NEW x, x = [at |-> at, parts |-> parts, calls |-> calls, written |-> written,
                     produced |-> produced, direct |-> direct]
  PROVE  /\ [x EXCEPT !.calls = c, !.written = w, !.produced = p]
              = [at |-> at, parts |-> parts, calls |-> c, written |-> w,
                 produced |-> p, direct |-> direct]
         /\ [x EXCEPT !.calls = c]
              = [at |-> at, parts |-> parts, calls |-> c, written |-> written,
                 produced |-> produced, direct |-> direct]
<1> DEFINE y == [x EXCEPT !.calls = c]
           z == [y EXCEPT !.written = w]
<1>1. y = [at |-> at, parts |-> parts, calls |-> c, written |-> written,
           produced |-> produced, direct |-> direct]
  OBVIOUS
<1>2. [x EXCEPT !.calls = c, !.written = w, !.produced = p] = [z EXCEPT !.produced = p]
  OBVIOUS
<1> HIDE DEF y
<1>3. z = [at |-> at, parts |-> parts, calls |-> c, written |-> w,
           produced |-> produced, direct |-> direct]
  BY <1>1
<1> HIDE DEF z
<1>4. [z EXCEPT !.produced = p] = [at |-> at, parts |-> parts, calls |-> c, written |-> w,
                                   produced |-> p, direct |-> direct]
  BY <1>3
<1> QED
  BY <1>1, <1>2, <1>4 DEF y

\* A call of a turn: it may have written a file of its own name.
LEMMA CallFits ==
  ASSUME FilesInductive, NEW a \in Worker, processToolCalls(a)
  PROVE  FilesInductive'
<1> DEFINE f == File(<<a, turn[a].calls + 1>>, "octet-stream")
           with == [turn[a] EXCEPT !.calls = @ + 1, !.written = @ \cup {f},
                                   !.produced = Append(@, f)]
           without == [turn[a] EXCEPT !.calls = @ + 1]
<1>1. /\ turn[a].at = "working"
      /\ \/ turn' = [turn EXCEPT ![a] = with]
         \/ turn' = [turn EXCEPT ![a] = without]
      /\ UNCHANGED <<content, specs, attached, chat>>
  BY DEF processToolCalls, Busy, Produced
<1>2. /\ turn[a] = [at |-> turn[a].at, parts |-> turn[a].parts, calls |-> turn[a].calls,
                    written |-> turn[a].written, produced |-> turn[a].produced,
                    direct |-> turn[a].direct]
      /\ DOMAIN turn = Worker /\ chat \in Seq(Range(chat))
  BY DEF FilesInductive, FilesShape
<1>3. /\ with = [at |-> "working", parts |-> turn[a].parts, calls |-> turn[a].calls + 1,
                 written |-> turn[a].written \cup {f}, produced |-> Append(turn[a].produced, f),
                 direct |-> turn[a].direct]
      /\ without = [at |-> "working", parts |-> turn[a].parts, calls |-> turn[a].calls + 1,
                    written |-> turn[a].written, produced |-> turn[a].produced,
                    direct |-> turn[a].direct]
  <2>1. /\ with = [turn[a] EXCEPT !.calls = turn[a].calls + 1, !.written = turn[a].written \cup {f},
                                  !.produced = Append(turn[a].produced, f)]
        /\ without = [turn[a] EXCEPT !.calls = turn[a].calls + 1]
    OBVIOUS
  <2> HIDE DEF f, with, without
  <2> QED
    BY <1>1, <1>2, <2>1, CalledTurn
<1>4. f.name = <<a, turn[a].calls + 1>>
  BY DEF File
<1> HIDE DEF f, with, without
<1>5. ProducedFits(a) /\ PromptFits(a)
  BY DEF FilesInductive
<1>6. PICK r : r \in {with, without} /\ turn' = [turn EXCEPT ![a] = r]
  BY <1>1
<1>7. turn'[a] = r /\ \A b \in Worker \ {a} : turn'[b] = turn[b]
  BY <1>2, <1>6
<1>8. PromptFits(a)'
  <2>1. turn'[a].parts = turn[a].parts /\ turn'[a].at = turn[a].at
    BY <1>1, <1>3, <1>6, <1>7
  <2> QED
    BY <1>1, <1>5, <2>1 DEF PromptFits
<1>9. ProducedFits(a)'
  <2>1. CASE r = without
    <3>1. /\ turn'[a].at = "working" /\ turn'[a].calls = turn[a].calls + 1
          /\ turn'[a].written = turn[a].written /\ turn'[a].produced = turn[a].produced
      BY <1>3, <1>7, <2>1
    <3>2. turn[a].calls + 1 \in Nat /\ \A k \in 1 .. turn[a].calls : k \in 1 .. turn[a].calls + 1
      BY <1>5 DEF ProducedFits
    <3> QED
      BY <1>5, <3>1, <3>2 DEF ProducedFits
  <2>2. CASE r = with
    <3> DEFINE old == turn[a].produced
               n == turn[a].calls
               W == turn[a].written
    <3>1. /\ n \in Nat /\ old \in Seq(W)
          /\ \A g \in W : /\ \E i \in DOMAIN old : old[i] = g
                           /\ \E k \in 1 .. n : g.name = <<a, k>>
          /\ \A i, j \in DOMAIN old : old[i] = old[j] => i = j
      BY <1>5 DEF ProducedFits
    <3>2. /\ turn'[a].at = "working" /\ turn'[a].calls = n + 1
          /\ turn'[a].written = W \cup {f} /\ turn'[a].produced = Append(old, f)
      BY <1>3, <1>7, <2>2
    <3>3. f \notin W
      <4>1. \A k \in 1 .. n : f.name # <<a, k>>
        BY <1>4, <3>1
      <4> QED
        BY <3>1, <4>1
    <3> HIDE DEF old, n, W
    <3>4. Append(old, f) \in Seq(W \cup {f}) /\ Len(Append(old, f)) = Len(old) + 1
          /\ Append(old, f)[Len(old) + 1] = f
          /\ \A i \in DOMAIN old : Append(old, f)[i] = old[i] /\ old[i] \in W
      <4>1. old \in Seq(W \cup {f})
        BY <3>1, SeqMonotonic
      <4> QED
        BY <3>1, <4>1
    <3>5. DOMAIN old = 1 .. Len(old) /\ DOMAIN Append(old, f) = 1 .. Len(old) + 1 /\ Len(old) \in Nat
      BY <3>1, <3>4
    <3>6. \A g \in W \cup {f} : /\ \E i \in DOMAIN Append(old, f) : Append(old, f)[i] = g
                              /\ \E k \in 1 .. n + 1 : g.name = <<a, k>>
      <4> SUFFICES ASSUME NEW g \in W \cup {f}
                   PROVE  /\ \E i \in DOMAIN Append(old, f) : Append(old, f)[i] = g
                          /\ \E k \in 1 .. n + 1 : g.name = <<a, k>>
        OBVIOUS
      <4>1. CASE g = f
        <5>1. n + 1 \in 1 .. n + 1 /\ g.name = <<a, n + 1>>
          BY <1>4, <3>1, <4>1 DEF n
        <5>2. Len(old) + 1 \in DOMAIN Append(old, f)
          BY <3>5
        <5> QED
          BY <3>4, <4>1, <5>1, <5>2
      <4>2. CASE g \in W
        <5>1. PICK i \in DOMAIN old : old[i] = g
          BY <3>1, <4>2
        <5>2. i \in DOMAIN Append(old, f)
          BY <3>5
        <5>3. PICK k \in 1 .. n : g.name = <<a, k>>
          BY <3>1, <4>2
        <5>4. k \in 1 .. n + 1
          BY <3>1
        <5> QED
          BY <3>4, <5>1, <5>2, <5>3, <5>4
      <4> QED
        BY <4>1, <4>2
    <3>7. \A i, j \in DOMAIN Append(old, f) : Append(old, f)[i] = Append(old, f)[j] => i = j
      <4>1. \A i \in 1 .. Len(old) + 1 : i \in DOMAIN old \/ i = Len(old) + 1
        BY <3>5
      <4> QED
        BY <3>1, <3>3, <3>4, <3>5, <4>1
    <3>8. n + 1 \in Nat
      BY <3>1
    <3> QED
      BY <3>2, <3>4, <3>6, <3>7, <3>8 DEF ProducedFits
  <2> QED
    BY <1>6, <2>1, <2>2
<1>10. r = [at |-> r.at, parts |-> r.parts, calls |-> r.calls, written |-> r.written,
            produced |-> r.produced, direct |-> r.direct]
  BY <1>3, <1>6
<1>11. FilesShape' /\ \A b \in Worker : ProducedFits(b)' /\ PromptFits(b)'
  BY <1>1, <1>2, <1>6, <1>8, <1>9, <1>10, OneTurn
<1>12. SentFits'
  <2>1. r.at = "working"
    BY <1>3, <1>6
  <2> QED
    BY <1>1, <1>7, <2>1, SentStays DEF FilesInductive
<1> QED
  BY <1>11, <1>12 DEF FilesInductive

\* A delegation: the sub-agent's turn begins, and the call is the executive's.
LEMMA DelegationFits ==
  ASSUME FilesInductive, NEW direct, requestDelegation(direct)
  PROVE  FilesInductive'
<1> DEFINE e == [turn["executive"] EXCEPT !.calls = turn["executive"].calls + 1]
           b == Begins("sub", direct)
<1>1. /\ turn["executive"].at = "working" /\ turn["sub"].at = "idle"
      /\ turn' = [turn EXCEPT !["executive"] = e, !["sub"] = b]
      /\ UNCHANGED <<content, specs, attached, chat>>
  BY DEF requestDelegation, Busy
<1>2. /\ FilesShape /\ DOMAIN turn = Worker /\ attached \in Seq(Range(attached))
      /\ chat \in Seq(Range(chat)) /\ Worker = {"executive", "sub"}
      /\ ProducedFits("executive") /\ PromptFits("executive")
  BY DEF Worker, FilesInductive, FilesShape
<1>3. e = [at |-> turn["executive"].at, parts |-> turn["executive"].parts,
           calls |-> turn["executive"].calls + 1, written |-> turn["executive"].written,
           produced |-> turn["executive"].produced, direct |-> turn["executive"].direct]
  <2>1. turn["executive"] = [at |-> turn["executive"].at, parts |-> turn["executive"].parts,
                              calls |-> turn["executive"].calls,
                              written |-> turn["executive"].written,
                              produced |-> turn["executive"].produced,
                              direct |-> turn["executive"].direct]
    BY <1>2 DEF FilesShape
  <2> QED
    BY <2>1
<1> HIDE DEF e, b
<1>4. turn'["executive"] = e /\ turn'["sub"] = b /\ DOMAIN turn' = Worker
      /\ turn' = [w \in Worker |-> turn'[w]]
  BY <1>1, <1>2
<1>5. content # <<>> /\ specs = <<>>
  BY <1>1, <1>2 DEF PromptFits
<1>6. ProducedFits("sub")' /\ PromptFits("sub")' /\ b.at = "working"
  <2>1. "sub" \in Worker
    BY <1>2
  <2> QED
    BY <1>1, <1>2, <1>4, <1>5, <2>1, TurnBegins DEF b
<1>7. PromptFits("executive")'
  BY <1>1, <1>2, <1>3, <1>4 DEF PromptFits
<1>8. ProducedFits("executive")'
  <2>1. /\ e.at = "working" /\ e.calls = turn["executive"].calls + 1
        /\ e.written = turn["executive"].written /\ e.produced = turn["executive"].produced
    BY <1>1, <1>3
  <2>2. /\ turn["executive"].calls + 1 \in Nat
        /\ \A k \in 1 .. turn["executive"].calls : k \in 1 .. turn["executive"].calls + 1
    BY <1>2 DEF ProducedFits
  <2> QED
    BY <1>2, <1>4, <2>1, <2>2 DEF ProducedFits
<1>9. FilesShape'
  <2>1. e = [at |-> e.at, parts |-> e.parts, calls |-> e.calls, written |-> e.written,
             produced |-> e.produced, direct |-> e.direct]
    BY <1>3
  <2>2. b = [at |-> b.at, parts |-> b.parts, calls |-> b.calls, written |-> b.written,
             produced |-> b.produced, direct |-> b.direct]
    BY BegunTurn, Zenon DEF b
  <2> QED
    BY <1>1, <1>2, <1>4, <2>1, <2>2, ShapeOfTurns
<1>10. SentFits'
  <2>1. e.at = "working"
    BY <1>1, <1>3
  <2> QED
    BY <1>1, <1>2, <1>4, <1>6, <2>1, SentStays DEF FilesInductive
<1> QED
  BY <1>2, <1>6, <1>7, <1>8, <1>9, <1>10 DEF FilesInductive

\* The end of a turn changes nothing but that it is at its end.
LEMMA EndedTurn ==
  ASSUME FilesInductive, NEW a \in Worker, NEW how, Ends(a, how), how # "idle",
         turn[a].at = "working", UNCHANGED <<content, specs, attached>>,
         chat' \in Seq(Range(chat'))
  PROVE  /\ turn'[a].at = how /\ turn'[a].written = turn[a].written
         /\ \A b \in Worker \ {a} : turn'[b] = turn[b]
         /\ FilesShape' /\ \A b \in Worker : ProducedFits(b)' /\ PromptFits(b)'
<1> DEFINE r == [turn[a] EXCEPT !.at = how]
<1>1. turn' = [turn EXCEPT ![a] = r]
  BY DEF Ends
<1>2. /\ turn[a] = [at |-> turn[a].at, parts |-> turn[a].parts, calls |-> turn[a].calls,
                    written |-> turn[a].written, produced |-> turn[a].produced,
                    direct |-> turn[a].direct]
      /\ DOMAIN turn = Worker /\ ProducedFits(a) /\ PromptFits(a)
  BY DEF FilesInductive, FilesShape
<1>3. r = [at |-> how, parts |-> turn[a].parts, calls |-> turn[a].calls,
           written |-> turn[a].written, produced |-> turn[a].produced,
           direct |-> turn[a].direct]
  BY <1>2
<1> HIDE DEF r
<1>4. turn'[a] = r /\ \A b \in Worker \ {a} : turn'[b] = turn[b]
  BY <1>1, <1>2
<1>5. PromptFits(a)'
  <2>1. turn'[a].parts = turn[a].parts
    BY <1>3, <1>4
  <2>2. /\ content # <<>> /\ specs = <<>> /\ turn[a].parts[1].of = Words
        /\ [i \in DOMAIN attached |-> attached[i].name]
              = [i \in 1 .. Len(turn[a].parts) - 1 |-> turn[a].parts[i + 1].of]
    BY <1>2 DEF PromptFits
  <2>3. content' = content /\ specs' = specs /\ attached' = attached
    OBVIOUS
  <2> QED
    BY <2>1, <2>2, <2>3 DEF PromptFits
<1>6. ProducedFits(a)'
  <2>1. /\ turn'[a].at # "idle" /\ turn'[a].calls = turn[a].calls
        /\ turn'[a].written = turn[a].written /\ turn'[a].produced = turn[a].produced
    BY <1>3, <1>4
  <2>2. ProducedFits(a)
    BY <1>2
  <2>3. turn'[a].calls \in Nat /\ turn'[a].produced \in Seq(turn'[a].written)
    BY <2>1, <2>2 DEF ProducedFits
  <2>4. \A f \in turn'[a].written :
          /\ \E i \in DOMAIN turn'[a].produced : turn'[a].produced[i] = f
          /\ \E n \in 1 .. turn'[a].calls : f.name = <<a, n>>
    <3> SUFFICES ASSUME NEW f \in turn'[a].written
                 PROVE  /\ \E i \in DOMAIN turn'[a].produced : turn'[a].produced[i] = f
                        /\ \E n \in 1 .. turn'[a].calls : f.name = <<a, n>>
      OBVIOUS
    <3>1. f \in turn[a].written
      BY <2>1
    <3>2. /\ \E i \in DOMAIN turn[a].produced : turn[a].produced[i] = f
          /\ \E n \in 1 .. turn[a].calls : f.name = <<a, n>>
      BY <2>2, <3>1 DEF ProducedFits
    <3> QED
      BY <2>1, <3>2
  <2>5. \A i, j \in DOMAIN turn'[a].produced : turn'[a].produced[i] = turn'[a].produced[j] => i = j
    BY <2>1, <2>2 DEF ProducedFits
  <2> HIDE <1>1, <1>3, <1>4
  <2> QED
    BY <2>1, <2>3, <2>4, <2>5 DEF ProducedFits
<1>7. r = [at |-> r.at, parts |-> r.parts, calls |-> r.calls, written |-> r.written,
           produced |-> r.produced, direct |-> r.direct]
  BY <1>3
<1>8. FilesShape' /\ \A b \in Worker : ProducedFits(b)' /\ PromptFits(b)'
  BY <1>1, <1>5, <1>6, <1>7, OneTurn
<1> QED
  BY <1>3, <1>4, <1>8

\* An end without an answer.
LEMMA QuietEnd ==
  ASSUME FilesInductive, NEW a \in Worker, NEW how, Ends(a, how), how \notin {"idle", "answered"},
         turn[a].at = "working", UNCHANGED <<content, specs, attached, chat>>
  PROVE  FilesInductive'
<1>1. chat' \in Seq(Range(chat'))
  BY DEF FilesInductive, FilesShape
<1>2. /\ turn'[a].at = how /\ \A b \in Worker \ {a} : turn'[b] = turn[b]
      /\ FilesShape' /\ \A b \in Worker : ProducedFits(b)' /\ PromptFits(b)'
  BY <1>1, EndedTurn
<1>3. SentFits'
  BY <1>2, SentStays DEF FilesInductive
<1> QED
  BY <1>2, <1>3 DEF FilesInductive

\* An answer with words: the files of the turn go out.
LEMMA AnsweredTurn ==
  ASSUME FilesInductive, NEW a \in Worker, NEW lost, Ends(a, "answered"), turn[a].at = "working",
         UNCHANGED <<content, specs, attached>>, chat' = chat \o sendAttachments(a, lost)
  PROVE  FilesInductive'
<1> DEFINE new == sendAttachments(a, lost)
           files == turn[a].produced
           W == turn[a].written
<1>1. /\ files \in Seq(W)
      /\ \A f \in W : /\ \E i \in DOMAIN files : files[i] = f
                      /\ \E n \in 1 .. turn[a].calls : f.name = <<a, n>>
      /\ \A i, j \in DOMAIN files : files[i] = files[j] => i = j
  BY DEF FilesInductive, ProducedFits
<1>2. DOMAIN new = DOMAIN files /\ \A i \in DOMAIN files : new[i].file = files[i]
  BY DEF sendAttachments
<1>3. new \in Seq(Range(new)) /\ Len(new) = Len(files)
  <2>1. DOMAIN files = 1 .. Len(files) /\ Len(files) \in Nat
    BY <1>1
  <2>2. new = [i \in 1 .. Len(files) |-> new[i]]
    BY <2>1 DEF sendAttachments
  <2>3. \A i \in 1 .. Len(files) : new[i] \in Range(new)
    BY <1>2, <2>1 DEF Range
  <2> HIDE DEF new, files
  <2> QED
    BY <2>1, <2>2, <2>3
<1>4. chat \in Seq(Range(chat))
  BY DEF FilesInductive, FilesShape
<1> HIDE DEF new, files, W
<1> DEFINE m == Len(chat)
           k == Len(files)
<1>5. /\ m \in Nat /\ k \in Nat /\ DOMAIN chat = 1 .. m /\ DOMAIN files = 1 .. k
  BY <1>1, <1>4
<1>6. /\ chat' \in Seq(Range(chat')) /\ DOMAIN chat' = 1 .. m + k
      /\ \A i \in 1 .. m : chat'[i] = chat[i]
      /\ \A i \in m + 1 .. m + k : i - m \in 1 .. k /\ chat'[i].file = files[i - m]
  <2> DEFINE B == Range(chat) \cup Range(new)
  <2>1. chat \in Seq(B) /\ new \in Seq(B)
    BY <1>3, <1>4, SeqMonotonic
  <2> HIDE DEF B
  <2>6. chat' = chat \o new
    BY DEF new
  <2>7. /\ chat \o new \in Seq(B) /\ Len(chat \o new) = Len(chat) + Len(new)
        /\ \A i \in 1 .. Len(chat) + Len(new) :
              (chat \o new)[i] = IF i <= Len(chat) THEN chat[i] ELSE new[i - Len(chat)]
    BY <2>1, ConcatProperties, Zenon
  <2>2. /\ chat' \in Seq(B) /\ Len(chat') = m + k
        /\ \A i \in 1 .. m + k : chat'[i] = IF i <= m THEN chat[i] ELSE new[i - m]
    BY <1>3, <2>6, <2>7
  <2>3. chat' \in Seq(Range(chat'))
    BY <2>2, SeqOfRange
  <2>4. \A i \in m + 1 .. m + k : i - m \in 1 .. k /\ ~(i <= m) /\ i \in 1 .. m + k
    BY <1>5
  <2>5. \A i \in 1 .. m : i \in 1 .. m + k /\ i <= m
    BY <1>5
  <2> QED
    BY <1>2, <1>5, <2>2, <2>3, <2>4, <2>5
<1> HIDE DEF m, k
<1>7. /\ turn'[a].at = "answered" /\ turn'[a].written = W
      /\ \A b \in Worker \ {a} : turn'[b] = turn[b]
      /\ FilesShape' /\ \A b \in Worker : ProducedFits(b)' /\ PromptFits(b)'
  BY <1>6, EndedTurn DEF W
<1>8. Sent' = Sent \cup W
  BY <1>7 DEF Sent
<1>9. Sent \cap W = {}
  <2> SUFFICES ASSUME NEW f \in W, f \in Sent PROVE FALSE
    OBVIOUS
  <2>1. PICK b \in Worker : turn[b].at = "answered" /\ f \in turn[b].written
    BY DEF Sent
  <2>2. b # a
    BY <2>1
  <2>3. PICK n \in 1 .. turn[b].calls : f.name = <<b, n>>
    BY <2>1 DEF FilesInductive, ProducedFits
  <2>4. PICK j \in 1 .. turn[a].calls : f.name = <<a, j>>
    BY <1>1
  <2> QED
    BY <2>2, <2>3, <2>4
<1>10. SentFits
  BY DEF FilesInductive
<1>11. \A i \in 1 .. m + k : i \in 1 .. m \/ i \in m + 1 .. m + k
  BY <1>5
<1>12. \A i \in 1 .. k : files[i] \in W
  BY <1>1, <1>5
<1>13. \A i \in 1 .. m : chat'[i].file \in Sent
  BY <1>5, <1>6, <1>10 DEF SentFits
<1>14. \A i \in m + 1 .. m + k : chat'[i].file \in W
  BY <1>6, <1>12
<1>15. \A f \in Sent' : \E i \in DOMAIN chat' : chat'[i].file = f
  <2>1. ASSUME NEW f \in Sent PROVE \E i \in DOMAIN chat' : chat'[i].file = f
    <3>1. PICK i \in 1 .. m : chat[i].file = f
      BY <1>5, <1>10 DEF SentFits
    <3>2. i \in 1 .. m + k
      BY <1>5
    <3> QED
      BY <1>6, <3>1, <3>2
  <2>2. ASSUME NEW f \in W PROVE \E i \in DOMAIN chat' : chat'[i].file = f
    <3>1. PICK i \in 1 .. k : files[i] = f
      BY <1>1, <1>5
    <3>2. m + i \in m + 1 .. m + k /\ (m + i) - m = i /\ m + i \in 1 .. m + k
      BY <1>5
    <3>3. chat'[m + i].file = files[(m + i) - m]
      BY <1>6, <3>2
    <3> QED
      BY <1>6, <3>1, <3>2, <3>3
  <2> QED
    BY <1>8, <2>1, <2>2
<1>16. ASSUME NEW i \in DOMAIN chat', NEW j \in DOMAIN chat', chat'[i].file = chat'[j].file
       PROVE  i = j
  <2>1. CASE i \in 1 .. m /\ j \in 1 .. m
    BY <1>5, <1>6, <1>10, <1>16, <2>1 DEF SentFits
  <2>2. CASE i \in m + 1 .. m + k /\ j \in m + 1 .. m + k
    <3>1. files[i - m] = files[j - m] /\ i - m \in DOMAIN files /\ j - m \in DOMAIN files
      BY <1>5, <1>6, <1>16, <2>2
    <3>2. i - m = j - m
      BY <1>1, <3>1
    <3> QED
      BY <1>5, <2>2, <3>2
  <2>3. ~(i \in 1 .. m /\ j \in m + 1 .. m + k) /\ ~(i \in m + 1 .. m + k /\ j \in 1 .. m)
    BY <1>9, <1>13, <1>14, <1>16
  <2> QED
    BY <1>6, <1>11, <2>1, <2>2, <2>3
<1>17. \A i \in DOMAIN chat' : chat'[i].file \in Sent'
  BY <1>6, <1>8, <1>11, <1>13, <1>14
<1>18. SentFits'
  BY <1>15, <1>16, <1>17 DEF SentFits
<1> QED
  BY <1>7, <1>18 DEF FilesInductive

LEMMA RoutedFits ==
  ASSUME FilesInductive, NEW a \in Worker, routeResponse(a)
  PROVE  FilesInductive'
<1>1. turn[a].at = "working" /\ UNCHANGED <<content, specs, attached>>
  BY DEF routeResponse
<1>2. CASE \E lost : chat' = chat \o sendAttachments(a, lost) /\ Ends(a, "answered")
  BY <1>1, <1>2, AnsweredTurn
<1>3. CASE (Ends(a, "wordless") \/ Ends(a, "reported")) /\ UNCHANGED chat
  BY <1>1, <1>3, QuietEnd
<1> QED
  BY <1>2, <1>3 DEF routeResponse

LEMMA FilesGoOn == FilesInductive /\ [AttachmentsNext]_attachmentVars => FilesInductive'
<1> SUFFICES ASSUME FilesInductive, [AttachmentsNext]_attachmentVars PROVE FilesInductive'
  OBVIOUS
<1>1. CASE UNCHANGED attachmentVars
  <2>1. UNCHANGED <<content, specs, attached, turn, chat>>
    BY <1>1 DEF attachmentVars
  <2>2. FilesShape'
    BY <2>1 DEF FilesInductive, FilesShape
  <2>3. \A a \in Worker : ProducedFits(a)' /\ PromptFits(a)'
    BY <2>1, OtherTurn DEF FilesInductive
  <2>4. SentFits'
    BY <2>1, SentStays DEF FilesInductive
  <2> QED
    BY <2>2, <2>3, <2>4 DEF FilesInductive
<1>2. ASSUME NEW a \in Worker, synthesizeFromContext(a) \/ Fails(a)
      PROVE  FilesInductive'
  <2>1. turn[a].at = "working" /\ UNCHANGED <<content, specs, attached, chat>>
        /\ (Ends(a, "synthesized") \/ Ends(a, "failed"))
    BY <1>2 DEF synthesizeFromContext, Fails
  <2> QED
    BY <2>1, QuietEnd
<1> QED
  BY <1>1, <1>2, MessageFits, PreparedFits, VanishedFits, DelegationFits, CallFits, RoutedFits
     DEF AttachmentsNext

\* Whatever cannot be fetched, typed, read or sent, and in whatever order the two
\* agents work: a prompt has a part for every attachment, and the chat is sent
\* every file of the turns that answered it once, and no other.
THEOREM FilesArriveOnce == AttachmentsSpec => []FilesAreHandedOn
<1>1. FilesInductive => FilesAreHandedOn
  <2> SUFFICES ASSUME FilesInductive PROVE FilesAreHandedOn
    OBVIOUS
  <2>1. {chat[i].file : i \in DOMAIN chat} = Sent
    BY DEF FilesInductive, SentFits
  <2>2. \A i, j \in DOMAIN chat : chat[i].file = chat[j].file => i = j
    BY DEF FilesInductive, SentFits
  <2>3. \A a \in Worker : PromptFits(a)
    BY DEF FilesInductive
  <2> QED
    BY <2>1, <2>2, <2>3 DEF FilesAreHandedOn, PromptFits, Sent
<1> QED
  BY <1>1, FilesStart, FilesGoOn, PTL DEF AttachmentsSpec

-----------------------------------------------------------------------------
(* The reminders.                                                          *)

\* The reminders of which an alert is on the bus, reached the user, or was lost.
WentOut == Outbound \cup shown \cup dropped

\* A reminder is marked as sent, or about to be, only when an alert went on the bus;
\* one that was not made has nothing in its row; without a fault nothing is lost.
SentFirst(i) ==
  /\ sentAt[i] => i \in WentOut
  /\ \A r \in Runner : i \in job[r].mark => i \in WentOut
  /\ reminders[i] = "new" => ~sentAt[i]
  /\ i \in dropped => trouble > 0

ReminderInv == ReminderTypeOK /\ \A i \in Reminder : SentFirst(i)

LEMMA NoEdit ==
  /\ {} \subseteq [id : Reminder, due : Time] /\ Cardinality({}) <= 1
  /\ \A e \in [id : Reminder, due : Time] : {e} \subseteq [id : Reminder, due : Time] /\ Cardinality({e}) <= 1
<1>1. Cardinality({}) <= 1
  BY FS_EmptySet
<1>2. ASSUME NEW e \in [id : Reminder, due : Time]
      PROVE  {e} \subseteq [id : Reminder, due : Time] /\ Cardinality({e}) <= 1
  <2>1. Cardinality({e}) = 1
    BY FS_Singleton
  <2> QED
    BY <2>1
<1> QED
  BY <1>1, <1>2

\* What an alert that is put and one that is taken leave of the bus.
LEMMA AlertIsPut ==
  ASSUME ReminderTypeOK, NEW i \in Reminder, Len(outbound) < BusSize, outbound' = Append(outbound, i)
  PROVE  outbound' \in Seq(Reminder) /\ Len(outbound') <= BusSize /\ Outbound' = Outbound \cup {i}
<1>1. outbound \in Seq(Reminder) /\ BusSize \in Nat
  BY RemindersAssumption DEF ReminderTypeOK
<1>2. /\ outbound' \in Seq(Reminder) /\ Len(outbound') = Len(outbound) + 1
      /\ \A n \in 1 .. Len(outbound) : outbound'[n] = outbound[n]
      /\ outbound'[Len(outbound) + 1] = i
  BY <1>1, AppendProperties
<1>3. Len(outbound) \in Nat /\ DOMAIN outbound = 1 .. Len(outbound) /\ DOMAIN outbound' = 1 .. Len(outbound')
  BY <1>1, <1>2, LenProperties
<1>4. Outbound' \subseteq Outbound \cup {i}
  <2> SUFFICES ASSUME NEW n \in DOMAIN outbound' PROVE outbound'[n] \in Outbound \cup {i}
    BY DEF Outbound
  <2>1. n \in 1 .. Len(outbound) \/ n = Len(outbound) + 1
    BY <1>2, <1>3
  <2> QED
    BY <2>1, <1>2, <1>3 DEF Outbound
<1>5. Outbound \cup {i} \subseteq Outbound'
  <2>1. DOMAIN outbound \subseteq DOMAIN outbound' /\ Len(outbound) + 1 \in DOMAIN outbound'
    BY <1>2, <1>3
  <2>2. ASSUME NEW n \in DOMAIN outbound PROVE outbound[n] \in Outbound'
    BY <2>1, <1>2, <1>3 DEF Outbound
  <2>3. i \in Outbound'
    BY <2>1, <1>2 DEF Outbound
  <2> QED
    BY <2>2, <2>3 DEF Outbound
<1> QED
  BY <1>1, <1>2, <1>3, <1>4, <1>5

LEMMA AlertIsTaken ==
  ASSUME ReminderTypeOK, outbound # <<>>, outbound' = Tail(outbound)
  PROVE  /\ outbound' \in Seq(Reminder) /\ Len(outbound') <= BusSize
         /\ Head(outbound) \in Reminder /\ Outbound \subseteq Outbound' \cup {Head(outbound)}
<1>1. outbound \in Seq(Reminder) /\ BusSize \in Nat /\ Len(outbound) <= BusSize
  BY RemindersAssumption DEF ReminderTypeOK
<1>2. /\ Head(outbound) \in Reminder /\ outbound' \in Seq(Reminder) /\ Len(outbound') = Len(outbound) - 1
      /\ \A n \in 1 .. Len(outbound') : outbound'[n] = outbound[n + 1]
  BY <1>1, HeadTailProperties
<1>3. /\ Len(outbound) \in Nat /\ DOMAIN outbound = 1 .. Len(outbound) /\ DOMAIN outbound' = 1 .. Len(outbound')
      /\ Head(outbound) = outbound[1]
  BY <1>1, <1>2, LenProperties
<1>4. ASSUME NEW n \in DOMAIN outbound, n # 1 PROVE outbound[n] \in Outbound'
  <2>1. n - 1 \in 1 .. Len(outbound') /\ (n - 1) + 1 = n
    BY <1>2, <1>3, <1>4
  <2>2. outbound'[n - 1] = outbound[n]
    BY <2>1, <1>2
  <2> QED
    BY <2>1, <2>2, <1>3 DEF Outbound
<1> QED
  BY <1>1, <1>2, <1>3, <1>4 DEF Outbound

LEMMA NoJobIs == NoJob \in [todo : SUBSET Reminder, mark : SUBSET Reminder] /\ NoJob.mark = {}
BY DEF NoJob

LEMMA RemindersStart == ReminderInit => ReminderInv
<1> SUFFICES ASSUME ReminderInit PROVE ReminderInv
  OBVIOUS
<1>1. ReminderTypeOK
  BY NoEdit, NoJobIs, RemindersAssumption, EmptySeq DEF ReminderInit, ReminderTypeOK, Time
<1>2. ASSUME NEW i \in Reminder PROVE SentFirst(i)
  BY NoJobIs DEF ReminderInit, SentFirst, WentOut, Outbound
<1> QED
  BY <1>1, <1>2 DEF ReminderInv

\* What agents do to the rows.
LEMMA EditorsKeep ==
  ASSUME ReminderInv,
         createReminders \/ deleteReminder \/ \E a \in Editor : updateReminder(a) \/ UpdateReminder(a)
  PROVE  ReminderInv'
<1>1. ReminderTypeOK /\ \A i \in Reminder : SentFirst(i)
  BY DEF ReminderInv
<1>2. UNCHANGED <<sentAt, clock, job, outbound, shown, dropped, trouble>>
  BY DEF createReminders, deleteReminder, updateReminder, UpdateReminder
<1>3. /\ reminders' \in [Reminder -> {"new", "there", "gone"}] /\ dueAt' \in [Reminder -> Time]
      /\ \A i \in Reminder : reminders'[i] = "new" => reminders[i] = "new"
  <2>1. CASE createReminders
    <3>1. PICK i \in Reminder, due \in Time :
            /\ reminders' = [reminders EXCEPT ![i] = "there"] /\ dueAt' = [dueAt EXCEPT ![i] = due]
      BY <2>1 DEF createReminders
    <3> QED
      BY <1>1, <3>1 DEF ReminderTypeOK
  <2>2. CASE deleteReminder
    <3>1. PICK i \in Reminder :
            /\ reminders' = [reminders EXCEPT ![i] = "gone"] /\ dueAt' = [dueAt EXCEPT ![i] = 0]
      BY <2>2 DEF deleteReminder, Existing
    <3>2. 0 \in Time
      BY RemindersAssumption DEF Time
    <3> QED
      BY <1>1, <3>1, <3>2 DEF ReminderTypeOK
  <2>3. ASSUME NEW a \in Editor, updateReminder(a)
        PROVE  reminders' = reminders /\ dueAt' = dueAt
    BY <2>3 DEF updateReminder
  <2>4. ASSUME NEW a \in Editor, UpdateReminder(a)
        PROVE  reminders' = reminders /\ dueAt' \in [Reminder -> Time]
    <3>1. PICK e \in edit[a] : dueAt' = [dueAt EXCEPT ![e.id] = IF e.id \in Existing THEN e.due ELSE @]
      BY <2>4 DEF UpdateReminder
    <3>2. e.id \in Reminder /\ e.due \in Time /\ dueAt \in [Reminder -> Time]
      BY <1>1 DEF ReminderTypeOK
    <3> QED
      BY <2>4, <3>1, <3>2 DEF UpdateReminder
  <2> QED
    BY <1>1, <2>1, <2>2, <2>3, <2>4 DEF ReminderTypeOK
<1>4. edit' \in [Editor -> SUBSET [id : Reminder, due : Time]] /\ \A b \in Editor : Cardinality(edit'[b]) <= 1
  <2>1. edit \in [Editor -> SUBSET [id : Reminder, due : Time]] /\ \A b \in Editor : Cardinality(edit[b]) <= 1
    BY <1>1 DEF ReminderTypeOK
  <2>2. CASE createReminders \/ deleteReminder
    BY <2>1, <2>2 DEF createReminders, deleteReminder
  <2>3. ASSUME NEW a \in Editor, NEW e \in [id : Reminder, due : Time],
               edit' = [edit EXCEPT ![a] = {}] \/ edit' = [edit EXCEPT ![a] = {e}]
        PROVE  edit' \in [Editor -> SUBSET [id : Reminder, due : Time]] /\ \A b \in Editor : Cardinality(edit'[b]) <= 1
    <3>1. \A b \in Editor : edit'[b] = edit[b] \/ edit'[b] = {} \/ edit'[b] = {e}
      BY <2>1, <2>3
    <3>2. edit' \in [Editor -> SUBSET [id : Reminder, due : Time]]
      BY <2>1, <2>3
    <3> QED
      BY <2>1, <3>1, <3>2, NoEdit
  <2>4. ASSUME NEW a \in Editor, updateReminder(a)
        PROVE  \E e \in [id : Reminder, due : Time] : edit' = [edit EXCEPT ![a] = {e}]
    <3>1. PICK i \in Reminder, due \in Time : edit' = [edit EXCEPT ![a] = {[id |-> i, due |-> due]}]
      BY <2>4 DEF updateReminder, Existing
    <3> QED
      BY <3>1
  <2>5. ASSUME NEW a \in Editor, UpdateReminder(a)
        PROVE  \E e \in [id : Reminder, due : Time] : edit' = [edit EXCEPT ![a] = {}]
    <3>1. PICK e \in edit[a] : edit' = [edit EXCEPT ![a] = {}]
      BY <2>5 DEF UpdateReminder
    <3> QED
      BY <2>1, <3>1
  <2> QED
    BY <2>2, <2>3, <2>4, <2>5
<1>5. ReminderTypeOK'
  BY <1>1, <1>2, <1>3, <1>4 DEF ReminderTypeOK
<1>6. ASSUME NEW i \in Reminder PROVE SentFirst(i)'
  BY <1>1, <1>2, <1>3 DEF SentFirst, WentOut, Outbound
<1> QED
  BY <1>5, <1>6 DEF ReminderInv

\* What the runs of the job do.
LEMMA RunnersKeep ==
  ASSUME ReminderInv, NEW r \in Runner,
         RunReminderJob(r) \/ SendAlert(r) \/ MarkReminderSent(r) \/ MarkFails(r)
  PROVE  ReminderInv'
<1>1. ReminderTypeOK /\ \A i \in Reminder : SentFirst(i)
  BY DEF ReminderInv
<1>2. /\ job \in [Runner -> [todo : SUBSET Reminder, mark : SUBSET Reminder]]
      /\ sentAt \in [Reminder -> BOOLEAN] /\ trouble \in 0 .. MaxTrouble
  BY <1>1 DEF ReminderTypeOK
<1>3. UNCHANGED <<reminders, dueAt, clock, edit, shown, dropped>>
  BY DEF RunReminderJob, SendAlert, MarkReminderSent, MarkFails
<1>4. CASE RunReminderJob(r)
  <2>1. GetDueReminders(clock + 1) \subseteq Reminder
    BY DEF GetDueReminders, Existing
  <2>2. UNCHANGED <<sentAt, outbound, trouble>> /\ WentOut' = WentOut
    BY <1>3, <1>4 DEF RunReminderJob, WentOut, Outbound
  <2>3. /\ job' \in [Runner -> [todo : SUBSET Reminder, mark : SUBSET Reminder]]
        /\ \A q \in Runner : job'[q].mark = job[q].mark
    BY <1>2, <1>4, <2>1 DEF RunReminderJob
  <2>4. ReminderTypeOK'
    BY <1>1, <1>3, <2>2, <2>3 DEF ReminderTypeOK
  <2>5. ASSUME NEW i \in Reminder PROVE SentFirst(i)'
    BY <1>1, <1>3, <2>2, <2>3 DEF SentFirst
  <2> QED
    BY <2>4, <2>5 DEF ReminderInv
<1>5. CASE SendAlert(r)
  <2>1. PICK i \in Reminder :
          /\ job' = [job EXCEPT ![r] = [todo |-> @.todo \ {i}, mark |-> {i}]]
          /\ outbound' = Append(outbound, i)
    BY <1>2, <1>5 DEF SendAlert
  <2>2. UNCHANGED <<sentAt, trouble>> /\ Len(outbound) < BusSize
    BY <1>5 DEF SendAlert
  <2>3. /\ outbound' \in Seq(Reminder) /\ Len(outbound') <= BusSize
        /\ WentOut' = WentOut \cup {i}
    BY <1>1, <1>3, <2>1, <2>2, AlertIsPut DEF WentOut
  <2>4. /\ job' \in [Runner -> [todo : SUBSET Reminder, mark : SUBSET Reminder]]
        /\ \A q \in Runner : job'[q].mark \subseteq job[q].mark \cup {i}
    BY <1>2, <2>1
  <2>5. ReminderTypeOK'
    BY <1>1, <1>3, <2>2, <2>3, <2>4 DEF ReminderTypeOK
  <2>6. ASSUME NEW k \in Reminder PROVE SentFirst(k)'
    BY <1>1, <1>3, <2>2, <2>3, <2>4 DEF SentFirst
  <2> QED
    BY <2>5, <2>6 DEF ReminderInv
<1>6. CASE MarkReminderSent(r)
  <2>1. /\ sentAt' = [i \in Reminder |-> sentAt[i] \/ (i \in job[r].mark /\ i \in Existing)]
        /\ job' = [job EXCEPT ![r].mark = {}]
        /\ UNCHANGED <<outbound, trouble>> /\ WentOut' = WentOut
    BY <1>3, <1>6 DEF MarkReminderSent, WentOut, Outbound
  <2>2. sentAt' \in [Reminder -> BOOLEAN]
    BY <1>2, <2>1
  <2>3. /\ job' \in [Runner -> [todo : SUBSET Reminder, mark : SUBSET Reminder]]
        /\ \A q \in Runner : job'[q].mark \subseteq job[q].mark
    BY <1>2, <2>1
  <2>4. ReminderTypeOK'
    BY <1>1, <1>3, <2>1, <2>2, <2>3 DEF ReminderTypeOK
  <2>5. ASSUME NEW i \in Reminder PROVE SentFirst(i)'
    <3>1. sentAt'[i] => sentAt[i] \/ (i \in job[r].mark /\ i \in Existing)
      BY <2>1
    <3>2. sentAt'[i] => i \in WentOut'
      BY <1>1, <2>1, <3>1 DEF SentFirst
    <3>3. reminders'[i] = "new" => ~sentAt'[i]
      <4>1. i \in Existing => reminders[i] # "new"
        BY DEF Existing
      <4> QED
        BY <1>1, <1>3, <3>1, <4>1 DEF SentFirst
    <3>4. \A q \in Runner : i \in job'[q].mark => i \in WentOut'
      BY <1>1, <2>1, <2>3 DEF SentFirst
    <3>5. i \in dropped' => trouble' > 0
      BY <1>1, <1>3, <2>1 DEF SentFirst
    <3> QED
      BY <3>2, <3>3, <3>4, <3>5 DEF SentFirst
  <2> QED
    BY <2>4, <2>5 DEF ReminderInv
<1>7. CASE MarkFails(r)
  <2>1. /\ UNCHANGED <<sentAt, outbound>> /\ WentOut' = WentOut
        /\ job' = [job EXCEPT ![r] = NoJob] /\ trouble' = trouble + 1 /\ trouble < MaxTrouble
    BY <1>3, <1>7 DEF MarkFails, WentOut, Outbound
  <2>2. /\ job' \in [Runner -> [todo : SUBSET Reminder, mark : SUBSET Reminder]]
        /\ \A q \in Runner : job'[q].mark \subseteq job[q].mark
    BY <1>2, <2>1, NoJobIs
  <2>3. trouble' \in 0 .. MaxTrouble /\ trouble' > 0
    BY <1>2, <2>1, RemindersAssumption
  <2>4. ReminderTypeOK'
    BY <1>1, <1>3, <2>1, <2>2, <2>3 DEF ReminderTypeOK
  <2>5. ASSUME NEW i \in Reminder PROVE SentFirst(i)'
    BY <1>1, <1>3, <2>1, <2>2, <2>3 DEF SentFirst
  <2> QED
    BY <2>4, <2>5 DEF ReminderInv
<1> QED
  BY <1>4, <1>5, <1>6, <1>7

\* What the router does to the bus.
LEMMA RouterKeeps ==
  ASSUME ReminderInv, handleOutboundMessage \/ OutboundFails
  PROVE  ReminderInv'
<1>1. ReminderTypeOK /\ \A i \in Reminder : SentFirst(i)
  BY DEF ReminderInv
<1>2. /\ outbound # <<>> /\ outbound' = Tail(outbound)
      /\ UNCHANGED <<reminders, dueAt, sentAt, clock, job, edit>>
  BY DEF handleOutboundMessage, OutboundFails
<1>3. /\ outbound' \in Seq(Reminder) /\ Len(outbound') <= BusSize
      /\ Head(outbound) \in Reminder /\ Outbound \subseteq Outbound' \cup {Head(outbound)}
  BY <1>1, <1>2, AlertIsTaken
<1>4. /\ shown \subseteq Reminder /\ dropped \subseteq Reminder /\ trouble \in 0 .. MaxTrouble
  BY <1>1 DEF ReminderTypeOK
<1>5. CASE handleOutboundMessage
  <2>1. shown' = shown \cup {Head(outbound)} /\ UNCHANGED <<dropped, trouble>>
    BY <1>5 DEF handleOutboundMessage
  <2>2. WentOut \subseteq WentOut'
    BY <1>3, <2>1 DEF WentOut
  <2>3. ReminderTypeOK'
    BY <1>1, <1>2, <1>3, <1>4, <2>1 DEF ReminderTypeOK
  <2>4. ASSUME NEW i \in Reminder PROVE SentFirst(i)'
    BY <1>1, <1>2, <2>1, <2>2 DEF SentFirst
  <2> QED
    BY <2>3, <2>4 DEF ReminderInv
<1>6. CASE OutboundFails
  <2>1. /\ dropped' = dropped \cup {Head(outbound)} /\ UNCHANGED shown
        /\ trouble' = trouble + 1 /\ trouble < MaxTrouble
    BY <1>6 DEF OutboundFails
  <2>2. WentOut \subseteq WentOut'
    BY <1>3, <2>1 DEF WentOut
  <2>3. trouble' \in 0 .. MaxTrouble /\ trouble' > 0
    BY <1>4, <2>1, RemindersAssumption
  <2>4. ReminderTypeOK'
    BY <1>1, <1>2, <1>3, <1>4, <2>1, <2>3 DEF ReminderTypeOK
  <2>5. ASSUME NEW i \in Reminder PROVE SentFirst(i)'
    BY <1>1, <1>2, <2>2, <2>3 DEF SentFirst
  <2> QED
    BY <2>4, <2>5 DEF ReminderInv
<1> QED
  BY <1>5, <1>6

LEMMA TimeKeeps ==
  ASSUME ReminderInv, Restart \/ Tick \/ UNCHANGED reminderVars
  PROVE  ReminderInv'
<1>1. ReminderTypeOK /\ \A i \in Reminder : SentFirst(i)
  BY DEF ReminderInv
<1>2. UNCHANGED <<reminders, dueAt, sentAt, shown>>
  BY DEF Restart, Tick, reminderVars
<1>3. clock' \in Time
  <2>1. clock \in Time
    BY <1>1 DEF ReminderTypeOK
  <2> QED
    BY <2>1, RemindersAssumption DEF Restart, Tick, reminderVars, Time
<1>4. trouble' \in 0 .. MaxTrouble /\ (trouble > 0 => trouble' > 0)
  <2>1. trouble \in 0 .. MaxTrouble
    BY <1>1 DEF ReminderTypeOK
  <2> QED
    BY <2>1, RemindersAssumption DEF Restart, Tick, reminderVars
<1>5. CASE Restart
  <2>1. /\ job' = [q \in Runner |-> NoJob] /\ edit' = [a \in Editor |-> {}]
        /\ outbound' = <<>> /\ dropped' = dropped \cup Outbound /\ trouble' = trouble + 1
    BY <1>5 DEF Restart
  <2>2. /\ job' \in [Runner -> [todo : SUBSET Reminder, mark : SUBSET Reminder]]
        /\ \A q \in Runner : job'[q].mark = {}
        /\ edit' \in [Editor -> SUBSET [id : Reminder, due : Time]]
        /\ \A a \in Editor : Cardinality(edit'[a]) <= 1
    BY <2>1, NoJobIs, NoEdit
  <2>3. outbound' \in Seq(Reminder) /\ Len(outbound') <= BusSize
    BY <2>1, EmptySeq, RemindersAssumption
  <2>4. Outbound \subseteq Reminder
    <3>1. outbound \in Seq(Reminder)
      BY <1>1 DEF ReminderTypeOK
    <3>2. \A n \in DOMAIN outbound : outbound[n] \in Reminder
      BY <3>1, LenProperties
    <3> QED
      BY <3>2 DEF Outbound
  <2>5. WentOut \subseteq WentOut' /\ dropped' \subseteq Reminder
    BY <1>1, <1>2, <2>1, <2>4 DEF WentOut, ReminderTypeOK
  <2>6. trouble' > 0
    BY <1>1, <2>1, RemindersAssumption DEF ReminderTypeOK
  <2>7. ReminderTypeOK'
    BY <1>1, <1>2, <1>3, <1>4, <2>2, <2>3, <2>5 DEF ReminderTypeOK
  <2>8. ASSUME NEW i \in Reminder PROVE SentFirst(i)'
    BY <1>1, <1>2, <2>2, <2>5, <2>6 DEF SentFirst
  <2> QED
    BY <2>7, <2>8 DEF ReminderInv
<1>6. CASE Tick \/ UNCHANGED reminderVars
  <2>1. UNCHANGED <<job, edit, outbound, dropped>>
    BY <1>6 DEF Tick, reminderVars
  <2>2. WentOut' = WentOut
    BY <1>2, <2>1 DEF WentOut, Outbound
  <2>3. ReminderTypeOK'
    BY <1>1, <1>2, <1>3, <1>4, <2>1 DEF ReminderTypeOK
  <2>4. ASSUME NEW i \in Reminder PROVE SentFirst(i)'
    BY <1>1, <1>2, <1>4, <2>1, <2>2 DEF SentFirst
  <2> QED
    BY <2>3, <2>4 DEF ReminderInv
<1> QED
  BY <1>5, <1>6

LEMMA RemindersGoOn == ReminderInv /\ [ReminderNext]_reminderVars => ReminderInv'
BY EditorsKeep, RunnersKeep, RouterKeeps, TimeKeeps DEF ReminderNext

\* A reminder with a row that is due, or overdue, and did not reach the user is on
\* the list that the next run of the job reads, or an alert of it is on the bus; or
\* it was marked (MarkReminderSent) and its alert was lost by a crash or a failing
\* channel, which never happens without a fault: the safety half of DueGoesOut.
ListedOrOnItsWay ==
  \A i \in Existing :
    dueAt[i] <= clock + 1 /\ i \notin shown =>
      \/ i \in GetDueReminders(clock + 1) \cup Outbound
      \/ sentAt[i] /\ i \in dropped /\ trouble > 0

\* No reminder leaves the list before an alert of it went on the bus, and without a
\* fault it then reaches the user.
THEOREM NoReminderIsLost == ReminderSpec => []ListedOrOnItsWay
<1>1. ReminderInv => ListedOrOnItsWay
  <2> SUFFICES ASSUME ReminderInv, NEW i \in Existing, dueAt[i] <= clock + 1, i \notin shown,
                      i \notin GetDueReminders(clock + 1), i \notin Outbound
               PROVE  sentAt[i] /\ i \in dropped /\ trouble > 0
    BY DEF ListedOrOnItsWay
  <2>1. i \in Reminder
    BY DEF Existing
  <2>2. sentAt[i]
    BY DEF GetDueReminders
  <2>3. SentFirst(i)
    BY <2>1 DEF ReminderInv
  <2> QED
    BY <2>2, <2>3 DEF SentFirst, WentOut
<1> QED
  BY <1>1, RemindersStart, RemindersGoOn, PTL DEF ReminderSpec
=============================================================================
