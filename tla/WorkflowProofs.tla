--------------------------- MODULE WorkflowProofs ---------------------------
(***************************************************************************)
(* What holds of the workflow engine for all sets of workflows and tasks,  *)
(* all plans, all bus sizes and all the faults of Workflow.tla.            *)
(***************************************************************************)
EXTENDS WorkflowInvariant, TLAPS, FiniteSetTheorems

USE WorkflowAssumption

\* An event of the workflow engine's types carries an id of the right kind.
LEMMA EventIds ==
  ASSUME NEW e \in Event \cup {NoEvent}
  PROVE  /\ e.type \in TaskEvents => e.id \in Task
         /\ e.type \in FlowEvents => e.id \in Flow
BY DEF Event, NoEvent, TaskEvents, FlowEvents

LEMMA TaskEventsAreEvents ==
  ASSUME NEW t \in Task, NEW type \in TaskEvents
  PROVE  [type |-> type, id |-> t] \in Event
BY DEF Event

LEMMA FlowEventsAreEvents ==
  ASSUME NEW w \in Flow, NEW type \in FlowEvents
  PROVE  [type |-> type, id |-> w] \in Event
BY DEF Event

\* The bus after a receive: everything moved up one place.
LEMMA TailOfBus ==
  ASSUME bus \in Seq(Event), bus # <<>>
  PROVE  /\ Head(bus) \in Event
         /\ Head(bus) = bus[1]
         /\ Tail(bus) \in Seq(Event)
         /\ Len(bus) \in Nat \ {0}
         /\ Len(Tail(bus)) = Len(bus) - 1
         /\ \A i \in 1..Len(Tail(bus)) : Tail(bus)[i] = bus[i + 1]
OBVIOUS

\* The bus after a send: one event more, at the end.
LEMMA AppendToBus ==
  ASSUME bus \in Seq(Event), NEW e \in Event
  PROVE  /\ Append(bus, e) \in Seq(Event)
         /\ Len(bus) \in Nat
         /\ Len(Append(bus, e)) = Len(bus) + 1
         /\ \A i \in 1..Len(bus) : Append(bus, e)[i] = bus[i]
         /\ Append(bus, e)[Len(bus) + 1] = e
OBVIOUS

\* A send that is about no task leaves the task events where they are.
LEMMA NoTaskEventSent ==
  ASSUME bus \in Seq(Event), NEW e \in Event, e.type \notin TaskEvents,
         bus' = Append(bus, e)
  PROVE  \A i \in 1..Len(bus') :
           bus'[i].type \in TaskEvents => i \in 1..Len(bus) /\ bus'[i] = bus[i]
<1> TAKE i \in 1..Len(bus')
<1>1. CASE i \in 1..Len(bus)
  BY <1>1, AppendToBus
<1>2. CASE i = Len(bus) + 1
  BY <1>2, AppendToBus
<1> QED
  BY <1>1, <1>2, AppendToBus
-----------------------------------------------------------------------------
\* Every variable keeps its type.
LEMMA TypeInit == Init => TypeOK
BY DEF Init, TypeOK, NoEvent

LEMMA TypeNext == TypeOK /\ [Next]_vars => TypeOK'
<1> SUFFICES ASSUME TypeOK, [Next]_vars PROVE TypeOK'
  OBVIOUS
<1> USE DEF TypeOK, planVars, storeVars, routerVars, agentVars, Handling, Return
<1>1. ASSUME NEW w \in Flow, Submit(w) PROVE TypeOK'
  <2>1. [type |-> "WorkflowSubmitted", id |-> w] \in Event
    BY FlowEventsAreEvents DEF FlowEvents
  <2>2. bus' \in Seq(Event)
    BY <1>1, <2>1, AppendToBus DEF Submit, Post
  <2>3. tasksOf' \in [Flow -> SUBSET Task] /\ template' \in SUBSET Flow
    BY <1>1 DEF Submit
  <2>4. dependsOn' \in [Task -> SUBSET (Task \cup {Foreign})]
    BY <1>1 DEF Submit
  <2> QED
    BY <1>1, <2>2, <2>3, <2>4 DEF Submit
<1>2. ASSUME NEW w \in Flow, FireCron(w) PROVE TypeOK'
  BY <1>2, FlowEventsAreEvents, AppendToBus DEF FireCron, Post, FlowEvents
<1>3. CASE OtherTraffic
  BY <1>3, AppendToBus DEF OtherTraffic, Post, Event
<1>4. CASE Receive
  BY <1>4, TailOfBus DEF Receive
<1>5. ASSUME NEW w \in Flow, SubmitWorkflow(w) PROVE TypeOK'
  BY <1>5 DEF SubmitWorkflow, GetRootTasks
<1>6. ASSUME NEW w \in Flow, RejectWorkflow(w) PROVE TypeOK'
  BY <1>6 DEF RejectWorkflow
<1>7. ASSUME NEW w \in Flow, InstantiateTemplate(w) PROVE TypeOK'
  <2>1. PICK S \in SUBSET Task : \E f \in Bijection(S, Rows(evt.id)) :
          /\ tasksOf' = [tasksOf EXCEPT ![w] = S]
          /\ dependsOn' = CopiedDependencies(S, f, Rows(evt.id))
    BY <1>7 DEF InstantiateTemplate
  <2>2. dependsOn' \in [Task -> SUBSET (Task \cup {Foreign})]
    BY <2>1 DEF CopiedDependencies
  <2>3. evt' \in Event
    BY <1>7, FlowEventsAreEvents DEF InstantiateTemplate, FlowEvents
  <2> QED
    BY <1>7, <2>1, <2>2, <2>3 DEF InstantiateTemplate
<1>8. ASSUME NEW w \in Flow, CheckWorkflowCompletion(w) PROVE TypeOK'
  <2>1. [type |-> "WorkflowCompleted", id |-> w] \in Event
    BY FlowEventsAreEvents DEF FlowEvents
  <2>2. CASE AllComplete(w)
    <3>1. bus' = Append(bus, [type |-> "WorkflowCompleted", id |-> w])
      BY <1>8, <2>2 DEF CheckWorkflowCompletion, Post
    <3>2. /\ pc' = "mark"
          /\ evt' = [type |-> "WorkflowCompleted", id |-> w]
          /\ UNCHANGED <<planVars, storeVars, firing, agentVars>>
      BY <1>8, <2>2 DEF CheckWorkflowCompletion
    <3>3. bus' \in Seq(Event)
      BY <2>1, <3>1, AppendToBus
    <3> QED
      BY <2>1, <3>2, <3>3
  <2>3. CASE ~AllComplete(w)
    BY <1>8, <2>3 DEF CheckWorkflowCompletion
  <2> QED
    BY <2>2, <2>3
<1>9. ASSUME NEW w \in Flow, HandleSynthesize(w) PROVE TypeOK'
  BY <1>9 DEF HandleSynthesize
<1>10. ASSUME NEW t \in Task, TaskFailed(t) PROVE TypeOK'
  BY <1>10 DEF TaskFailed
<1>11. ASSUME NEW t \in Task, TaskCompleted(t) PROVE TypeOK'
  BY <1>11 DEF TaskCompleted, GetDependentWFTasks
<1>12. ASSUME NEW t \in Task, FireTask(t) PROVE TypeOK'
  BY <1>12, TaskEventsAreEvents, AppendToBus DEF FireTask, Post, TaskEvents
<1>13. ASSUME NEW t \in Task, HandleAgentExecute(t) PROVE TypeOK'
  BY <1>13 DEF HandleAgentExecute
<1>14. CASE NoMoreIds
  BY <1>14 DEF NoMoreIds
<1>15. CASE RootsFired
  BY <1>15 DEF RootsFired
<1>16. CASE MarkCompleted
  BY <1>16 DEF MarkCompleted
<1>17. CASE HandleTaskAssigned
  <2>1. evt.id \in Task
    BY <1>17, EventIds DEF HandleTaskAssigned, Forward, TaskEvents
  <2> QED
    BY <1>17, <2>1, TaskEventsAreEvents, AppendToBus
    DEF HandleTaskAssigned, Forward, Post, TaskEvents
<1>18. CASE HandleWorkflowCompleted
  <2>1. evt.id \in Flow
    BY <1>18, EventIds DEF HandleWorkflowCompleted, Forward, FlowEvents
  <2> QED
    BY <1>18, <2>1, FlowEventsAreEvents, AppendToBus
    DEF HandleWorkflowCompleted, Forward, Post, FlowEvents
<1>19. CASE HandleOther
  BY <1>19 DEF HandleOther
<1>20. ASSUME NEW t \in Task, Report(t) PROVE TypeOK'
  <2>1. PICK type \in TaskEvents : bus' = Append(bus, [type |-> type, id |-> t])
    BY <1>20 DEF Report, Post, TaskEvents
  <2>2. bus' \in Seq(Event)
    BY <2>1, TaskEventsAreEvents, AppendToBus
  <2>3. working' \in [Task -> Nat]
    BY <1>20 DEF Report
  <2> QED
    BY <1>20, <2>2, <2>3 DEF Report
<1>21. ASSUME NEW t \in Task, NoReport(t) PROVE TypeOK'
  BY <1>21 DEF NoReport
<1>22. ASSUME NEW w \in Flow, SubmitWorkflowFails(w) PROVE TypeOK'
  BY <1>22 DEF SubmitWorkflowFails
<1>23. ASSUME NEW t \in Task, CompletionNotStored(t) PROVE TypeOK'
  BY <1>23 DEF CompletionNotStored
<1>24. ASSUME NEW t \in Task, DependentsNotRead(t) PROVE TypeOK'
  BY <1>24 DEF DependentsNotRead
<1>25. ASSUME NEW t \in Task, DependentSkipped(t) PROVE TypeOK'
  BY <1>25 DEF DependentSkipped
<1>26. CASE WorkflowStatusLost
  BY <1>26 DEF WorkflowStatusLost
<1>27. CASE NotDelivered
  BY <1>27 DEF NotDelivered
<1>28. CASE Restart
  BY <1>28 DEF Restart
<1>29. CASE UNCHANGED vars
  BY <1>29 DEF vars
<1> QED
  BY <1>1, <1>2, <1>3, <1>4, <1>5, <1>6, <1>7, <1>8, <1>9, <1>10, <1>11, <1>12,
     <1>13, <1>14, <1>15, <1>16, <1>17, <1>18, <1>19, <1>20, <1>21, <1>22,
     <1>23, <1>24, <1>25, <1>26, <1>27, <1>28, <1>29
  DEF Next, Reliable, Environment, Router, Fault

\* The variables of the engine, the bus and the agents keep their types.
THEOREM TypeCorrect == Spec => []TypeOK
BY TypeInit, TypeNext, PTL DEF Spec
-----------------------------------------------------------------------------
\* A step that writes no task's row and holds an event only for tasks that had
\* one keeps what the invariant says of rows and plans.
LEMMA KeepingRows ==
  ASSUME TaskInv, TypeOK',
         UNCHANGED <<tasksOf, dependsOn, template, task>>,
         \A w \in Flow : flow[w] # "none" => flow'[w] # "none",
         \A t \in Task : Held(t)' => Held(t),
         \A t \in Task : given'[t] = given[t] \/ (given'[t] = 1 /\ Held(t))
  PROVE  Rowed' /\ Planned' /\ WholeOnly'
<1> USE DEF TaskInv
<1>1. ASSUME NEW t \in Task
      PROVE  /\ Held(t)' => task'[t] = "pending" /\ DependenciesDone(t)'
             /\ given'[t] <= 1
             /\ given'[t] > 0 => task'[t] # "none" /\ DependenciesDone(t)'
             /\ task'[t] \in {"completed", "failed"} => given'[t] = 1
  BY DEF Rowed, DependenciesDone, AllDependenciesSatisfied
<1>2. Rowed'
  BY <1>1 DEF Rowed
<1>3. Planned'
  BY DEF Planned
<1>4. ASSUME NEW w \in Flow, NEW t \in tasksOf[w], Held(t)' \/ given'[t] > 0
      PROVE  Whole(w)'
  BY <1>4 DEF WholeOnly, Whole, TypeOK
<1>5. WholeOnly'
  BY <1>4 DEF WholeOnly
<1> QED
  BY <1>2, <1>3, <1>5

\* A step that writes no task's row, hands nothing out and only loses task
\* events keeps the invariant.
LEMMA LosingEvents ==
  ASSUME TaskInv, TypeOK',
         UNCHANGED <<tasksOf, dependsOn, template, task, given>>,
         \A w \in Flow : flow[w] # "none" => flow'[w] # "none",
         \A i \in 1..Len(bus') :
           bus'[i].type \in TaskEvents => i \in 1..Len(bus) /\ bus'[i] = bus[i],
         pc' = "handle" /\ evt'.type \in TaskEvents => pc = "handle" /\ evt' = evt,
         firing' \subseteq firing,
         \A t \in Task : working'[t] <= working[t]
  PROVE  TaskInv'
<1> USE DEF TaskInv
<1>1. /\ Len(bus) \in Nat /\ Len(bus') \in Nat
      /\ working \in [Task -> Nat] /\ working' \in [Task -> Nat]
  BY DEF TypeOK
<1>2. ASSUME NEW t \in Task PROVE Held(t)' => Held(t)
  BY <1>1 DEF Held, OnBus, InHand
<1>3. OnePlace'
  <2>1. ASSUME NEW i \in 1..Len(bus'), NEW j \in 1..Len(bus'), NEW t \in Task,
               OnBus(i, t)', OnBus(j, t)'
        PROVE  i = j
    BY <1>1, <2>1 DEF OnePlace, OnBus
  <2>2. ASSUME NEW i \in 1..Len(bus'), NEW t \in Task, OnBus(i, t)'
        PROVE  ~InHand(t)' /\ t \notin firing' /\ working'[t] = 0
    BY <1>1, <2>2 DEF OnePlace, OnBus, InHand
  <2>3. ASSUME NEW t \in Task, InHand(t)' PROVE t \notin firing' /\ working'[t] = 0
    BY <1>1, <2>3 DEF OnePlace, InHand
  <2>4. \A t \in firing' : working'[t] = 0
    BY <1>1 DEF OnePlace, TypeOK
  <2>5. \A t \in Task : working'[t] <= 1
    BY <1>1 DEF OnePlace
  <2> QED
    BY <2>1, <2>2, <2>3, <2>4, <2>5 DEF OnePlace
<1>4. Stages'
  <2>1. ASSUME NEW i \in 1..Len(bus') PROVE Stage(bus[i])'
    <3>1. CASE bus'[i].type \in TaskEvents
      BY <1>1, <3>1 DEF Stages, Stage
    <3>2. CASE bus'[i].type \notin TaskEvents
      BY <3>2 DEF Stage, TaskEvents, HandOutEvents, ReportEvents
    <3> QED
      BY <3>1, <3>2
  <2>2. ASSUME pc' = "handle" PROVE Stage(evt)'
    BY <2>2 DEF Stages, Stage, TaskEvents, HandOutEvents, ReportEvents
  <2>3. /\ \A t \in firing' : given'[t] = 0
        /\ \A t \in Task : working'[t] > 0 => given'[t] = 1
    BY <1>1 DEF Stages, TypeOK
  <2> QED
    BY <2>1, <2>2, <2>3 DEF Stages, Stage
<1>5. Rowed' /\ Planned' /\ WholeOnly'
  BY <1>2, KeepingRows
<1> QED
  BY <1>3, <1>4, <1>5
-----------------------------------------------------------------------------
\* The steps that move an event on.

LEMMA ReceiveKeeps == ASSUME TaskInv, TypeOK', Receive PROVE TaskInv'
<1> USE DEF TaskInv, Receive, planVars, storeVars, agentVars
<1>1. /\ Len(bus) \in Nat \ {0}
      /\ Len(bus') = Len(bus) - 1
      /\ \A i \in 1..Len(bus') : i + 1 \in 1..Len(bus) /\ bus'[i] = bus[i + 1]
      /\ evt' = bus[1]
      /\ 1 \in 1..Len(bus)
  BY TailOfBus DEF TypeOK
<1>2. ASSUME NEW t \in Task
      PROVE  /\ \A i \in 1..Len(bus') : OnBus(i, t)' => OnBus(i + 1, t)
             /\ InHand(t)' => OnBus(1, t)
  BY <1>1 DEF OnBus, InHand
<1>3. ASSUME NEW t \in Task PROVE Held(t)' => Held(t)
  BY <1>1, <1>2 DEF Held
<1>4. OnePlace'
  <2>1. ASSUME NEW i \in 1..Len(bus'), NEW j \in 1..Len(bus'), NEW t \in Task,
               OnBus(i, t)', OnBus(j, t)'
        PROVE  i = j
    <3>1. i + 1 = j + 1
      BY <1>1, <1>2, <2>1 DEF OnePlace
    <3> QED
      BY <3>1, <1>1
  <2>2. ASSUME NEW i \in 1..Len(bus'), NEW t \in Task, OnBus(i, t)'
        PROVE  ~InHand(t)' /\ t \notin firing' /\ working'[t] = 0
    <3>1. InHand(t)' => i + 1 = 1
      BY <1>1, <1>2, <2>2 DEF OnePlace
    <3> QED
      BY <3>1, <1>1, <1>2, <2>2 DEF OnePlace
  <2>3. ASSUME NEW t \in Task, InHand(t)' PROVE t \notin firing' /\ working'[t] = 0
    BY <1>1, <1>2, <2>3 DEF OnePlace
  <2> QED
    BY <2>1, <2>2, <2>3 DEF OnePlace
<1>5. Stages'
  BY <1>1 DEF Stages, Stage
<1>6. Rowed' /\ Planned' /\ WholeOnly'
  BY <1>3, KeepingRows
<1> QED
  BY <1>4, <1>5, <1>6

\* The three sends for a task x: its event leaves the place it was in for the
\* end of the bus.
LEMMA SendingKeeps ==
  ASSUME TaskInv, TypeOK', NEW x \in Task, NEW type \in TaskEvents,
         UNCHANGED <<planVars, storeVars, given>>,
         bus' = Append(bus, [type |-> type, id |-> x]),
         x \in firing \/ InHand(x) \/ working[x] > 0,
         x \notin firing', ~InHand(x)', working'[x] = 0,
         firing' \subseteq firing,
         \A t \in Task : InHand(t)' => InHand(t),
         \A t \in Task : working'[t] <= working[t],
         pc' = "handle" => evt' = evt /\ pc = "handle",
         type \in HandOutEvents => given[x] = 0,
         type \in ReportEvents => given[x] = 1
  PROVE  TaskInv'
<1> USE DEF TaskInv, planVars, storeVars
<1> DEFINE e == [type |-> type, id |-> x]
<1>1. /\ Len(bus) \in Nat
      /\ Len(bus') = Len(bus) + 1
      /\ \A i \in 1..Len(bus) : bus'[i] = bus[i]
      /\ bus'[Len(bus) + 1] = e
  <2>1. e \in Event
    BY TaskEventsAreEvents
  <2> QED
    BY <2>1, AppendToBus DEF TypeOK
<1>2. \A i \in 1..Len(bus') : i \in 1..Len(bus) \/ i = Len(bus) + 1
  BY <1>1
<1>3. /\ working \in [Task -> Nat] /\ working' \in [Task -> Nat]
      /\ firing \subseteq Task
  BY DEF TypeOK
<1>4. ASSUME NEW i \in 1..Len(bus'), NEW t \in Task, OnBus(i, t)'
      PROVE  \/ i \in 1..Len(bus) /\ OnBus(i, t)
             \/ i = Len(bus) + 1 /\ t = x
  BY <1>1, <1>2, <1>4 DEF OnBus
<1>5. Held(x) /\ \A i \in 1..Len(bus) : ~OnBus(i, x)
  BY DEF OnePlace, Held
<1>6. ASSUME NEW t \in Task, Held(t)' PROVE Held(t)
  <2>1. CASE \E i \in 1..Len(bus') : OnBus(i, t)'
    BY <1>4, <1>5, <2>1 DEF Held
  <2>2. CASE InHand(t)' \/ t \in firing' \/ working'[t] > 0
    BY <1>3, <2>2 DEF Held
  <2> QED
    BY <1>6, <2>1, <2>2 DEF Held
<1>7. OnePlace'
  <2>1. ASSUME NEW i \in 1..Len(bus'), NEW j \in 1..Len(bus'), NEW t \in Task,
               OnBus(i, t)', OnBus(j, t)'
        PROVE  i = j
    BY <1>4, <1>5, <2>1 DEF OnePlace
  <2>2. ASSUME NEW i \in 1..Len(bus'), NEW t \in Task, OnBus(i, t)'
        PROVE  ~InHand(t)' /\ t \notin firing' /\ working'[t] = 0
    BY <1>3, <1>4, <2>2 DEF OnePlace
  <2>3. ASSUME NEW t \in Task, InHand(t)' PROVE t \notin firing' /\ working'[t] = 0
    BY <1>3, <2>3 DEF OnePlace
  <2>4. \A t \in firing' : working'[t] = 0
    BY <1>3 DEF OnePlace
  <2>5. \A t \in Task : working'[t] <= 1
    BY <1>3 DEF OnePlace
  <2> QED
    BY <2>1, <2>2, <2>3, <2>4, <2>5 DEF OnePlace
<1>8. Stages'
  <2>1. ASSUME NEW i \in 1..Len(bus') PROVE Stage(bus[i])'
    BY <1>1, <1>2 DEF Stages, Stage
  <2>2. ASSUME pc' = "handle" PROVE Stage(evt)'
    BY <2>2 DEF Stages, Stage
  <2>3. /\ \A t \in firing' : given'[t] = 0
        /\ \A t \in Task : working'[t] > 0 => given'[t] = 1
    BY <1>3 DEF Stages
  <2> QED
    BY <2>1, <2>2, <2>3 DEF Stages, Stage
<1>9. Rowed' /\ Planned' /\ WholeOnly'
  BY <1>6, KeepingRows
<1> QED
  BY <1>7, <1>8, <1>9

LEMMA FireTaskKeeps ==
  ASSUME TaskInv, TypeOK', NEW t \in Task, FireTask(t) PROVE TaskInv'
<1>1. /\ bus' = Append(bus, [type |-> "TaskAssigned", id |-> t])
      /\ t \in firing /\ t \notin firing' /\ firing' \subseteq firing
      /\ pc' = "fire"
      /\ UNCHANGED <<planVars, storeVars, given, working>>
  BY DEF FireTask, Post, agentVars
<1>2. /\ given[t] = 0
      /\ working'[t] = 0
      /\ \A u \in Task : ~InHand(u)'
      /\ \A u \in Task : working'[u] <= working[u]
  BY <1>1 DEF TaskInv, Stages, OnePlace, InHand, TypeOK
<1> QED
  BY <1>1, <1>2, SendingKeeps DEF TaskEvents, HandOutEvents, ReportEvents

LEMMA HandleTaskAssignedKeeps ==
  ASSUME TaskInv, TypeOK', HandleTaskAssigned PROVE TaskInv'
<1> USE DEF HandleTaskAssigned, Forward, Handling, Return, agentVars
<1>1. CASE Full
  BY <1>1, LosingEvents DEF planVars, storeVars, TaskInv, TypeOK
<1>2. CASE ~Full
  <2>1. evt.id \in Task
    BY EventIds DEF TaskInv, TypeOK, TaskEvents
  <2>2. InHand(evt.id)
    BY <2>1 DEF InHand, TaskEvents
  <2>3. /\ evt.id \notin firing' /\ firing' \subseteq firing
        /\ \A u \in Task : ~InHand(u)'
        /\ \A u \in Task : working'[u] <= working[u]
        /\ working'[evt.id] = 0
        /\ given[evt.id] = 0
    BY <2>1, <2>2 DEF TaskInv, OnePlace, Stages, Stage, HandOutEvents, InHand, TypeOK
  <2>4. bus' = Append(bus, [type |-> "AgentExecute", id |-> evt.id])
    BY <1>2 DEF Post
  <2> QED
    BY <2>1, <2>2, <2>3, <2>4, SendingKeeps DEF TaskEvents, HandOutEvents, ReportEvents
<1> QED
  BY <1>1, <1>2

LEMMA ReportKeeps ==
  ASSUME TaskInv, TypeOK', NEW t \in Task, Report(t) PROVE TaskInv'
<1> USE DEF Report, routerVars
<1>1. PICK type \in ReportEvents : bus' = Append(bus, [type |-> type, id |-> t])
  BY DEF Post, ReportEvents
<1>2. /\ working[t] > 0 /\ given[t] = 1 /\ working'[t] = 0
      /\ t \notin firing' /\ ~InHand(t)'
      /\ \A u \in Task : working'[u] <= working[u]
  BY DEF TaskInv, OnePlace, Stages, InHand, TypeOK
<1>3. \A u \in Task : InHand(u)' => InHand(u)
  BY DEF InHand
<1>4. type \in TaskEvents /\ type \notin HandOutEvents
  BY DEF TaskEvents, ReportEvents, HandOutEvents
<1> QED
  BY <1>1, <1>2, <1>3, <1>4, SendingKeeps

LEMMA HandleAgentExecuteKeeps ==
  ASSUME TaskInv, TypeOK', NEW x \in Task, HandleAgentExecute(x) PROVE TaskInv'
<1> USE DEF TaskInv, HandleAgentExecute, Handling, Return, planVars, storeVars
<1>1. /\ pc = "handle" /\ evt.id = x /\ evt.type = "AgentExecute"
      /\ pc' = "idle" /\ bus' = bus /\ firing' = {}
      /\ working \in [Task -> Nat] /\ given \in [Task -> Nat]
      /\ working' = [working EXCEPT ![x] = @ + 1]
      /\ given' = [given EXCEPT ![x] = @ + 1]
  BY DEF TypeOK
<1>2. InHand(x) /\ given[x] = 0 /\ working[x] = 0
  BY <1>1 DEF InHand, TaskEvents, OnePlace, Stages, Stage, HandOutEvents
<1>3. /\ Held(x)
      /\ \A i \in 1..Len(bus) : ~OnBus(i, x)
      /\ working'[x] = 1 /\ given'[x] = 1
      /\ \A t \in Task : t # x => working'[t] = working[t] /\ given'[t] = given[t]
  BY <1>1, <1>2 DEF OnePlace, Held
<1>4. ASSUME NEW t \in Task
      PROVE  /\ \A i \in 1..Len(bus') : OnBus(i, t)' <=> OnBus(i, t)
             /\ ~InHand(t)'
  BY <1>1 DEF OnBus, InHand
<1>5. ASSUME NEW t \in Task, Held(t)' PROVE Held(t)
  BY <1>1, <1>3, <1>4, <1>5 DEF Held, OnBus
<1>6. OnePlace'
  BY <1>1, <1>3, <1>4 DEF OnePlace, OnBus, InHand
<1>7. Stages'
  <2>1. ASSUME NEW i \in 1..Len(bus') PROVE Stage(bus[i])'
    <3>1. CASE bus[i].id = x
      BY <1>1, <1>3, <3>1 DEF OnBus, Stage, TaskEvents, HandOutEvents, ReportEvents
    <3>2. CASE bus[i].id # x
      <4>1. bus[i].type \in TaskEvents => bus[i].id \in Task
        BY <1>1, EventIds DEF TypeOK
      <4> QED
        BY <1>1, <1>3, <3>2, <4>1
        DEF Stages, Stage, TaskEvents, HandOutEvents, ReportEvents
    <3> QED
      BY <3>1, <3>2
  <2> QED
    BY <1>1, <1>3, <2>1 DEF Stages, Stage
<1>8. Rowed' /\ Planned' /\ WholeOnly'
  BY <1>3, <1>5, KeepingRows
<1> QED
  BY <1>6, <1>7, <1>8
-----------------------------------------------------------------------------
\* The handler of a report: the task ends, and only tasks that depend on it,
\* and on nothing that is not completed now, may be assigned.
LEMMA EndingKeeps ==
  ASSUME TaskInv, TypeOK', NEW x \in Task, NEW s \in {"completed", "failed"},
         InHand(x), evt.type \in ReportEvents, pc' # "handle",
         task' = [task EXCEPT ![x] = s],
         UNCHANGED <<planVars, flow, bus, working, given>>,
         \A d \in firing' : /\ task[d] # "none"
                            /\ x \in dependsOn[d]
                            /\ DependenciesDone(d)'
  PROVE  TaskInv'
<1> USE DEF TaskInv, planVars
<1>1. /\ Held(x) /\ task[x] = "pending" /\ DependenciesDone(x) /\ given[x] = 1
      /\ working[x] = 0 /\ x \notin firing /\ \A i \in 1..Len(bus) : ~OnBus(i, x)
  BY DEF Held, Rowed, OnePlace, Stages, Stage, InHand, HandOutEvents, ReportEvents
<1>2. /\ task \in [Task -> {"none", "pending", "completed", "failed"}]
      /\ firing' \subseteq Task
      /\ task'[x] = s
      /\ \A t \in Task : t # x => task'[t] = task[t]
  BY DEF TypeOK
<1>3. ASSUME NEW t \in Task, DependenciesDone(t)
      PROVE  x \notin dependsOn[t] /\ DependenciesDone(t)'
  BY <1>1, <1>2, <1>3 DEF DependenciesDone, AllDependenciesSatisfied
<1>4. ASSUME NEW d \in firing'
      PROVE  /\ d # x /\ ~Held(d) /\ task[d] = "pending" /\ given[d] = 0
             /\ \A i \in 1..Len(bus) : ~OnBus(i, d)
             /\ working[d] = 0
  <2>1. ~DependenciesDone(d)
    BY <1>2, <1>3
  <2>2. ~Held(d) /\ given[d] = 0
    BY <1>2, <2>1 DEF Rowed, TypeOK
  <2>3. task[d] = "pending"
    <3>1. d \in Task /\ task[d] # "none"
      BY <1>2
    <3>2. task[d] \notin {"completed", "failed"}
      BY <2>2, <3>1 DEF Rowed
    <3>3. task[d] \in {"none", "pending", "completed", "failed"}
      BY <1>2, <3>1
    <3> QED
      BY <3>1, <3>2, <3>3
  <2> QED
    BY <1>1, <1>2, <2>1, <2>2, <2>3 DEF Held, TypeOK
<1>5. ASSUME NEW t \in Task
      PROVE  /\ \A i \in 1..Len(bus') : OnBus(i, t)' <=> OnBus(i, t)
             /\ ~InHand(t)'
  BY DEF OnBus, InHand
<1>6. ASSUME NEW t \in Task, Held(t)'
      PROVE  t \in firing' \/ (Held(t) /\ t # x)
  BY <1>1, <1>5, <1>6 DEF Held, OnBus
<1>7. OnePlace'
  BY <1>4, <1>5 DEF OnePlace, OnBus, InHand
<1>8. Stages'
  BY <1>4 DEF Stages, Stage
<1>9. ASSUME NEW t \in Task
      PROVE  /\ Held(t)' => task'[t] = "pending" /\ DependenciesDone(t)'
             /\ given'[t] <= 1
             /\ given'[t] > 0 => task'[t] # "none" /\ DependenciesDone(t)'
             /\ task'[t] \in {"completed", "failed"} => given'[t] = 1
  BY <1>1, <1>2, <1>3, <1>4, <1>6 DEF Rowed
<1>10. Planned'
  BY <1>1, <1>2 DEF Planned
<1>11. ASSUME NEW w \in Flow, NEW t \in tasksOf[w], Held(t)' \/ given'[t] > 0
       PROVE  Whole(w)'
  <2>1. t \in Task /\ tasksOf[w] \subseteq Task
    BY DEF TypeOK
  <2>2. Whole(w)
    <3>1. CASE t \in firing'
      <4>1. x \in tasksOf[w]
        BY <2>1, <3>1, WorkflowAssumption DEF Planned
      <4> QED
        BY <1>1, <4>1 DEF WholeOnly
    <3>2. CASE t \notin firing'
      BY <1>6, <1>11, <2>1, <3>2 DEF WholeOnly
    <3> QED
      BY <3>1, <3>2
  <2> QED
    BY <1>1, <1>2, <2>1, <2>2 DEF Whole
<1> QED
  BY <1>7, <1>8, <1>9, <1>10, <1>11 DEF Rowed, WholeOnly

LEMMA TaskFailedKeeps ==
  ASSUME TaskInv, TypeOK', NEW t \in Task, TaskFailed(t) PROVE TaskInv'
BY EndingKeeps DEF TaskFailed, Handling, Return, InHand, TaskEvents, ReportEvents,
   planVars, agentVars

LEMMA DependentsNotReadKeeps ==
  ASSUME TaskInv, TypeOK', NEW t \in Task, DependentsNotRead(t) PROVE TaskInv'
BY EndingKeeps DEF DependentsNotRead, Handling, Return, InHand, TaskEvents, ReportEvents,
   planVars, agentVars

LEMMA TaskCompletedKeeps ==
  ASSUME TaskInv, TypeOK', NEW t \in Task, TaskCompleted(t) PROVE TaskInv'
<1>1. \A d \in firing' : task[d] # "none" /\ t \in dependsOn[d] /\ DependenciesDone(d)'
  BY DEF TaskCompleted, GetDependentWFTasks, DependenciesDone, AllDependenciesSatisfied,
         planVars
<1>2. /\ InHand(t) /\ evt.type \in ReportEvents /\ pc' # "handle"
      /\ UNCHANGED <<planVars, flow, bus, working, given>>
      /\ task' = [task EXCEPT ![t] = "completed"]
  BY DEF TaskCompleted, Handling, InHand, TaskEvents, ReportEvents, agentVars
<1> QED
  BY <1>1, <1>2, EndingKeeps
-----------------------------------------------------------------------------
\* SubmitWorkflow, whether it stores all of the rows or only some.
LEMMA StoringKeeps ==
  ASSUME TaskInv, TypeOK', NEW w \in Flow, NEW S \in SUBSET tasksOf[w],
         flow[w] = "none", flow' = [flow EXCEPT ![w] = "running"],
         task' = [t \in Task |-> IF t \in S THEN "pending" ELSE task[t]],
         UNCHANGED <<planVars, bus, working, given>>,
         pc' # "handle",
         \A t \in firing' : t \in S /\ dependsOn[t] = {},
         firing' # {} => w \notin template /\ S = tasksOf[w]
  PROVE  TaskInv'
<1> USE DEF TaskInv, planVars
<1>1. /\ S \subseteq Task
      /\ task \in [Task -> {"none", "pending", "completed", "failed"}]
      /\ \A t \in S : task'[t] = "pending"
      /\ \A t \in Task : t \notin S => task'[t] = task[t]
      /\ flow'[w] = "running" /\ \A v \in Flow : v # w => flow'[v] = flow[v]
      /\ given \in [Task -> Nat] /\ working \in [Task -> Nat]
  BY DEF TypeOK
<1>2. ASSUME NEW t \in S
      PROVE  task[t] = "none" /\ ~Held(t) /\ given[t] = 0 /\ working[t] = 0
  <2>1. task[t] = "none"
    BY <1>1 DEF Planned
  <2> QED
    BY <1>1, <2>1 DEF Rowed, Held
<1>3. ASSUME NEW t \in Task
      PROVE  /\ \A i \in 1..Len(bus') : OnBus(i, t)' <=> OnBus(i, t)
             /\ ~InHand(t)'
  BY DEF OnBus, InHand
<1>4. ASSUME NEW t \in Task, Held(t)'
      PROVE  t \in firing' \/ (Held(t) /\ t \notin S)
  BY <1>2, <1>3, <1>4 DEF Held, OnBus
<1>5. ASSUME NEW t \in S PROVE \A i \in 1..Len(bus) : ~OnBus(i, t)
  BY <1>2 DEF Held
<1>6. OnePlace'
  BY <1>1, <1>2, <1>3, <1>5 DEF OnePlace, OnBus, InHand
<1>7. Stages'
  BY <1>1, <1>2 DEF Stages, Stage
<1>8. ASSUME NEW t \in Task, DependenciesDone(t) PROVE DependenciesDone(t)'
  BY <1>1, <1>2, <1>8 DEF DependenciesDone, AllDependenciesSatisfied
<1>9. ASSUME NEW t \in firing' PROVE DependenciesDone(t)'
  BY DEF DependenciesDone, AllDependenciesSatisfied
<1>10. ASSUME NEW t \in Task
       PROVE  /\ Held(t)' => task'[t] = "pending" /\ DependenciesDone(t)'
              /\ given'[t] <= 1
              /\ given'[t] > 0 => task'[t] # "none" /\ DependenciesDone(t)'
              /\ task'[t] \in {"completed", "failed"} => given'[t] = 1
  BY <1>1, <1>2, <1>4, <1>8, <1>9 DEF Rowed
<1>11. Planned'
  BY <1>1 DEF Planned
<1>12. ASSUME NEW v \in Flow, NEW t \in tasksOf[v], Held(t)' \/ given'[t] > 0
       PROVE  Whole(v)'
  <2>1. t \in Task /\ tasksOf[v] \subseteq Task
    BY DEF TypeOK
  <2>2. CASE t \in firing'
    <3>1. v = w
      BY <2>1, <2>2 DEF Planned
    <3> QED
      BY <1>1, <2>2, <3>1 DEF Whole
  <2>3. CASE t \notin firing'
    <3>1. Whole(v)
      BY <1>4, <1>12, <2>1, <2>3 DEF WholeOnly
    <3> QED
      BY <1>1, <2>1, <3>1 DEF Whole
  <2> QED
    BY <2>2, <2>3
<1> QED
  BY <1>6, <1>7, <1>10, <1>11, <1>12 DEF Rowed, WholeOnly
-----------------------------------------------------------------------------
\* A definition is built: its tasks are new, so nobody knows them.
LEMMA PlanningKeeps ==
  ASSUME TaskInv, TypeOK', NEW w \in Flow, NEW S \in SUBSET Task, Fresh(w, S),
         tasksOf' = [tasksOf EXCEPT ![w] = S],
         \A t \in Task : t \notin S => dependsOn'[t] = dependsOn[t],
         \A t \in S : dependsOn'[t] \subseteq S \cup {Foreign},
         \A v \in Flow : v # w => (v \in template' <=> v \in template),
         UNCHANGED <<storeVars, firing, working, given>>,
         \A i \in 1..Len(bus') :
           bus'[i].type \in TaskEvents => i \in 1..Len(bus) /\ bus'[i] = bus[i],
         pc' = "handle" /\ evt'.type \in TaskEvents => pc = "handle" /\ evt' = evt
  PROVE  TaskInv'
<1> USE DEF TaskInv, storeVars
<1>1. /\ tasksOf' \in [Flow -> SUBSET Task] /\ tasksOf \in [Flow -> SUBSET Task]
      /\ tasksOf'[w] = S /\ tasksOf[w] = {}
      /\ \A v \in Flow : v # w => tasksOf'[v] = tasksOf[v]
      /\ \A v \in Flow : tasksOf[v] \cap S = {}
      /\ Len(bus) \in Nat /\ Len(bus') \in Nat
  BY DEF TypeOK, Fresh
<1>2. ASSUME NEW t \in S PROVE task[t] = "none" /\ ~Held(t) /\ given[t] = 0
  <2>1. task[t] = "none"
    BY <1>1 DEF Planned
  <2> QED
    BY <2>1 DEF Rowed, TypeOK
<1>3. ASSUME NEW t \in Task
      PROVE  /\ \A i \in 1..Len(bus') : OnBus(i, t)' => i \in 1..Len(bus) /\ OnBus(i, t)
             /\ InHand(t)' => InHand(t)
  BY DEF OnBus, InHand
<1>4. ASSUME NEW t \in Task, Held(t)' PROVE Held(t)
  BY <1>3, <1>4 DEF Held, OnBus
<1>5. OnePlace'
  <2>1. ASSUME NEW i \in 1..Len(bus'), NEW j \in 1..Len(bus'), NEW t \in Task,
               OnBus(i, t)', OnBus(j, t)'
        PROVE  i = j
    BY <1>3, <2>1 DEF OnePlace
  <2>2. ASSUME NEW i \in 1..Len(bus'), NEW t \in Task, OnBus(i, t)'
        PROVE  ~InHand(t)' /\ t \notin firing' /\ working'[t] = 0
    BY <1>3, <2>2 DEF OnePlace
  <2>3. ASSUME NEW t \in Task, InHand(t)' PROVE t \notin firing' /\ working'[t] = 0
    BY <1>3, <2>3 DEF OnePlace
  <2> QED
    BY <2>1, <2>2, <2>3 DEF OnePlace
<1>6. Stages'
  <2>1. ASSUME NEW i \in 1..Len(bus') PROVE Stage(bus[i])'
    <3>1. CASE bus'[i].type \in TaskEvents
      BY <1>1, <3>1 DEF Stages, Stage
    <3>2. CASE bus'[i].type \notin TaskEvents
      BY <3>2 DEF Stage, TaskEvents, HandOutEvents, ReportEvents
    <3> QED
      BY <3>1, <3>2
  <2>2. ASSUME pc' = "handle" PROVE Stage(evt)'
    BY <2>2 DEF Stages, Stage, TaskEvents, HandOutEvents, ReportEvents
  <2> QED
    BY <2>1, <2>2 DEF Stages, Stage
<1>7. ASSUME NEW t \in Task, t \notin S, DependenciesDone(t) PROVE DependenciesDone(t)'
  BY <1>7 DEF DependenciesDone, AllDependenciesSatisfied
<1>8. ASSUME NEW t \in Task
      PROVE  /\ Held(t)' => task'[t] = "pending" /\ DependenciesDone(t)'
             /\ given'[t] <= 1
             /\ given'[t] > 0 => task'[t] # "none" /\ DependenciesDone(t)'
             /\ task'[t] \in {"completed", "failed"} => given'[t] = 1
  <2>1. CASE t \in S
    BY <1>2, <1>4, <2>1
  <2>2. CASE t \notin S
    BY <1>4, <1>7, <2>2 DEF Rowed
  <2> QED
    BY <2>1, <2>2
<1>9. Planned'
  <2>1. \A u, v \in Flow : u # v => tasksOf'[u] \cap tasksOf'[v] = {}
    BY <1>1 DEF Planned
  <2>2. ASSUME NEW v \in Flow, NEW t \in tasksOf'[v]
        PROVE  dependsOn'[t] \subseteq tasksOf'[v] \cup {Foreign}
    <3>1. CASE v = w
      BY <1>1, <3>1
    <3>2. CASE v # w
      <4>1. t \in tasksOf[v] /\ t \in Task /\ t \notin S
        BY <1>1, <3>2
      <4> QED
        BY <1>1, <3>2, <4>1 DEF Planned
    <3> QED
      BY <3>1, <3>2
  <2>3. ASSUME NEW t \in Task, task[t] # "none"
        PROVE  \E v \in Flow : t \in tasksOf'[v] /\ flow[v] # "none"
    <3>1. PICK v \in Flow : t \in tasksOf[v] /\ flow[v] # "none"
      BY <2>3 DEF Planned
    <3> QED
      BY <1>1, <3>1
  <2> QED
    BY <2>1, <2>2, <2>3 DEF Planned
<1>10. ASSUME NEW v \in Flow, NEW t \in tasksOf'[v], Held(t)' \/ given'[t] > 0
       PROVE  Whole(v)'
  <2>1. t \in Task
    BY <1>1
  <2>2. t \notin S
    BY <1>2, <1>4, <1>10, <2>1
  <2>3. v # w
    BY <1>1, <2>2
  <2>4. Whole(v)
    BY <1>1, <1>4, <1>10, <2>1, <2>3 DEF WholeOnly
  <2> QED
    BY <1>1, <2>3, <2>4 DEF Whole
<1> QED
  BY <1>5, <1>6, <1>8, <1>9, <1>10 DEF Rowed, WholeOnly

LEMMA SubmitKeeps ==
  ASSUME TaskInv, TypeOK', NEW w \in Flow, Submit(w) PROVE TaskInv'
<1>1. PICK S \in SUBSET Task :
        /\ Fresh(w, S)
        /\ tasksOf' = [tasksOf EXCEPT ![w] = S]
        /\ \E D \in [S -> SUBSET (S \cup {Foreign})] :
             dependsOn' = [t \in Task |-> IF t \in S THEN D[t] ELSE dependsOn[t]]
        /\ \A v \in Flow : v # w => (v \in template' <=> v \in template)
  BY DEF Submit
<1>2. /\ \A t \in Task : t \notin S => dependsOn'[t] = dependsOn[t]
      /\ \A t \in S : dependsOn'[t] \subseteq S \cup {Foreign}
  BY <1>1
<1>3. /\ UNCHANGED <<storeVars, pc, evt, firing, working, given>>
      /\ bus' = Append(bus, [type |-> "WorkflowSubmitted", id |-> w])
  BY DEF Submit, Post, routerVars, agentVars
<1>4. \A i \in 1..Len(bus') :
        bus'[i].type \in TaskEvents => i \in 1..Len(bus) /\ bus'[i] = bus[i]
  <2>1. [type |-> "WorkflowSubmitted", id |-> w] \in Event
    BY FlowEventsAreEvents DEF FlowEvents
  <2> QED
    BY <1>3, <2>1, NoTaskEventSent DEF TaskInv, TypeOK, TaskEvents
<1> QED
  BY <1>1, <1>2, <1>3, <1>4, PlanningKeeps

LEMMA InstantiateTemplateKeeps ==
  ASSUME TaskInv, TypeOK', NEW w \in Flow, InstantiateTemplate(w) PROVE TaskInv'
<1>1. PICK S \in SUBSET Task : \E f \in Bijection(S, Rows(evt.id)) :
        /\ Fresh(w, S)
        /\ tasksOf' = [tasksOf EXCEPT ![w] = S]
        /\ dependsOn' = CopiedDependencies(S, f, Rows(evt.id))
  BY DEF InstantiateTemplate
<1>2. /\ \A t \in Task : t \notin S => dependsOn'[t] = dependsOn[t]
      /\ \A t \in S : dependsOn'[t] \subseteq S \cup {Foreign}
  BY <1>1 DEF CopiedDependencies
<1>3. /\ UNCHANGED <<storeVars, bus, pc, firing, working, given>>
      /\ evt'.type \notin TaskEvents
      /\ \A v \in Flow : v # w => (v \in template' <=> v \in template)
  BY DEF InstantiateTemplate, agentVars, TaskEvents
<1>4. \A i \in 1..Len(bus') :
        bus'[i].type \in TaskEvents => i \in 1..Len(bus) /\ bus'[i] = bus[i]
  BY <1>3
<1> QED
  BY <1>1, <1>2, <1>3, <1>4, PlanningKeeps
-----------------------------------------------------------------------------
LEMMA TaskInvInit == Init => TaskInv
<1> SUFFICES ASSUME Init PROVE TaskInv
  OBVIOUS
<1> USE DEF Init
<1>1. TypeOK
  BY TypeInit
<1>2. \A t \in Task : ~Held(t) /\ ~InHand(t)
  BY DEF Held, OnBus, InHand
<1>3. OnePlace
  BY <1>2 DEF OnePlace, OnBus
<1>4. Stages /\ Rowed
  BY <1>2 DEF Stages, Stage, Rowed
<1>5. Planned /\ WholeOnly
  BY DEF Planned, WholeOnly
<1> QED
  BY <1>1, <1>3, <1>4, <1>5 DEF TaskInv

LEMMA TaskInvNext == TaskInv /\ [Next]_vars => TaskInv'
<1> SUFFICES ASSUME TaskInv, [Next]_vars PROVE TaskInv'
  OBVIOUS
<1>t. TypeOK /\ TypeOK'
  BY TypeNext DEF TaskInv
<1>b. /\ bus \in Seq(Event)
      /\ \A t \in Task : working[t] <= working[t]
      /\ flow \in [Flow -> {"none", "running", "completed"}]
  BY <1>t DEF TypeOK
<1> USE <1>t, <1>b DEF planVars, storeVars, routerVars, agentVars, Handling, Return
<1>1. ASSUME NEW w \in Flow, Submit(w) PROVE TaskInv'
  BY <1>1, SubmitKeeps
<1>2. ASSUME NEW w \in Flow, FireCron(w) PROVE TaskInv'
  <2>1. [type |-> "WorkflowInstantiate", id |-> w] \in Event
    BY FlowEventsAreEvents DEF FlowEvents
  <2> QED
    BY <1>2, <2>1, NoTaskEventSent, LosingEvents DEF FireCron, Post, TaskEvents
<1>3. CASE OtherTraffic
  <2>1. [type |-> "Other", id |-> NoId] \in Event
    BY DEF Event
  <2> QED
    BY <1>3, <2>1, NoTaskEventSent, LosingEvents DEF OtherTraffic, Post, TaskEvents
<1>4. CASE Receive
  BY <1>4, ReceiveKeeps
<1>5. ASSUME NEW w \in Flow, SubmitWorkflow(w) PROVE TaskInv'
  <2>1. /\ \A t \in firing' : t \in tasksOf[w] /\ dependsOn[t] = {}
        /\ firing' # {} => w \notin template
    BY <1>5 DEF SubmitWorkflow, GetRootTasks
  <2> QED
    BY <1>5, <2>1, StoringKeeps DEF SubmitWorkflow
<1>6. ASSUME NEW w \in Flow, RejectWorkflow(w) PROVE TaskInv'
  BY <1>6, LosingEvents DEF RejectWorkflow
<1>7. ASSUME NEW w \in Flow, InstantiateTemplate(w) PROVE TaskInv'
  BY <1>7, InstantiateTemplateKeeps
<1>8. ASSUME NEW w \in Flow, CheckWorkflowCompletion(w) PROVE TaskInv'
  <2>1. [type |-> "WorkflowCompleted", id |-> w] \in Event
    BY FlowEventsAreEvents DEF FlowEvents
  <2>2. CASE AllComplete(w)
    BY <1>8, <2>1, <2>2, NoTaskEventSent, LosingEvents
    DEF CheckWorkflowCompletion, Post, TaskEvents
  <2>3. CASE ~AllComplete(w)
    BY <1>8, <2>3, LosingEvents DEF CheckWorkflowCompletion
  <2> QED
    BY <2>2, <2>3
<1>9. ASSUME NEW w \in Flow, HandleSynthesize(w) PROVE TaskInv'
  BY <1>9, LosingEvents DEF HandleSynthesize
<1>10. ASSUME NEW t \in Task, TaskFailed(t) PROVE TaskInv'
  BY <1>10, TaskFailedKeeps
<1>11. ASSUME NEW t \in Task, TaskCompleted(t) PROVE TaskInv'
  BY <1>11, TaskCompletedKeeps
<1>12. ASSUME NEW t \in Task, FireTask(t) PROVE TaskInv'
  BY <1>12, FireTaskKeeps
<1>13. ASSUME NEW t \in Task, HandleAgentExecute(t) PROVE TaskInv'
  BY <1>13, HandleAgentExecuteKeeps
<1>14. CASE NoMoreIds
  BY <1>14, LosingEvents DEF NoMoreIds
<1>15. CASE RootsFired
  BY <1>15, LosingEvents DEF RootsFired
<1>16. CASE MarkCompleted
  BY <1>16, LosingEvents DEF MarkCompleted
<1>17. CASE HandleTaskAssigned
  BY <1>17, HandleTaskAssignedKeeps
<1>18. CASE HandleWorkflowCompleted
  <2>1. [type |-> "Synthesize", id |-> evt.id] \in Event
    <3>1. evt.id \in Flow
      BY <1>18, EventIds DEF HandleWorkflowCompleted, Forward, FlowEvents, TypeOK
    <3> QED
      BY <3>1, FlowEventsAreEvents DEF FlowEvents
  <2>2. CASE Full
    BY <1>18, <2>2, LosingEvents DEF HandleWorkflowCompleted, Forward
  <2>3. CASE ~Full
    BY <1>18, <2>1, <2>3, NoTaskEventSent, LosingEvents
    DEF HandleWorkflowCompleted, Forward, Post, TaskEvents
  <2> QED
    BY <2>2, <2>3
<1>19. CASE HandleOther
  BY <1>19, LosingEvents DEF HandleOther
<1>20. ASSUME NEW t \in Task, Report(t) PROVE TaskInv'
  BY <1>20, ReportKeeps
<1>21. ASSUME NEW t \in Task, NoReport(t) PROVE TaskInv'
  <2>1. \A u \in Task : working'[u] <= working[u]
    BY <1>21 DEF NoReport, TypeOK
  <2> QED
    BY <1>21, <2>1, LosingEvents DEF NoReport
<1>22. ASSUME NEW w \in Flow, SubmitWorkflowFails(w) PROVE TaskInv'
  BY <1>22, StoringKeeps DEF SubmitWorkflowFails
<1>23. ASSUME NEW t \in Task, CompletionNotStored(t) PROVE TaskInv'
  BY <1>23, LosingEvents DEF CompletionNotStored
<1>24. ASSUME NEW t \in Task, DependentsNotRead(t) PROVE TaskInv'
  BY <1>24, DependentsNotReadKeeps
<1>25. ASSUME NEW t \in Task, DependentSkipped(t) PROVE TaskInv'
  BY <1>25, LosingEvents DEF DependentSkipped
<1>26. CASE WorkflowStatusLost
  BY <1>26, LosingEvents DEF WorkflowStatusLost
<1>27. CASE NotDelivered
  BY <1>27, LosingEvents DEF NotDelivered
<1>28. CASE Restart
  <2>1. /\ \A u \in Task : working'[u] <= working[u]
        /\ Len(bus') = 0
    BY <1>28 DEF Restart, TypeOK
  <2> QED
    BY <1>28, <2>1, LosingEvents DEF Restart
<1>29. CASE UNCHANGED vars
  BY <1>29, LosingEvents DEF vars
<1> QED
  BY <1>1, <1>2, <1>3, <1>4, <1>5, <1>6, <1>7, <1>8, <1>9, <1>10, <1>11, <1>12,
     <1>13, <1>14, <1>15, <1>16, <1>17, <1>18, <1>19, <1>20, <1>21, <1>22,
     <1>23, <1>24, <1>25, <1>26, <1>27, <1>28, <1>29
  DEF Next, Reliable, Environment, Router, Fault

LEMMA TaskInvariant == Spec => []TaskInv
BY TaskInvInit, TaskInvNext, PTL DEF Spec

\* However the bus, the agents and the store fail, an agent is never handed a
\* task before everything the task depends on is completed.
THEOREM DependenciesFirst == Spec => []DependencyOrder
<1>1. TaskInv => DependencyOrder
  BY DEF TaskInv, Rowed, DependencyOrder
<1> QED
  BY <1>1, TaskInvariant, PTL

\* ... and never handed a task twice, whichever dependency completes last.
THEOREM OnceOnly == Spec => []HandedOutOnce
<1>1. TaskInv => HandedOutOnce
  BY DEF TaskInv, Rowed, HandedOutOnce
<1> QED
  BY <1>1, TaskInvariant, PTL

\* A template, and a workflow of which only some rows were stored, never runs.
THEOREM WholeWorkflowsOnly == Spec => []OnlyWholeWorkflowsRun
<1>1. TaskInv => OnlyWholeWorkflowsRun
  BY DEF TaskInv, TypeOK, WholeOnly, Whole, OnlyWholeWorkflowsRun
<1> QED
  BY <1>1, TaskInvariant, PTL
-----------------------------------------------------------------------------
\* What a step does not undo: a plan once it has tasks, a result, and a row's
\* place in its workflow.
LEMMA ResultsStay ==
  ASSUME TaskInv, [Next]_vars
  PROVE  /\ \A t \in Task : task[t] = "completed" => task'[t] = "completed"
         /\ \A w \in Flow : tasksOf[w] # {} => tasksOf'[w] = tasksOf[w]
         /\ \A w \in Flow, t \in Task :
              task[t] # "none" /\ t \in tasksOf'[w] => t \in tasksOf[w]
         /\ \A w \in Flow : flow[w] = "completed" => flow'[w] = "completed"
<1> DEFINE Kept == /\ \A t \in Task : task[t] = "completed" => task'[t] = "completed"
                   /\ \A w \in Flow : tasksOf[w] # {} => tasksOf'[w] = tasksOf[w]
                   /\ \A w \in Flow, t \in Task :
                        task[t] # "none" /\ t \in tasksOf'[w] => t \in tasksOf[w]
                   /\ \A w \in Flow : flow[w] = "completed" => flow'[w] = "completed"
<1>t. TypeOK
  BY DEF TaskInv
<1>p. \A w \in Flow : flow[w] = "none" => \A t \in tasksOf[w] : task[t] = "none"
  BY <1>t DEF TaskInv, Planned, TypeOK
<1>1. ASSUME NEW w \in Flow, NEW S \in SUBSET Task, Fresh(w, S), UNCHANGED storeVars,
             tasksOf' = [tasksOf EXCEPT ![w] = S]
      PROVE  Kept
  <2>1. \A t \in S : task[t] = "none"
    BY <1>1 DEF TaskInv, Planned, Fresh
  <2> QED
    BY <1>1, <1>t, <2>1 DEF Fresh, TypeOK, storeVars
<1>2. ASSUME NEW w \in Flow, NEW S \in SUBSET tasksOf[w], flow[w] = "none",
             flow' = [flow EXCEPT ![w] = "running"],
             task' = [t \in Task |-> IF t \in S THEN "pending" ELSE task[t]],
             UNCHANGED planVars
      PROVE  Kept
  BY <1>2, <1>t, <1>p DEF planVars, TypeOK
<1>3. ASSUME NEW w \in Flow, Submit(w) PROVE Kept
  BY <1>1, <1>3 DEF Submit
<1>4. ASSUME NEW w \in Flow, InstantiateTemplate(w) PROVE Kept
  BY <1>1, <1>4 DEF InstantiateTemplate
<1>5. ASSUME NEW w \in Flow, SubmitWorkflow(w) \/ SubmitWorkflowFails(w) PROVE Kept
  <2>1. PICK S \in SUBSET tasksOf[w] :
          task' = [t \in Task |-> IF t \in S THEN "pending" ELSE task[t]]
    BY <1>5 DEF SubmitWorkflow, SubmitWorkflowFails
  <2> QED
    BY <1>2, <1>5, <2>1 DEF SubmitWorkflow, SubmitWorkflowFails
<1>6. ASSUME NEW t \in Task, TaskFailed(t) PROVE Kept
  <2>1. task[t] = "pending"
    BY <1>6 DEF TaskFailed, Handling, TaskInv, Rowed, Held, InHand, TaskEvents
  <2> QED
    BY <1>6, <1>t, <2>1 DEF TaskFailed, planVars, TypeOK
<1>7. ASSUME NEW t \in Task, TaskCompleted(t) \/ DependentsNotRead(t) PROVE Kept
  BY <1>7, <1>t DEF TaskCompleted, DependentsNotRead, planVars, TypeOK
<1>8. CASE MarkCompleted
  BY <1>8, <1>t DEF MarkCompleted, planVars, TypeOK
<1>9. ASSUME UNCHANGED <<planVars, storeVars>> PROVE Kept
  BY <1>9 DEF planVars, storeVars
<1>10. \/ \E w \in Flow : \/ Submit(w) \/ InstantiateTemplate(w)
                           \/ SubmitWorkflow(w) \/ SubmitWorkflowFails(w)
       \/ \E t \in Task : TaskFailed(t) \/ TaskCompleted(t) \/ DependentsNotRead(t)
       \/ MarkCompleted
       \/ UNCHANGED <<planVars, storeVars>>
  BY DEF Next, Reliable, Environment, Router, Fault, vars, FireCron, OtherTraffic, Receive,
         RejectWorkflow, CheckWorkflowCompletion, HandleSynthesize, FireTask,
         HandleAgentExecute, NoMoreIds, RootsFired, HandleTaskAssigned,
         HandleWorkflowCompleted, Forward, HandleOther, Report, NoReport,
         CompletionNotStored, DependentSkipped, WorkflowStatusLost, NotDelivered, Restart
<1> QED
  BY <1>3, <1>4, <1>5, <1>6, <1>7, <1>8, <1>9, <1>10

LEMMA DoneStays ==
  ASSUME TaskInv, [Next]_vars, NEW w \in Flow, Done(w)
  PROVE  Done(w)'
BY ResultsStay DEF Done, TaskInv, TypeOK

\* A completed task, and a completed workflow, stay so.
THEOREM KeptResults == Spec => ResultsAreKept
<1>1. TaskInv /\ [Next]_vars =>
        [/\ \A t \in Task : task[t] = "completed" => task'[t] = "completed"
         /\ \A w \in Flow : flow[w] = "completed" => flow'[w] = "completed"]_vars
  BY ResultsStay
<1> QED
  BY <1>1, TaskInvariant, PTL DEF Spec, ResultsAreKept
-----------------------------------------------------------------------------
\* A step that tells nobody anything and only loses result events.
LEMMA LosingResults ==
  ASSUME TaskInv, TypeOK', OneResult, [Next]_vars, told' = told,
         \A i \in 1..Len(bus') :
           bus'[i].type \in ResultEvents => i \in 1..Len(bus) /\ bus'[i] = bus[i],
         pc' = "handle" /\ evt'.type \in ResultEvents => pc = "handle" /\ evt' = evt,
         pc' = "mark" => pc = "mark" /\ evt' = evt,
         \A w \in Flow : flow'[w] = "completed" => flow[w] = "completed"
  PROVE  OneResult'
<1>1. ASSUME NEW w \in Flow
      PROVE  /\ \A i \in 1..Len(bus') :
                  ResultOnBus(i, w)' => i \in 1..Len(bus) /\ ResultOnBus(i, w)
             /\ ResultInHand(w)' => ResultInHand(w)
  BY DEF ResultOnBus, ResultInHand
<1>2. ASSUME NEW i \in 1..Len(bus'), NEW j \in 1..Len(bus'), NEW w \in Flow,
             ResultOnBus(i, w)', ResultOnBus(j, w)'
      PROVE  i = j
  BY <1>1, <1>2 DEF OneResult
<1>3. ASSUME NEW i \in 1..Len(bus'), NEW w \in Flow, ResultOnBus(i, w)'
      PROVE  ~ResultInHand(w)' /\ told'[w] = 0 /\ Done(w)'
  BY <1>1, <1>3, DoneStays DEF OneResult
<1>4. ASSUME NEW w \in Flow, ResultInHand(w)' PROVE told'[w] = 0 /\ Done(w)'
  BY <1>1, <1>4, DoneStays DEF OneResult
<1>5. ASSUME NEW w \in Flow
      PROVE  told'[w] <= 1 /\ (told'[w] > 0 => Done(w)')
  BY DoneStays DEF OneResult
<1>6. ASSUME NEW w \in Flow, flow'[w] = "completed" PROVE Done(w)'
  BY <1>6, DoneStays DEF OneResult
<1>7. ASSUME pc' = "mark" PROVE evt'.type = "WorkflowCompleted" /\ Done(evt.id)'
  <2>1. /\ evt.type = "WorkflowCompleted" /\ Done(evt.id) /\ evt' = evt
        /\ evt.id \in Flow
    BY <1>7, EventIds DEF OneResult, TaskInv, TypeOK, FlowEvents
  <2> QED
    BY <2>1, DoneStays DEF Done
<1> QED
  BY <1>2, <1>3, <1>4, <1>5, <1>6, <1>7 DEF OneResult

\* The handler of a completion goes on, and no result is sent meanwhile.
LEMMA StillNotTold ==
  ASSUME TaskInv, [Next]_vars, NotYetTold, told' = told,
         pc' = "fire" /\ evt'.type = "TaskCompleted" => pc = "fire" /\ evt' = evt,
         \A i \in 1..Len(bus') :
           bus'[i].type \in ResultEvents => i \in 1..Len(bus) /\ bus'[i] = bus[i]
  PROVE  NotYetTold'
<1> SUFFICES ASSUME pc' = "fire", evt'.type = "TaskCompleted"
             PROVE  /\ task'[evt'.id] = "completed"
                    /\ \A w \in Flow : evt'.id \in tasksOf'[w] =>
                         /\ told'[w] = 0
                         /\ \A i \in 1..Len(bus') : ~ResultOnBus(i, w)'
  BY DEF NotYetTold, ResultOnBus
<1>1. /\ evt' = evt /\ evt.id \in Task /\ task[evt.id] = "completed"
      /\ \A w \in Flow : evt.id \in tasksOf[w] =>
           /\ told[w] = 0
           /\ \A i \in 1..Len(bus) : ~ResultOnBus(i, w)
  BY EventIds DEF NotYetTold, TaskInv, TypeOK, TaskEvents
<1>2. task'[evt.id] = "completed"
  BY <1>1, ResultsStay
<1>3. ASSUME NEW w \in Flow, evt.id \in tasksOf'[w]
      PROVE  told'[w] = 0 /\ \A i \in 1..Len(bus') : ~ResultOnBus(i, w)'
  <2>1. evt.id \in tasksOf[w]
    BY <1>1, <1>3, ResultsStay
  <2> QED
    BY <1>1, <2>1 DEF ResultOnBus
<1> QED
  BY <1>1, <1>2, <1>3

\* A send that is about no result leaves the results where they are.
LEMMA NoResultSent ==
  ASSUME bus \in Seq(Event), NEW e \in Event, e.type \notin ResultEvents,
         bus' = Append(bus, e)
  PROVE  \A i \in 1..Len(bus') :
           bus'[i].type \in ResultEvents => i \in 1..Len(bus) /\ bus'[i] = bus[i]
<1> TAKE i \in 1..Len(bus')
<1>1. CASE i \in 1..Len(bus)
  BY <1>1, AppendToBus
<1>2. CASE i = Len(bus) + 1
  BY <1>2, AppendToBus
<1> QED
  BY <1>1, <1>2, AppendToBus

LEMMA ReceiveKeepsResults ==
  ASSUME TaskInv, TypeOK', OneResult, [Next]_vars, Receive
  PROVE  OneResult' /\ NotYetTold'
<1>1. /\ Len(bus) \in Nat \ {0}
      /\ Len(bus') = Len(bus) - 1
      /\ \A i \in 1..Len(bus') : i + 1 \in 1..Len(bus) /\ bus'[i] = bus[i + 1]
      /\ evt' = bus[1]
      /\ 1 \in 1..Len(bus)
  BY TailOfBus DEF TaskInv, TypeOK, Receive
<1>2. ASSUME NEW w \in Flow
      PROVE  /\ \A i \in 1..Len(bus') : ResultOnBus(i, w)' => ResultOnBus(i + 1, w)
             /\ ResultInHand(w)' => ResultOnBus(1, w)
  BY <1>1 DEF ResultOnBus, ResultInHand
<1>3. told' = told /\ flow' = flow /\ pc' = "handle"
  BY DEF Receive, agentVars, storeVars
<1>4. ASSUME NEW i \in 1..Len(bus'), NEW j \in 1..Len(bus'), NEW w \in Flow,
             ResultOnBus(i, w)', ResultOnBus(j, w)'
      PROVE  i = j
  <2>1. i + 1 = j + 1
    BY <1>1, <1>2, <1>4 DEF OneResult
  <2> QED
    BY <2>1, <1>1
<1>5. ASSUME NEW i \in 1..Len(bus'), NEW w \in Flow, ResultOnBus(i, w)'
      PROVE  ~ResultInHand(w)' /\ told'[w] = 0 /\ Done(w)'
  <2>1. ResultInHand(w)' => i + 1 = 1
    BY <1>1, <1>2, <1>5 DEF OneResult
  <2> QED
    BY <2>1, <1>1, <1>2, <1>3, <1>5, DoneStays DEF OneResult
<1>6. ASSUME NEW w \in Flow, ResultInHand(w)' PROVE told'[w] = 0 /\ Done(w)'
  BY <1>1, <1>2, <1>3, <1>6, DoneStays DEF OneResult
<1>7. ASSUME NEW w \in Flow
      PROVE  /\ told'[w] <= 1 /\ (told'[w] > 0 => Done(w)')
             /\ flow'[w] = "completed" => Done(w)'
  BY <1>3, DoneStays DEF OneResult
<1> QED
  BY <1>3, <1>4, <1>5, <1>6, <1>7 DEF OneResult, NotYetTold

\* The results of x leave the router for the end of the bus.
LEMMA SendingResultKeeps ==
  ASSUME TaskInv, TypeOK', OneResult, [Next]_vars, NEW x \in Flow,
         NEW type \in ResultEvents, Done(x), told[x] = 0,
         \A i \in 1..Len(bus) : ~ResultOnBus(i, x),
         bus' = Append(bus, [type |-> type, id |-> x]),
         told' = told, flow' = flow,
         pc' # "handle",
         pc' = "mark" => evt' = [type |-> "WorkflowCompleted", id |-> x]
  PROVE  OneResult'
<1> DEFINE e == [type |-> type, id |-> x]
<1>1. /\ Len(bus) \in Nat
      /\ Len(bus') = Len(bus) + 1
      /\ \A i \in 1..Len(bus) : bus'[i] = bus[i]
      /\ bus'[Len(bus) + 1] = e
  <2>1. e \in Event
    BY FlowEventsAreEvents DEF ResultEvents, FlowEvents
  <2> QED
    BY <2>1, AppendToBus DEF TaskInv, TypeOK
<1>2. \A i \in 1..Len(bus') : i \in 1..Len(bus) \/ i = Len(bus) + 1
  BY <1>1
<1>3. ASSUME NEW i \in 1..Len(bus'), NEW w \in Flow, ResultOnBus(i, w)'
      PROVE  \/ i \in 1..Len(bus) /\ ResultOnBus(i, w)
             \/ i = Len(bus) + 1 /\ w = x
  BY <1>1, <1>2, <1>3 DEF ResultOnBus
<1>4. ASSUME NEW i \in 1..Len(bus'), NEW j \in 1..Len(bus'), NEW w \in Flow,
             ResultOnBus(i, w)', ResultOnBus(j, w)'
      PROVE  i = j
  BY <1>3, <1>4 DEF OneResult
<1>5. ASSUME NEW i \in 1..Len(bus'), NEW w \in Flow, ResultOnBus(i, w)'
      PROVE  ~ResultInHand(w)' /\ told'[w] = 0 /\ Done(w)'
  <2>1. told[w] = 0 /\ Done(w)
    BY <1>3, <1>5 DEF OneResult
  <2> QED
    BY <2>1, DoneStays DEF ResultInHand
<1>6. ASSUME NEW w \in Flow
      PROVE  /\ ~ResultInHand(w)'
             /\ told'[w] <= 1 /\ (told'[w] > 0 => Done(w)')
             /\ flow'[w] = "completed" => Done(w)'
  BY DoneStays DEF OneResult, ResultInHand
<1>7. ASSUME pc' = "mark" PROVE evt'.type = "WorkflowCompleted" /\ Done(evt.id)'
  <2>1. evt'.type = "WorkflowCompleted" /\ evt'.id = x /\ Done(x)'
    BY <1>7, DoneStays
  <2> QED
    BY <2>1 DEF Done
<1> QED
  BY <1>4, <1>5, <1>6, <1>7 DEF OneResult

LEMMA CheckWorkflowCompletionKeepsResults ==
  ASSUME TaskInv, TypeOK', ResultInv, [Next]_vars, NEW w \in Flow,
         CheckWorkflowCompletion(w)
  PROVE  OneResult' /\ NotYetTold'
<1> USE DEF ResultInv, CheckWorkflowCompletion, planVars, storeVars, agentVars, Return
<1>1. CASE AllComplete(w)
  <2>1. /\ evt.id \in tasksOf[w] /\ evt.id \in Task /\ task[evt.id] = "completed"
        /\ told[w] = 0
        /\ \A i \in 1..Len(bus) : ~ResultOnBus(i, w)
    BY DEF NotYetTold, TaskInv, TypeOK
  <2>2. Whole(w)
    BY <2>1 DEF TaskInv, Rowed, WholeOnly
  <2>3. Done(w)
    BY <1>1, <2>1, <2>2 DEF Done, Whole, AllComplete, Rows
  <2>4. bus' = Append(bus, [type |-> "WorkflowCompleted", id |-> w])
    BY <1>1 DEF Post
  <2>5. pc' = "mark" /\ evt' = [type |-> "WorkflowCompleted", id |-> w]
    BY <1>1
  <2> QED
    BY <2>1, <2>3, <2>4, <2>5, SendingResultKeeps DEF NotYetTold, ResultEvents
<1>2. CASE ~AllComplete(w)
  BY <1>2, LosingResults DEF NotYetTold
<1> QED
  BY <1>1, <1>2

LEMMA HandleWorkflowCompletedKeepsResults ==
  ASSUME TaskInv, TypeOK', OneResult, [Next]_vars, HandleWorkflowCompleted
  PROVE  OneResult' /\ NotYetTold'
<1> USE DEF HandleWorkflowCompleted, Forward, Handling, planVars, storeVars, agentVars, Return
<1>1. CASE Full
  BY <1>1, LosingResults DEF NotYetTold
<1>2. CASE ~Full
  <2>1. evt.id \in Flow
    BY EventIds DEF TaskInv, TypeOK, FlowEvents
  <2>2. ResultInHand(evt.id)
    BY DEF ResultInHand, ResultEvents
  <2>3. /\ told[evt.id] = 0 /\ Done(evt.id)
        /\ \A i \in 1..Len(bus) : ~ResultOnBus(i, evt.id)
    BY <2>1, <2>2 DEF OneResult
  <2>4. bus' = Append(bus, [type |-> "Synthesize", id |-> evt.id])
    BY <1>2 DEF Post
  <2> QED
    BY <2>1, <2>3, <2>4, SendingResultKeeps DEF NotYetTold, ResultEvents
<1> QED
  BY <1>1, <1>2

LEMMA HandleSynthesizeKeepsResults ==
  ASSUME TaskInv, TypeOK', OneResult, [Next]_vars, NEW x \in Flow, HandleSynthesize(x)
  PROVE  OneResult' /\ NotYetTold'
<1> USE DEF HandleSynthesize, Handling, planVars, storeVars, Return
<1>1. ResultInHand(x)
  BY DEF ResultInHand, ResultEvents
<1>2. /\ told[x] = 0 /\ Done(x) /\ \A i \in 1..Len(bus) : ~ResultOnBus(i, x)
  BY <1>1 DEF OneResult
<1>3. /\ told'[x] = 1 /\ \A w \in Flow : w # x => told'[w] = told[w]
      /\ bus' = bus /\ pc' = "idle" /\ flow' = flow
  BY <1>2 DEF TaskInv, TypeOK
<1>4. ASSUME NEW i \in 1..Len(bus'), NEW w \in Flow, ResultOnBus(i, w)'
      PROVE  /\ ResultOnBus(i, w) /\ w # x
             /\ ~ResultInHand(w)' /\ told'[w] = 0 /\ Done(w)'
  <2>1. ResultOnBus(i, w)
    BY <1>3, <1>4 DEF ResultOnBus
  <2>2. w # x /\ told[w] = 0 /\ Done(w)
    BY <1>2, <1>3, <2>1 DEF OneResult
  <2> QED
    BY <1>3, <2>1, <2>2, DoneStays DEF ResultInHand
<1>5. \A i, j \in 1..Len(bus'), w \in Flow : ResultOnBus(i, w)' /\ ResultOnBus(j, w)' => i = j
  BY <1>3 DEF OneResult, ResultOnBus
<1>6. ASSUME NEW w \in Flow
      PROVE  /\ ~ResultInHand(w)'
             /\ told'[w] <= 1 /\ (told'[w] > 0 => Done(w)')
             /\ flow'[w] = "completed" => Done(w)'
  BY <1>2, <1>3, DoneStays DEF OneResult, ResultInHand
<1> QED
  BY <1>3, <1>4, <1>5, <1>6 DEF OneResult, NotYetTold

LEMMA TaskCompletedKeepsResults ==
  ASSUME TaskInv, TypeOK', OneResult, [Next]_vars, NEW x \in Task, TaskCompleted(x)
  PROVE  OneResult' /\ NotYetTold'
<1> USE DEF TaskCompleted, Handling, planVars, agentVars
<1>1. OneResult'
  BY LosingResults
<1>2. task[x] = "pending"
  BY DEF TaskInv, Rowed, Held, InHand, TaskEvents
<1>3. ASSUME NEW w \in Flow, x \in tasksOf[w]
      PROVE  told[w] = 0 /\ \A i \in 1..Len(bus) : ~ResultOnBus(i, w)
  <2>1. ~Done(w)
    BY <1>2, <1>3 DEF Done
  <2> QED
    BY <2>1 DEF OneResult, TaskInv, TypeOK
<1>4. task'[x] = "completed"
  BY DEF TaskInv, TypeOK
<1> QED
  BY <1>1, <1>3, <1>4 DEF NotYetTold, ResultOnBus

LEMMA ResultInvNext == TaskInv /\ ResultInv /\ [Next]_vars => ResultInv'
<1> SUFFICES ASSUME TaskInv, ResultInv, [Next]_vars PROVE ResultInv'
  OBVIOUS
<1>t. TypeOK /\ TypeOK' /\ OneResult /\ NotYetTold
  BY TypeNext DEF TaskInv, ResultInv
<1>b. bus \in Seq(Event)
  BY <1>t DEF TypeOK
<1> USE <1>t, <1>b DEF planVars, storeVars, routerVars, agentVars, Handling, Return
<1>q. ASSUME told' = told, flow' = flow,
             \A i \in 1..Len(bus') :
               bus'[i].type \in ResultEvents => i \in 1..Len(bus) /\ bus'[i] = bus[i],
             \/ UNCHANGED <<pc, evt>>
             \/ pc' = "idle"
             \/ pc' = "fire" /\ evt'.type = "WorkflowSubmitted"
             \/ pc' = "handle" /\ evt'.type = "WorkflowSubmitted"
      PROVE  ResultInv'
  <2>1. OneResult'
    BY <1>q, LosingResults DEF ResultEvents
  <2>2. NotYetTold'
    BY <1>q, StillNotTold
  <2> QED
    BY <2>1, <2>2 DEF ResultInv
<1>1. ASSUME NEW e \in Event, e.type \notin ResultEvents, bus' = Append(bus, e),
             UNCHANGED <<told, flow>>, UNCHANGED <<pc, evt>> \/ pc' = "idle"
      PROVE  ResultInv'
  BY <1>1, <1>q, NoResultSent
<1>2. ASSUME NEW w \in Flow, Submit(w) \/ FireCron(w) PROVE ResultInv'
  <2>1. /\ [type |-> "WorkflowSubmitted", id |-> w] \in Event
        /\ [type |-> "WorkflowInstantiate", id |-> w] \in Event
    BY FlowEventsAreEvents DEF FlowEvents
  <2> QED
    BY <1>1, <1>2, <2>1 DEF Submit, FireCron, Post, ResultEvents
<1>3. CASE OtherTraffic
  <2>1. [type |-> "Other", id |-> NoId] \in Event
    BY DEF Event
  <2> QED
    BY <1>1, <1>3, <2>1 DEF OtherTraffic, Post, ResultEvents
<1>4. CASE Receive
  BY <1>4, ReceiveKeepsResults DEF ResultInv
<1>5. ASSUME NEW w \in Flow, SubmitWorkflow(w) \/ SubmitWorkflowFails(w) PROVE ResultInv'
  <2>1. \A v \in Flow : flow'[v] = "completed" => flow[v] = "completed"
    BY <1>5 DEF SubmitWorkflow, SubmitWorkflowFails, TypeOK
  <2>2. /\ told' = told /\ bus' = bus
        /\ pc' = "idle" \/ (pc' = "fire" /\ evt' = evt /\ evt.type = "WorkflowSubmitted")
    BY <1>5 DEF SubmitWorkflow, SubmitWorkflowFails
  <2> QED
    BY <2>1, <2>2, LosingResults, StillNotTold DEF ResultInv
<1>6. ASSUME NEW w \in Flow, RejectWorkflow(w) \/ InstantiateTemplate(w) PROVE ResultInv'
  BY <1>6, <1>q DEF RejectWorkflow, InstantiateTemplate
<1>7. ASSUME NEW w \in Flow, CheckWorkflowCompletion(w) PROVE ResultInv'
  BY <1>7, CheckWorkflowCompletionKeepsResults DEF ResultInv
<1>8. ASSUME NEW w \in Flow, HandleSynthesize(w) PROVE ResultInv'
  BY <1>8, HandleSynthesizeKeepsResults DEF ResultInv
<1>9. ASSUME NEW t \in Task,
             \/ TaskFailed(t) \/ DependentsNotRead(t) \/ CompletionNotStored(t)
             \/ DependentSkipped(t) \/ HandleAgentExecute(t) \/ NoReport(t)
      PROVE  ResultInv'
  BY <1>9, <1>q
  DEF TaskFailed, DependentsNotRead, CompletionNotStored, DependentSkipped,
      HandleAgentExecute, NoReport
<1>10. ASSUME NEW t \in Task, TaskCompleted(t) PROVE ResultInv'
  BY <1>10, TaskCompletedKeepsResults DEF ResultInv
<1>11. ASSUME NEW t \in Task, FireTask(t) PROVE ResultInv'
  <2>1. [type |-> "TaskAssigned", id |-> t] \in Event
    BY TaskEventsAreEvents DEF TaskEvents
  <2> QED
    BY <1>1, <1>11, <2>1 DEF FireTask, Post, ResultEvents
<1>12. ASSUME NEW t \in Task, Report(t) PROVE ResultInv'
  <2>1. PICK type \in ReportEvents : bus' = Append(bus, [type |-> type, id |-> t])
    BY <1>12 DEF Report, Post, ReportEvents
  <2>2. type \in TaskEvents /\ type \notin ResultEvents
    BY DEF ReportEvents, TaskEvents, ResultEvents
  <2>3. [type |-> type, id |-> t] \in Event
    BY <2>2, TaskEventsAreEvents
  <2> QED
    BY <1>1, <1>12, <2>1, <2>2, <2>3 DEF Report
<1>13. CASE HandleTaskAssigned
  <2>1. CASE Full
    BY <1>13, <1>q, <2>1 DEF HandleTaskAssigned, Forward
  <2>2. CASE ~Full
    <3>1. evt.id \in Task
      BY <1>13, EventIds DEF HandleTaskAssigned, Forward, TypeOK, TaskEvents
    <3>2. [type |-> "AgentExecute", id |-> evt.id] \in Event
      BY <3>1, TaskEventsAreEvents DEF TaskEvents
    <3> QED
      BY <1>1, <1>13, <2>2, <3>2 DEF HandleTaskAssigned, Forward, Post, ResultEvents
  <2> QED
    BY <2>1, <2>2
<1>14. CASE HandleWorkflowCompleted
  BY <1>14, HandleWorkflowCompletedKeepsResults DEF ResultInv
<1>15. CASE MarkCompleted
  <2>1. /\ evt.id \in Flow /\ Done(evt.id)
        /\ flow' = [flow EXCEPT ![evt.id] = "completed"]
        /\ told' = told /\ bus' = bus /\ pc' = "idle"
    BY <1>15, EventIds DEF MarkCompleted, OneResult, TypeOK, FlowEvents
  <2>2. \A w \in Flow : flow'[w] = "completed" => Done(w)
    BY <2>1 DEF OneResult, TypeOK
  <2>3. ASSUME NEW w \in Flow
        PROVE  /\ \A i \in 1..Len(bus') : ResultOnBus(i, w)' <=> ResultOnBus(i, w)
               /\ ~ResultInHand(w)'
               /\ Done(w) => Done(w)'
    BY <2>1, DoneStays DEF ResultOnBus, ResultInHand
  <2> QED
    BY <2>1, <2>2, <2>3 DEF ResultInv, OneResult, NotYetTold, ResultOnBus
<1>16. CASE NoMoreIds \/ RootsFired \/ HandleOther \/ WorkflowStatusLost \/ NotDelivered
  BY <1>16, <1>q DEF NoMoreIds, RootsFired, HandleOther, WorkflowStatusLost, NotDelivered
<1>17. CASE Restart
  <2>1. Len(bus') = 0
    BY <1>17 DEF Restart
  <2> QED
    BY <1>17, <1>q, <2>1 DEF Restart
<1>18. CASE UNCHANGED vars
  BY <1>18, <1>q DEF vars
<1> QED
  BY <1>2, <1>3, <1>4, <1>5, <1>6, <1>7, <1>8, <1>9, <1>10, <1>11, <1>12,
     <1>13, <1>14, <1>15, <1>16, <1>17, <1>18
  DEF Next, Reliable, Environment, Router, Fault

LEMMA ResultInvInit == Init => ResultInv
BY DEF Init, ResultInv, OneResult, NotYetTold, ResultOnBus, ResultInHand

LEMMA InductiveInvariant == Spec => []Inductive
<1>1. Init => Inductive
  BY TaskInvInit, ResultInvInit DEF Inductive
<1>2. Inductive /\ [Next]_vars => Inductive'
  BY TaskInvNext, ResultInvNext DEF Inductive
<1> QED
  BY <1>1, <1>2, PTL DEF Spec

\* The executive is told the results of a workflow once at most, and only when
\* every task of the definition is completed.
THEOREM ToldOnce == Spec => []ToldOnceWhenDone
<1>1. Inductive => ToldOnceWhenDone
  BY DEF Inductive, ResultInv, OneResult, Done, ToldOnceWhenDone
<1> QED
  BY <1>1, InductiveInvariant, PTL

\* A workflow's row says completed only when all of its tasks are.
THEOREM CompletedIsDone == Spec => []CompletedMeansDone
<1>1. Inductive => CompletedMeansDone
  BY DEF Inductive, ResultInv, OneResult, Done, CompletedMeansDone
<1> QED
  BY <1>1, InductiveInvariant, PTL
-----------------------------------------------------------------------------
\* Once the router waits for room on the bus, no agent, no submission and no
\* other traffic makes any: the kernel stands still until it is restarted.
THEOREM WedgedStays == Spec => WedgedForGood
<1>1. ASSUME TaskInv, Wedged, Reliable PROVE FALSE
  <2>1. /\ Full /\ pc = "fire"
        /\ \/ firing # {}
           \/ /\ evt.type = "TaskCompleted"
              /\ \E w \in Flow : evt.id \in tasksOf[w] /\ AllComplete(w)
    BY <1>1 DEF Wedged
  <2>2. ~Environment
    BY <2>1 DEF Environment, Submit, FireCron, OtherTraffic, Post
  <2>3. ~\E t \in Task : Report(t)
    BY <2>1 DEF Report, Post
  <2>4. ASSUME NEW w \in Flow, CheckWorkflowCompletion(w) PROVE FALSE
    <3>1. firing = {} /\ evt.id \in tasksOf[w] /\ ~AllComplete(w)
      BY <2>1, <2>4 DEF CheckWorkflowCompletion, Post
    <3>2. PICK v \in Flow : evt.id \in tasksOf[v] /\ AllComplete(v)
      BY <2>1, <3>1
    <3>3. v = w
      BY <1>1, <3>1, <3>2 DEF TaskInv, Planned
    <3> QED
      BY <3>1, <3>2, <3>3
  <2>5. ~Router
    BY <2>1, <2>4
    DEF Router, Receive, SubmitWorkflow, RejectWorkflow, InstantiateTemplate,
        HandleSynthesize, TaskFailed, TaskCompleted, FireTask, HandleAgentExecute,
        NoMoreIds, RootsFired, MarkCompleted, HandleTaskAssigned,
        HandleWorkflowCompleted, Forward, HandleOther, Handling, Post
  <2> QED
    BY <1>1, <2>2, <2>3, <2>5 DEF Reliable
<1>2. TaskInv => [Wedged /\ Reliable => Wedged']_vars
  BY <1>1
<1> QED
  BY <1>2, TaskInvariant, PTL DEF WedgedForGood

-----------------------------------------------------------------------------
\* What the executive and the scheduler see to when they send.
SentWell(e) ==
  /\ e.type \in PlanEvents => ~InFlight(e) /\ UNCHANGED <<flow, evt>>
  /\ e.type = "WorkflowSubmitted" => flow[e.id] = "none"
  /\ e.type = "WorkflowInstantiate" =>
       flow[e.id] # "none" /\ e.id \in template /\ UNCHANGED template

\* What a step does to the bus.
LEMMA BusStep ==
  ASSUME TypeOK, [Next]_vars
  PROVE  \/ bus' = bus
         \/ bus' = <<>>
         \/ bus # <<>> /\ bus' = Tail(bus)
         \/ \E e \in Event :
              /\ bus' = Append(bus, e)
              /\ SentWell(e)
              /\ e.type = "Other" => Cardinality(Others) < MaxOther
<1> DEFINE Sent(e) == /\ bus' = Append(bus, e)
                      /\ SentWell(e)
                      /\ e.type = "Other" => Cardinality(Others) < MaxOther
           Fine == \/ bus' = bus
                   \/ bus' = <<>>
                   \/ bus # <<>> /\ bus' = Tail(bus)
                   \/ \E e \in Event : Sent(e)
<1> SUFFICES Fine
  OBVIOUS
<1>a. ASSUME NEW t \in Task, NEW type \in TaskEvents, Post(type, t) PROVE Fine
  <2>1. [type |-> type, id |-> t] \in Event
    BY TaskEventsAreEvents
  <2>2. Sent([type |-> type, id |-> t])
    BY <1>a DEF Post, TaskEvents, PlanEvents, SentWell
  <2> QED
    BY <2>1, <2>2
<1>b. ASSUME NEW w \in Flow, NEW type \in FlowEvents, Post(type, w),
             SentWell([type |-> type, id |-> w])
      PROVE  Fine
  <2>1. [type |-> type, id |-> w] \in Event
    BY FlowEventsAreEvents
  <2>2. Sent([type |-> type, id |-> w])
    BY <1>b DEF Post, FlowEvents
  <2> QED
    BY <2>1, <2>2
<1>1. ASSUME NEW w \in Flow, Submit(w) PROVE Fine
  <2>1. Post("WorkflowSubmitted", w)
    BY <1>1 DEF Submit
  <2>2. SentWell([type |-> "WorkflowSubmitted", id |-> w])
    BY <1>1 DEF Submit, Fresh, SentWell, storeVars, routerVars
  <2> QED
    BY <1>b, <2>1, <2>2 DEF FlowEvents
<1>2. ASSUME NEW w \in Flow, FireCron(w) PROVE Fine
  <2>1. Post("WorkflowInstantiate", w)
    BY <1>2 DEF FireCron
  <2>2. SentWell([type |-> "WorkflowInstantiate", id |-> w])
    BY <1>2 DEF FireCron, SentWell, planVars, storeVars, routerVars
  <2> QED
    BY <1>b, <2>1, <2>2 DEF FlowEvents
<1>3. CASE OtherTraffic
  <2>1. [type |-> "Other", id |-> NoId] \in Event
    BY DEF Event
  <2>2. Sent([type |-> "Other", id |-> NoId])
    BY <1>3 DEF OtherTraffic, Post, PlanEvents, Others, SentWell
  <2> QED
    BY <2>1, <2>2
<1>4. CASE Receive
  BY <1>4 DEF Receive
<1>5. ASSUME NEW w \in Flow, CheckWorkflowCompletion(w) PROVE Fine
  <2>1. CASE AllComplete(w)
    BY <1>5, <1>b, <2>1 DEF CheckWorkflowCompletion, FlowEvents, PlanEvents, SentWell
  <2>2. CASE ~AllComplete(w)
    BY <1>5, <2>2 DEF CheckWorkflowCompletion
  <2> QED
    BY <2>1, <2>2
<1>6. ASSUME NEW t \in Task, FireTask(t) PROVE Fine
  BY <1>6, <1>a DEF FireTask, TaskEvents
<1>7. CASE HandleTaskAssigned
  <2>1. evt.id \in Task
    BY <1>7, EventIds DEF HandleTaskAssigned, Forward, Handling, TaskEvents, TypeOK
  <2> QED
    BY <1>7, <1>a, <2>1 DEF HandleTaskAssigned, Forward, TaskEvents
<1>8. CASE HandleWorkflowCompleted
  <2>1. evt.id \in Flow
    BY <1>8, EventIds DEF HandleWorkflowCompleted, Forward, Handling, FlowEvents, TypeOK
  <2> QED
    BY <1>8, <1>b, <2>1
    DEF HandleWorkflowCompleted, Forward, FlowEvents, PlanEvents, SentWell
<1>9. ASSUME NEW t \in Task, Report(t) PROVE Fine
  BY <1>9, <1>a DEF Report, TaskEvents
<1>10. CASE Restart
  BY <1>10 DEF Restart
<1>11. CASE UNCHANGED vars
  BY <1>11 DEF vars
<1>12. ASSUME NEW w \in Flow,
              \/ SubmitWorkflow(w) \/ RejectWorkflow(w) \/ InstantiateTemplate(w)
              \/ HandleSynthesize(w) \/ SubmitWorkflowFails(w)
       PROVE  Fine
  BY <1>12 DEF SubmitWorkflow, RejectWorkflow, InstantiateTemplate, HandleSynthesize,
               SubmitWorkflowFails
<1>13. ASSUME NEW t \in Task,
              \/ TaskFailed(t) \/ TaskCompleted(t) \/ HandleAgentExecute(t)
              \/ CompletionNotStored(t) \/ DependentsNotRead(t) \/ DependentSkipped(t)
              \/ NoReport(t)
       PROVE  Fine
  BY <1>13 DEF TaskFailed, TaskCompleted, HandleAgentExecute, CompletionNotStored,
               DependentsNotRead, DependentSkipped, NoReport
<1>14. CASE \/ NoMoreIds \/ RootsFired \/ MarkCompleted \/ HandleOther
            \/ WorkflowStatusLost \/ NotDelivered
  BY <1>14 DEF NoMoreIds, RootsFired, MarkCompleted, HandleOther, WorkflowStatusLost,
               NotDelivered
<1> HIDE DEF Fine
<1> QED
  BY <1>1, <1>2, <1>3, <1>4, <1>5, <1>6, <1>7, <1>8, <1>9, <1>10, <1>11, <1>12, <1>13,
     <1>14
  DEF Next, Reliable, Environment, Router, Fault

\* The other traffic is a finite set of places, which a receive moves up by one
\* and a send adds one to at most.
LEMMA OthersAreFinite ==
  ASSUME TypeOK
  PROVE  IsFiniteSet(Others) /\ Cardinality(Others) \in Nat
<1>1. Len(bus) \in Nat
  BY DEF TypeOK
<1>2. IsFiniteSet(1..Len(bus))
  BY <1>1, FS_Interval
<1>3. IsFiniteSet(Others)
  BY <1>2, FS_Subset DEF Others
<1> QED
  BY <1>3, FS_CardinalityType

LEMMA OthersFitNext == TypeOK /\ TypeOK' /\ OthersFit /\ [Next]_vars => OthersFit'
<1> SUFFICES ASSUME TypeOK, TypeOK', OthersFit, [Next]_vars PROVE OthersFit'
  OBVIOUS
<1>1. CASE bus' = bus
  BY <1>1 DEF OthersFit, Others
<1>2. CASE bus' = <<>>
  <2>1. Len(bus') = 0 /\ Others' = {}
    BY <1>2 DEF Others
  <2>2. Cardinality(Others') = 0
    BY <2>1, FS_EmptySet
  <2> QED
    BY <2>1, <2>2, WorkflowAssumption DEF OthersFit
<1>3. CASE bus # <<>> /\ bus' = Tail(bus)
  <2>1. /\ Len(bus) \in Nat \ {0} /\ Len(bus') = Len(bus) - 1
        /\ \A i \in 1..Len(bus') : bus'[i] = bus[i + 1]
    BY <1>3, TailOfBus DEF TypeOK
  <2> DEFINE f == [i \in Others' |-> i + 1]
  <2>2. Others' \subseteq Nat /\ \A i \in Others' : i + 1 \in Others
    BY <2>1 DEF Others
  <2>3. f \in Injection(Others', Others)
    BY <2>2 DEF Injection, IsInjective
  <2>4. IsFiniteSet(Others') /\ Cardinality(Others') <= Cardinality(Others)
    <3>1. IsFiniteSet(Others)
      BY OthersAreFinite
    <3> HIDE DEF f
    <3> QED
      BY <2>3, <3>1, FS_Injection
  <2>5. Cardinality(Others') \in Nat
    BY <2>4, FS_CardinalityType
  <2>6. Cardinality(Others) \in Nat /\ Cardinality(Others) <= MaxOther
    BY OthersAreFinite DEF OthersFit
  <2> QED
    BY <2>4, <2>5, <2>6, WorkflowAssumption DEF OthersFit
<1>4. ASSUME NEW e \in Event, bus' = Append(bus, e),
             e.type = "Other" => Cardinality(Others) < MaxOther
      PROVE  OthersFit'
  <2>1. /\ Len(bus) \in Nat /\ Len(bus') = Len(bus) + 1
        /\ \A i \in 1..Len(bus) : bus'[i] = bus[i]
        /\ bus'[Len(bus) + 1] = e
    BY <1>4, AppendToBus DEF TypeOK
  <2>2. CASE e.type = "Other"
    <3>1. Others' = Others \cup {Len(bus) + 1}
      BY <2>1, <2>2 DEF Others
    <3>2. IsFiniteSet(Others) /\ Cardinality(Others) \in Nat
      BY OthersAreFinite
    <3>3. \/ Cardinality(Others \cup {Len(bus) + 1}) = Cardinality(Others)
          \/ Cardinality(Others \cup {Len(bus) + 1}) = Cardinality(Others) + 1
      BY <3>2, FS_AddElement, Zenon
    <3> QED
      BY <1>4, <2>2, <3>1, <3>2, <3>3, WorkflowAssumption DEF OthersFit
  <2>3. CASE e.type # "Other"
    <3>1. Others' = Others
      BY <2>1, <2>3 DEF Others
    <3> QED
      BY <3>1 DEF OthersFit
  <2> QED
    BY <2>2, <2>3
<1> QED
  BY <1>1, <1>2, <1>3, <1>4, BusStep

\* A workflow whose tasks are done has a row and is no template.
LEMMA DoneIsRowed ==
  ASSUME TaskInv, NEW w \in Flow, NEW t \in tasksOf[w], task[t] = "completed"
  PROVE  flow[w] # "none" /\ w \notin template
<1>1. t \in Task
  BY DEF TaskInv, TypeOK
<1>2. given[t] > 0
  BY <1>1 DEF TaskInv, Rowed
<1>3. w \notin template
  BY <1>2 DEF TaskInv, WholeOnly, Whole
<1>4. PICK v \in Flow : t \in tasksOf[v] /\ flow[v] # "none"
  BY <1>1 DEF TaskInv, Planned
<1>5. v = w
  BY <1>4 DEF TaskInv, Planned
<1> QED
  BY <1>3, <1>4, <1>5

\* A row that is there stays, a template with one remains one, and the row of a
\* plan on the bus is not written: only the event the router handles makes one.
LEMMA RowsAreMadeByPlans ==
  ASSUME Inductive, PlansFit, [Next]_vars
  PROVE  /\ \A w \in Flow : flow[w] # "none" =>
              flow'[w] # "none" /\ (w \in template => w \in template')
         /\ \A w \in Flow : \/ flow'[w] = flow[w]
                            \/ flow[w] # "none"
                            \/ evt = [type |-> "WorkflowSubmitted", id |-> w]
<1> DEFINE Fine ==
      /\ \A w \in Flow : flow[w] # "none" =>
           flow'[w] # "none" /\ (w \in template => w \in template')
      /\ \A w \in Flow : \/ flow'[w] = flow[w]
                         \/ flow[w] # "none"
                         \/ evt = [type |-> "WorkflowSubmitted", id |-> w]
<1> SUFFICES Fine
  OBVIOUS
<1> USE DEF planVars, storeVars
<1>0. TypeOK /\ TaskInv /\ ResultInv
  BY DEF Inductive, TaskInv
<1>a. ASSUME UNCHANGED <<flow, template>> PROVE Fine
  BY <1>a
<1>1. ASSUME NEW w \in Flow, Submit(w) PROVE Fine
  BY <1>1 DEF Submit, Fresh
<1>2. ASSUME NEW w \in Flow, InstantiateTemplate(w) PROVE Fine
  BY <1>2 DEF InstantiateTemplate, Fresh
<1>3. ASSUME NEW w \in Flow, SubmitWorkflow(w) \/ SubmitWorkflowFails(w) PROVE Fine
  <2>1. /\ evt.type = "WorkflowSubmitted" /\ evt.id = w
        /\ flow' = [flow EXCEPT ![w] = "running"] /\ template' = template
    BY <1>3 DEF SubmitWorkflow, SubmitWorkflowFails, Handling
  <2>2. evt = [type |-> "WorkflowSubmitted", id |-> w]
    BY <1>0, <2>1 DEF TypeOK, Event, NoEvent
  <2> QED
    BY <1>0, <2>1, <2>2 DEF TypeOK
<1>4. CASE MarkCompleted
  <2>1. /\ pc = "mark" /\ template' = template
        /\ flow' = [flow EXCEPT ![evt.id] = "completed"]
    BY <1>4 DEF MarkCompleted
  <2>2. evt.type = "WorkflowCompleted" /\ Done(evt.id)
    BY <1>0, <2>1 DEF ResultInv, OneResult
  <2>3. evt.id \in Flow
    BY <1>0, <2>2, EventIds DEF TypeOK, FlowEvents
  <2>4. flow[evt.id] # "none"
    BY <1>0, <2>2, <2>3, DoneIsRowed DEF Done
  <2> QED
    BY <1>0, <2>1, <2>3, <2>4 DEF TypeOK
<1>5. CASE Receive \/ OtherTraffic \/ NoMoreIds \/ RootsFired \/ HandleTaskAssigned
           \/ HandleWorkflowCompleted \/ HandleOther \/ WorkflowStatusLost \/ NotDelivered
           \/ Restart \/ UNCHANGED vars
  BY <1>5, <1>a
  DEF Receive, OtherTraffic, NoMoreIds, RootsFired, HandleTaskAssigned,
      HandleWorkflowCompleted, Forward, HandleOther, WorkflowStatusLost, NotDelivered,
      Restart, vars
<1>6. ASSUME NEW w \in Flow,
             FireCron(w) \/ RejectWorkflow(w) \/ CheckWorkflowCompletion(w)
               \/ HandleSynthesize(w)
      PROVE  Fine
  BY <1>6, <1>a DEF FireCron, RejectWorkflow, CheckWorkflowCompletion, HandleSynthesize
<1>7. ASSUME NEW t \in Task,
             \/ TaskFailed(t) \/ TaskCompleted(t) \/ FireTask(t) \/ HandleAgentExecute(t)
             \/ Report(t) \/ NoReport(t) \/ CompletionNotStored(t) \/ DependentsNotRead(t)
             \/ DependentSkipped(t)
      PROVE  Fine
  BY <1>7, <1>a
  DEF TaskFailed, TaskCompleted, FireTask, HandleAgentExecute, Report, NoReport,
      CompletionNotStored, DependentsNotRead, DependentSkipped
<1> HIDE DEF Fine
<1> QED
  BY <1>1, <1>2, <1>3, <1>4, <1>5, <1>6, <1>7
  DEF Next, Reliable, Environment, Router, Fault

\* The event in hand is one that was received, a copy of a template that is on
\* nobody's way yet, or the results of a workflow.
LEMMA HandledEvents ==
  ASSUME TypeOK, [Next]_vars
  PROVE  \/ evt' = evt
         \/ evt'.type # "WorkflowSubmitted"
         \/ bus # <<>> /\ bus' = Tail(bus) /\ evt' = Head(bus)
         \/ bus' = bus /\ ~InFlight(evt')
<1> DEFINE Fine == \/ evt' = evt
                   \/ evt'.type # "WorkflowSubmitted"
                   \/ bus # <<>> /\ bus' = Tail(bus) /\ evt' = Head(bus)
                   \/ bus' = bus /\ ~InFlight(evt')
<1> SUFFICES Fine
  OBVIOUS
<1> USE DEF routerVars
<1>a. ASSUME UNCHANGED evt PROVE Fine
  BY <1>a
<1>b. ASSUME Return PROVE Fine
  BY <1>b DEF Return, NoEvent
<1>1. CASE Receive
  BY <1>1 DEF Receive
<1>2. ASSUME NEW w \in Flow, InstantiateTemplate(w) PROVE Fine
  BY <1>2 DEF InstantiateTemplate, Fresh
<1>3. ASSUME NEW w \in Flow, CheckWorkflowCompletion(w) PROVE Fine
  <2>1. CASE AllComplete(w)
    BY <1>3, <2>1 DEF CheckWorkflowCompletion
  <2>2. CASE ~AllComplete(w)
    BY <1>3, <1>b, <2>2 DEF CheckWorkflowCompletion
  <2> QED
    BY <2>1, <2>2
<1>4. ASSUME NEW w \in Flow, SubmitWorkflow(w) PROVE Fine
  BY <1>4, <1>a, <1>b DEF SubmitWorkflow
<1>5. CASE OtherTraffic \/ UNCHANGED vars
  BY <1>5, <1>a DEF OtherTraffic, vars
<1>6. CASE NoMoreIds \/ RootsFired \/ HandleTaskAssigned \/ HandleWorkflowCompleted
           \/ HandleOther \/ WorkflowStatusLost \/ NotDelivered \/ Restart \/ MarkCompleted
  BY <1>6, <1>b
  DEF NoMoreIds, RootsFired, HandleTaskAssigned, HandleWorkflowCompleted, Forward,
      HandleOther, WorkflowStatusLost, NotDelivered, Restart, MarkCompleted
<1>7. ASSUME NEW w \in Flow,
             Submit(w) \/ FireCron(w) \/ RejectWorkflow(w) \/ HandleSynthesize(w)
               \/ SubmitWorkflowFails(w)
      PROVE  Fine
  BY <1>7, <1>a, <1>b
  DEF Submit, FireCron, RejectWorkflow, HandleSynthesize, SubmitWorkflowFails
<1>8. ASSUME NEW t \in Task,
             \/ TaskFailed(t) \/ TaskCompleted(t) \/ FireTask(t) \/ HandleAgentExecute(t)
             \/ Report(t) \/ NoReport(t) \/ CompletionNotStored(t) \/ DependentsNotRead(t)
             \/ DependentSkipped(t)
      PROVE  Fine
  BY <1>8, <1>a, <1>b
  DEF TaskFailed, TaskCompleted, FireTask, HandleAgentExecute, Report, NoReport,
      CompletionNotStored, DependentsNotRead, DependentSkipped
<1> HIDE DEF Fine
<1> QED
  BY <1>1, <1>2, <1>3, <1>4, <1>5, <1>6, <1>7, <1>8
  DEF Next, Reliable, Environment, Router, Fault

LEMMA PlansFitNext == Inductive /\ TypeOK' /\ PlansFit /\ [Next]_vars => PlansFit'
<1> SUFFICES ASSUME Inductive, TypeOK', PlansFit, [Next]_vars PROVE PlansFit'
  OBVIOUS
<1>0. TypeOK
  BY DEF Inductive, TaskInv
<1>1. /\ Len(bus) \in Nat
      /\ \A i \in 1..Len(bus) : /\ bus[i] \in Event
                                /\ bus[i].type \in PlanEvents => bus[i].id \in Flow
  BY <1>0, EventIds DEF TypeOK, PlanEvents, FlowEvents
\* What is on the bus stays as it should be, unless it is received.
<1>2. ASSUME NEW i \in 1..Len(bus)
      PROVE  /\ bus[i].type = "WorkflowSubmitted" => flow'[bus[i].id] = "none"
             /\ bus[i].type = "WorkflowInstantiate" =>
                  flow'[bus[i].id] # "none" /\ bus[i].id \in template'
  <2>1. CASE bus[i].type = "WorkflowSubmitted"
    <3>1. bus[i] = [type |-> "WorkflowSubmitted", id |-> bus[i].id]
      BY <1>1, <2>1 DEF Event
    <3>2. flow[bus[i].id] = "none" /\ evt # bus[i] /\ bus[i].id \in Flow
      BY <1>1, <2>1 DEF PlansFit, PlanEvents
    <3>3. flow'[bus[i].id] = flow[bus[i].id]
      BY <3>1, <3>2, RowsAreMadeByPlans
    <3> QED
      BY <2>1, <3>2, <3>3
  <2>2. CASE bus[i].type = "WorkflowInstantiate"
    <3>1. flow[bus[i].id] # "none" /\ bus[i].id \in template /\ bus[i].id \in Flow
      BY <1>1, <2>2 DEF PlansFit, PlanEvents
    <3> QED
      BY <2>2, <3>1, RowsAreMadeByPlans
  <2> QED
    BY <2>1, <2>2
<1>3. ASSUME NEW i \in 1..Len(bus), bus[i].type = "WorkflowSubmitted",
             ~(bus # <<>> /\ bus' = Tail(bus) /\ evt' = Head(bus))
      PROVE  evt' # bus[i]
  <2>1. evt # bus[i]
    BY <1>3 DEF PlansFit
  <2> QED
    BY <1>0, <1>3, <2>1, HandledEvents DEF InFlight
<1>4. CASE bus' = bus
  <2>1. ~(bus # <<>> /\ bus' = Tail(bus) /\ evt' = Head(bus))
    BY <1>0, <1>4, TailOfBus DEF TypeOK
  <2> QED
    BY <1>2, <1>3, <1>4, <2>1 DEF PlansFit
<1>5. CASE bus' = <<>>
  BY <1>5 DEF PlansFit
<1>6. CASE bus # <<>> /\ bus' = Tail(bus)
  <2>1. /\ Len(bus) \in Nat \ {0} /\ Len(bus') = Len(bus) - 1
        /\ Head(bus) = bus[1]
        /\ \A i \in 1..Len(bus') : bus'[i] = bus[i + 1]
    BY <1>0, <1>6, TailOfBus DEF TypeOK
  <2>2. \A i \in 1..Len(bus') : i + 1 \in 1..Len(bus) /\ i + 1 # 1
    BY <2>1
  <2>3. ASSUME NEW i \in 1..Len(bus'), NEW j \in 1..Len(bus'),
               bus'[i].type \in PlanEvents, bus'[i] = bus'[j]
        PROVE  i = j
    <3>1. i + 1 = j + 1
      BY <2>1, <2>2, <2>3 DEF PlansFit
    <3> QED
      BY <3>1
  <2>4. ASSUME NEW i \in 1..Len(bus'), bus'[i].type = "WorkflowSubmitted"
        PROVE  evt' # bus'[i]
    <3>1. bus[i + 1].type = "WorkflowSubmitted" /\ i + 1 \in 1..Len(bus) /\ i + 1 # 1
      BY <2>1, <2>2, <2>4
    <3>2. 1 \in 1..Len(bus)
      BY <2>1
    <3>3. bus[1] # bus[i + 1]
      BY <3>1, <3>2 DEF PlansFit, PlanEvents
    <3> QED
      BY <1>3, <2>1, <3>1, <3>3
  <2> QED
    BY <1>2, <2>1, <2>2, <2>3, <2>4 DEF PlansFit
<1>7. ASSUME NEW e \in Event, bus' = Append(bus, e), SentWell(e) PROVE PlansFit'
  <2>1. /\ Len(bus) \in Nat /\ Len(bus') = Len(bus) + 1
        /\ \A i \in 1..Len(bus) : bus'[i] = bus[i]
        /\ bus'[Len(bus) + 1] = e
    BY <1>0, <1>7, AppendToBus DEF TypeOK
  <2>2. ASSUME NEW k \in 1..Len(bus), bus[k] = e, e.type \in PlanEvents PROVE FALSE
    BY <1>7, <2>2 DEF SentWell, InFlight
  <2>3. \A i, j \in 1..Len(bus') : bus'[i].type \in PlanEvents /\ bus'[i] = bus'[j] => i = j
    <3> TAKE i, j \in 1..Len(bus')
    <3> HAVE bus'[i].type \in PlanEvents /\ bus'[i] = bus'[j]
    <3>1. CASE i \in 1..Len(bus) /\ j \in 1..Len(bus)
      BY <2>1, <3>1 DEF PlansFit
    <3>2. CASE i = Len(bus) + 1 /\ j = Len(bus) + 1
      BY <3>2
    <3>3. CASE i \in 1..Len(bus) /\ j = Len(bus) + 1
      BY <2>1, <2>2, <3>3
    <3>4. CASE i = Len(bus) + 1 /\ j \in 1..Len(bus)
      BY <2>1, <2>2, <3>4
    <3> QED
      BY <2>1, <3>1, <3>2, <3>3, <3>4
  <2>4. ~(bus # <<>> /\ bus' = Tail(bus) /\ evt' = Head(bus))
    BY <1>0, <2>1, TailOfBus DEF TypeOK
  <2>5. ASSUME NEW i \in 1..Len(bus')
        PROVE  /\ bus'[i].type = "WorkflowSubmitted" => flow'[bus'[i].id] = "none" /\ evt' # bus'[i]
               /\ bus'[i].type = "WorkflowInstantiate" =>
                    flow'[bus'[i].id] # "none" /\ bus'[i].id \in template'
    <3>1. CASE i \in 1..Len(bus)
      BY <1>2, <1>3, <2>1, <2>4, <3>1
    <3>2. CASE i = Len(bus) + 1
      BY <1>7, <2>1, <3>2 DEF SentWell, PlanEvents, InFlight
    <3> QED
      BY <2>1, <3>1, <3>2
  <2> QED
    BY <2>3, <2>5 DEF PlansFit
<1> QED
  BY <1>0, <1>4, <1>5, <1>6, <1>7, BusStep

LEMMA BusInvariant == Spec => []BusInv
<1>1. Init => BusInv
  <2> SUFFICES ASSUME Init PROVE BusInv
    OBVIOUS
  <2>1. Len(bus) = 0 /\ Others = {}
    BY DEF Init, Others
  <2>2. Cardinality(Others) = 0
    BY <2>1, FS_EmptySet
  <2> QED
    BY <2>1, <2>2, WorkflowAssumption DEF BusInv, PlansFit, OthersFit
<1>2. Inductive /\ TypeOK' /\ BusInv /\ [Next]_vars => BusInv'
  BY OthersFitNext, PlansFitNext DEF BusInv, Inductive, TaskInv
<1> QED
  BY <1>1, <1>2, TypeCorrect, InductiveInvariant, PTL DEF Spec

\* Events that have an id each take no more room than there are ids.
LEMMA OnePlaceEach ==
  ASSUME NEW S, NEW T, IsFiniteSet(T), \A i \in S : bus[i].id \in T,
         \A i, j \in S : bus[i].id = bus[j].id => i = j
  PROVE  IsFiniteSet(S) /\ Cardinality(S) \in Nat /\ Cardinality(S) <= Cardinality(T)
<1> DEFINE f == [i \in S |-> bus[i].id]
<1>1. f \in Injection(S, T)
  BY DEF Injection, IsInjective
<1>2. IsFiniteSet(S) /\ Cardinality(S) <= Cardinality(T)
  BY <1>1, FS_Injection
<1> QED
  BY <1>2, FS_CardinalityType

\* A workflow has one event on the bus: its plan while it has no row, firings
\* while it is a template, its results when it is done.
LEMMA OneEventOfAWorkflow ==
  ASSUME Inductive, BusInv,
         NEW i \in 1..Len(bus), NEW j \in 1..Len(bus),
         bus[i].type \in FlowEvents, bus[j].type \in FlowEvents, bus[i].id = bus[j].id
  PROVE  i = j
<1> DEFINE w == bus[i].id
<1>1. TaskInv /\ TypeOK /\ OneResult
  BY DEF Inductive, TaskInv, ResultInv
<1>2. w \in Flow /\ bus[i] \in Event /\ bus[j] \in Event
  BY <1>1, EventIds DEF TypeOK
<1>3. ASSUME NEW k \in {i, j}, bus[k].type \in ResultEvents
      PROVE  flow[w] # "none" /\ w \notin template
  <2>1. Done(w)
    BY <1>1, <1>2, <1>3 DEF OneResult, ResultOnBus
  <2> QED
    BY <1>1, <1>2, <2>1, DoneIsRowed DEF Done
<1>4. ASSUME NEW k \in {i, j}, bus[k].type = "WorkflowSubmitted" PROVE flow[w] = "none"
  BY <1>4 DEF BusInv, PlansFit
<1>5. ASSUME NEW k \in {i, j}, bus[k].type = "WorkflowInstantiate"
      PROVE  flow[w] # "none" /\ w \in template
  BY <1>5 DEF BusInv, PlansFit
<1>6. CASE bus[i].type \in ResultEvents
  <2>1. bus[j].type \in ResultEvents
    BY <1>3, <1>4, <1>5, <1>6 DEF FlowEvents, ResultEvents
  <2> QED
    BY <1>1, <1>2, <1>6, <2>1 DEF OneResult, ResultOnBus
<1>7. CASE bus[i].type \in PlanEvents
  <2>1. bus[j].type = bus[i].type
    BY <1>3, <1>4, <1>5, <1>7 DEF FlowEvents, ResultEvents, PlanEvents
  <2>2. bus[i] = bus[j]
    BY <1>2, <2>1 DEF Event
  <2> QED
    BY <1>7, <2>2 DEF BusInv, PlansFit
<1> QED
  BY <1>6, <1>7 DEF FlowEvents, ResultEvents, PlanEvents

\* The cardinality of a union is the sum of the cardinalities at most.
LEMMA UnionAtMost ==
  ASSUME NEW A, NEW B, IsFiniteSet(A), IsFiniteSet(B)
  PROVE  /\ IsFiniteSet(A \cup B)
         /\ Cardinality(A) \in Nat /\ Cardinality(B) \in Nat
         /\ Cardinality(A \cup B) \in Nat
         /\ Cardinality(A \cup B) <= Cardinality(A) + Cardinality(B)
<1>1. /\ IsFiniteSet(A \cup B) /\ IsFiniteSet(A \cap B)
      /\ Cardinality(A \cup B) = Cardinality(A) + Cardinality(B) - Cardinality(A \cap B)
  BY FS_Union, FS_Intersection
<1>2. /\ Cardinality(A \cap B) \in Nat /\ Cardinality(A) \in Nat /\ Cardinality(B) \in Nat
      /\ Cardinality(A \cup B) \in Nat
  BY <1>1, FS_CardinalityType
<1> QED
  BY <1>1, <1>2

\* All that is on the bus, by what it is about.
LEMMA BusIsCounted ==
  ASSUME Inductive, BusInv, NEW S, NEW T, IsFiniteSet(S), IsFiniteSet(T),
         \A i \in 1..Len(bus) : bus[i].type \in TaskEvents => bus[i].id \in S,
         \A i \in 1..Len(bus) : bus[i].type \in FlowEvents => bus[i].id \in T
  PROVE  Len(bus) <= Cardinality(S) + Cardinality(T) + MaxOther
<1> DEFINE OfTasks == {i \in 1..Len(bus) : bus[i].type \in TaskEvents}
           OfFlows == {i \in 1..Len(bus) : bus[i].type \in FlowEvents}
<1>1. TypeOK /\ OnePlace
  BY DEF Inductive, TaskInv
<1>2. /\ Len(bus) \in Nat
      /\ \A i \in 1..Len(bus) : bus[i] \in Event
  BY <1>1 DEF TypeOK
<1>3. /\ IsFiniteSet(OfTasks) /\ Cardinality(OfTasks) \in Nat
      /\ Cardinality(OfTasks) <= Cardinality(S)
  <2>1. \A i \in OfTasks : bus[i].id \in S
    OBVIOUS
  <2>2. \A i, j \in OfTasks : bus[i].id = bus[j].id => i = j
    BY <1>1, <1>2, EventIds DEF OnePlace, OnBus
  <2> QED
    BY <2>1, <2>2, OnePlaceEach
<1>4. /\ IsFiniteSet(OfFlows) /\ Cardinality(OfFlows) \in Nat
      /\ Cardinality(OfFlows) <= Cardinality(T)
  <2>1. \A i \in OfFlows : bus[i].id \in T
    OBVIOUS
  <2>2. \A i, j \in OfFlows : bus[i].id = bus[j].id => i = j
    BY OneEventOfAWorkflow
  <2> QED
    BY <2>1, <2>2, OnePlaceEach
<1>5. /\ IsFiniteSet(Others) /\ Cardinality(Others) \in Nat
      /\ Cardinality(Others) <= MaxOther
  BY <1>1, OthersAreFinite DEF BusInv, OthersFit
<1>6. 1..Len(bus) = (OfTasks \cup OfFlows) \cup Others
  <2>1. \A i \in 1..Len(bus) : bus[i].type \in TaskEvents \cup FlowEvents \cup {"Other"}
    BY <1>2 DEF Event
  <2>2. ASSUME NEW i \in 1..Len(bus)
        PROVE  i \in OfTasks \/ i \in OfFlows \/ i \in Others
    BY <2>1 DEF Others
  <2>3. /\ OfTasks \subseteq 1..Len(bus) /\ OfFlows \subseteq 1..Len(bus)
        /\ Others \subseteq 1..Len(bus)
    BY DEF Others
  <2> HIDE DEF OfTasks, OfFlows
  <2> QED
    BY <2>2, <2>3
<1>7. Cardinality(1..Len(bus)) = Len(bus)
  <2>1. 1 \in Int /\ Len(bus) \in Int
    BY <1>2
  <2>2. Cardinality(1..Len(bus)) = IF 1 > Len(bus) THEN 0 ELSE Len(bus) - 1 + 1
    BY <2>1, FS_Interval, Zenon
  <2> QED
    BY <1>2, <2>2
<1> HIDE DEF OfTasks, OfFlows
<1>8. /\ IsFiniteSet(OfTasks \cup OfFlows)
      /\ Cardinality(OfTasks \cup OfFlows) \in Nat
      /\ Cardinality(OfTasks \cup OfFlows) <= Cardinality(OfTasks) + Cardinality(OfFlows)
  BY <1>3, <1>4, UnionAtMost, Zenon
<1>9. Cardinality((OfTasks \cup OfFlows) \cup Others)
        <= Cardinality(OfTasks \cup OfFlows) + Cardinality(Others)
  BY <1>5, <1>8, UnionAtMost, Zenon
<1>10. Len(bus) <= Cardinality(OfTasks \cup OfFlows) + Cardinality(Others)
  BY <1>6, <1>7, <1>9
<1>11. Cardinality(S) \in Nat /\ Cardinality(T) \in Nat
  BY FS_CardinalityType
<1> QED
  BY <1>2, <1>3, <1>4, <1>5, <1>8, <1>10, <1>11, WorkflowAssumption

\* With room for one event of every task and of every workflow, and for what the
\* other traffic takes, the engine's own sends never block the router.
THEOREM RoomIsEnough ==
  ASSUME IsFiniteSet(Task), IsFiniteSet(Flow),
         BusSize >= Cardinality(Task) + Cardinality(Flow) + MaxOther
  PROVE  Spec => []NeverWedged
<1>1. /\ Cardinality(Task) \in Nat /\ Cardinality(Flow) \in Nat
  BY FS_CardinalityType
<1>2. ASSUME Inductive, BusInv, Wedged PROVE FALSE
  <2>1. TypeOK /\ OnePlace /\ NotYetTold /\ TaskInv
    BY <1>2 DEF Inductive, TaskInv, ResultInv
  <2>2. Len(bus) \in Nat /\ \A i \in 1..Len(bus) : bus[i] \in Event
    BY <2>1 DEF TypeOK
  <2>3. \A i \in 1..Len(bus) : /\ bus[i].type \in TaskEvents => bus[i].id \in Task
                               /\ bus[i].type \in FlowEvents => bus[i].id \in Flow
    BY <2>2, EventIds
  <2>4. ASSUME NEW t \in firing PROVE FALSE
    <3>1. t \in Task
      BY <2>1 DEF TypeOK
    <3>2. \A i \in 1..Len(bus) : bus[i].type \in TaskEvents => bus[i].id \in Task \ {t}
      BY <2>1, <2>3, <3>1 DEF OnePlace, OnBus
    <3>3. /\ IsFiniteSet(Task \ {t})
          /\ Cardinality(Task \ {t}) = Cardinality(Task) - 1
      BY <3>1, FS_RemoveElement
    <3>4. Len(bus) <= Cardinality(Task \ {t}) + Cardinality(Flow) + MaxOther
      BY <1>2, <2>3, <3>2, <3>3, BusIsCounted
    <3> QED
      BY <1>1, <1>2, <2>2, <3>3, <3>4, WorkflowAssumption DEF Wedged, Full
  <2>5. PICK w \in Flow : pc = "fire" /\ evt.type = "TaskCompleted" /\ evt.id \in tasksOf[w]
    BY <1>2, <2>4 DEF Wedged
  <2>6. task[evt.id] = "completed"
    BY <2>1, <2>5 DEF NotYetTold
  <2>7. flow[w] # "none" /\ w \notin template
    BY <2>1, <2>5, <2>6, DoneIsRowed
  <2>8. \A i \in 1..Len(bus) : bus[i].type \in FlowEvents => bus[i].id \in Flow \ {w}
    <3> SUFFICES ASSUME NEW i \in 1..Len(bus), bus[i].type \in FlowEvents, bus[i].id = w
                 PROVE  FALSE
      BY <2>3
    <3>1. CASE bus[i].type \in ResultEvents
      BY <2>1, <2>5, <3>1 DEF NotYetTold, ResultOnBus
    <3>2. CASE bus[i].type \in PlanEvents
      BY <1>2, <2>7, <3>2 DEF BusInv, PlansFit, PlanEvents
    <3> QED
      BY <3>1, <3>2 DEF FlowEvents, ResultEvents, PlanEvents
  <2>9. /\ IsFiniteSet(Flow \ {w})
        /\ Cardinality(Flow \ {w}) = Cardinality(Flow) - 1
    BY FS_RemoveElement
  <2>10. Len(bus) <= Cardinality(Task) + Cardinality(Flow \ {w}) + MaxOther
    BY <1>2, <2>3, <2>8, <2>9, BusIsCounted
  <2> QED
    BY <1>1, <1>2, <2>2, <2>9, <2>10, WorkflowAssumption DEF Wedged, Full
<1>3. Inductive /\ BusInv => NeverWedged
  BY <1>2 DEF NeverWedged
<1> QED
  BY <1>3, InductiveInvariant, BusInvariant, PTL
-----------------------------------------------------------------------------
\* Every step of the engine is a step of TaskGraph, or changes nothing there.
LEMMA PlanStep ==
  ASSUME TaskInv, TypeOK', NEW w \in Flow, NEW S \in SUBSET Task, Fresh(w, S),
         tasksOf' = [tasksOf EXCEPT ![w] = S],
         dependsOn' \in [Task -> SUBSET (Task \cup {Foreign})],
         \A t \in Task : t \notin S => dependsOn'[t] = dependsOn[t],
         \A t \in S : dependsOn'[t] \subseteq S \cup {Foreign},
         UNCHANGED <<task, given, told>>
  PROVE  Graph!Plan(w)
<1>1. UNCHANGED State
  BY DEF State
<1>2. tasksOf[w] = {} /\ \A v \in Flow : tasksOf[v] \cap S = {}
  BY DEF Fresh
<1> QED
  BY <1>1, <1>2 DEF Graph!Plan

LEMMA RecordStep ==
  ASSUME TaskInv, NEW w \in Flow, NEW S \in SUBSET tasksOf[w], flow[w] = "none",
         task' = [t \in Task |-> IF t \in S THEN "pending" ELSE task[t]],
         UNCHANGED <<tasksOf, dependsOn, given, told>>
  PROVE  Graph!Record(w)
<1>1. \A t \in tasksOf[w] : t \in Task /\ task[t] = "none"
  BY DEF TaskInv, Planned, TypeOK
<1>2. State' = [t \in Task |-> IF t \in S THEN "waiting" ELSE State[t]]
  BY DEF State, StateOf
<1>3. \A t \in tasksOf[w] : State[t] = "absent"
  BY <1>1 DEF State, StateOf
<1> QED
  BY <1>2, <1>3 DEF Graph!Record

LEMMA FinishStep ==
  ASSUME TaskInv, NEW x \in Task, NEW s \in {"completed", "failed"}, InHand(x),
         evt.type \in ReportEvents,
         task' = [task EXCEPT ![x] = s],
         UNCHANGED <<tasksOf, dependsOn, given, told>>
  PROVE  Graph!Finish(x)
<1>1. task[x] = "pending" /\ given[x] = 1
  BY DEF TaskInv, Rowed, Held, Stages, Stage, InHand, HandOutEvents, ReportEvents
<1>2. task \in [Task -> {"none", "pending", "completed", "failed"}]
  BY DEF TaskInv, TypeOK
<1>3. State[x] = "waiting"
  BY <1>1 DEF State, StateOf
<1>4. \E r \in {"done", "failed"} : State' = [State EXCEPT ![x] = r]
  <2>1. CASE s = "completed"
    <3>1. State' = [State EXCEPT ![x] = "done"]
      BY <1>2, <2>1 DEF State, StateOf
    <3> QED
      BY <3>1
  <2>2. CASE s = "failed"
    <3>1. State' = [State EXCEPT ![x] = "failed"]
      BY <1>2, <2>2 DEF State, StateOf
    <3> QED
      BY <3>1
  <2> QED
    BY <2>1, <2>2
<1> QED
  BY <1>1, <1>3, <1>4 DEF Graph!Finish

LEMMA GraphStep ==
  ASSUME Inductive, Inductive', [Next]_vars
  PROVE  [Graph!GraphNext]_<<tasksOf, dependsOn, State, given, told>>
<1>t. TaskInv /\ TypeOK /\ TypeOK'
  BY DEF Inductive, TaskInv
<1> DEFINE Same == UNCHANGED <<tasksOf, dependsOn, State, given, told>>
<1> USE DEF planVars, storeVars, agentVars
<1>1. ASSUME UNCHANGED <<tasksOf, dependsOn, task, given, told>> PROVE Same
  BY <1>1 DEF State, StateOf
<1>2. ASSUME NEW w \in Flow, Submit(w) PROVE Graph!Plan(w)
  <2>1. PICK S \in SUBSET Task :
          /\ Fresh(w, S)
          /\ tasksOf' = [tasksOf EXCEPT ![w] = S]
          /\ \E D \in [S -> SUBSET (S \cup {Foreign})] :
               dependsOn' = [t \in Task |-> IF t \in S THEN D[t] ELSE dependsOn[t]]
    BY <1>2 DEF Submit
  <2>2. /\ \A t \in Task : t \notin S => dependsOn'[t] = dependsOn[t]
        /\ \A t \in S : dependsOn'[t] \subseteq S \cup {Foreign}
    BY <2>1
  <2>3. dependsOn' \in [Task -> SUBSET (Task \cup {Foreign})]
    BY <1>t DEF TypeOK
  <2> QED
    BY <1>2, <1>t, <2>1, <2>2, <2>3, PlanStep DEF Submit
<1>3. ASSUME NEW w \in Flow, InstantiateTemplate(w) PROVE Graph!Plan(w)
  <2>1. PICK S \in SUBSET Task : \E f \in Bijection(S, Rows(evt.id)) :
          /\ Fresh(w, S)
          /\ tasksOf' = [tasksOf EXCEPT ![w] = S]
          /\ dependsOn' = CopiedDependencies(S, f, Rows(evt.id))
    BY <1>3 DEF InstantiateTemplate
  <2>2. /\ \A t \in Task : t \notin S => dependsOn'[t] = dependsOn[t]
        /\ \A t \in S : dependsOn'[t] \subseteq S \cup {Foreign}
    BY <2>1 DEF CopiedDependencies
  <2>3. dependsOn' \in [Task -> SUBSET (Task \cup {Foreign})]
    BY <1>t DEF TypeOK
  <2> QED
    BY <1>3, <1>t, <2>1, <2>2, <2>3, PlanStep DEF InstantiateTemplate
<1>4. ASSUME NEW w \in Flow, SubmitWorkflow(w) PROVE Graph!Record(w)
  BY <1>4, <1>t, RecordStep DEF SubmitWorkflow
<1>5. ASSUME NEW w \in Flow, SubmitWorkflowFails(w) PROVE Graph!Record(w)
  BY <1>5, <1>t, RecordStep DEF SubmitWorkflowFails
<1>6. ASSUME NEW t \in Task, TaskFailed(t) \/ TaskCompleted(t) \/ DependentsNotRead(t)
      PROVE  Graph!Finish(t)
  <2>1. /\ InHand(t) /\ evt.type \in ReportEvents
        /\ UNCHANGED <<tasksOf, dependsOn, given, told>>
        /\ \/ task' = [task EXCEPT ![t] = "failed"]
           \/ task' = [task EXCEPT ![t] = "completed"]
    BY <1>6 DEF TaskFailed, TaskCompleted, DependentsNotRead, Handling, InHand,
                TaskEvents, ReportEvents
  <2> QED
    BY <1>t, <2>1, FinishStep
<1>7. ASSUME NEW t \in Task, HandleAgentExecute(t) PROVE Graph!HandOut(t)
  <2>1. task[t] = "pending" /\ given[t] = 0 /\ DependenciesDone(t)
    BY <1>7 DEF HandleAgentExecute, Handling, Inductive, TaskInv, Rowed, Held, InHand,
                Stages, Stage, TaskEvents, HandOutEvents
  <2>2. State[t] = "waiting" /\ UNCHANGED State
    BY <1>7, <2>1 DEF State, StateOf, HandleAgentExecute
  <2>3. \A d \in dependsOn[t] : d \in Task /\ State[d] = "done"
    BY <2>1 DEF DependenciesDone, AllDependenciesSatisfied, State, StateOf
  <2>4. given' = [given EXCEPT ![t] = 1]
    BY <1>7, <1>t, <2>1 DEF HandleAgentExecute, TypeOK
  <2> QED
    BY <1>7, <2>1, <2>2, <2>3, <2>4 DEF Graph!HandOut, HandleAgentExecute
<1>8. ASSUME NEW w \in Flow, HandleSynthesize(w) PROVE Graph!Tell(w)
  <2>1. told[w] = 0 /\ Done(w)
    BY <1>8 DEF HandleSynthesize, Handling, Inductive, ResultInv, OneResult,
                ResultInHand, ResultEvents
  <2>2. \A t \in tasksOf[w] : State[t] = "done"
    BY <1>t, <2>1 DEF Done, State, StateOf, TypeOK
  <2>3. told' = [told EXCEPT ![w] = 1]
    BY <1>8, <1>t, <2>1 DEF HandleSynthesize, TypeOK
  <2>4. UNCHANGED State
    BY <1>8 DEF State, HandleSynthesize
  <2> QED
    BY <1>8, <2>1, <2>2, <2>3, <2>4 DEF Graph!Tell, HandleSynthesize, Done
<1>9. \/ \E w \in Flow : \/ Submit(w) \/ InstantiateTemplate(w)
                          \/ SubmitWorkflow(w) \/ SubmitWorkflowFails(w)
                          \/ HandleSynthesize(w)
      \/ \E t \in Task : \/ TaskFailed(t) \/ TaskCompleted(t) \/ DependentsNotRead(t)
                          \/ HandleAgentExecute(t)
      \/ UNCHANGED <<tasksOf, dependsOn, task, given, told>>
  BY DEF Next, Reliable, Environment, Router, Fault, vars, FireCron, OtherTraffic, Receive,
         RejectWorkflow, CheckWorkflowCompletion, FireTask, MarkCompleted,
         NoMoreIds, RootsFired, HandleTaskAssigned,
         HandleWorkflowCompleted, Forward, HandleOther, Report, NoReport,
         CompletionNotStored, DependentSkipped, WorkflowStatusLost, NotDelivered, Restart
<1> QED
  BY <1>1, <1>2, <1>3, <1>4, <1>5, <1>6, <1>7, <1>8, <1>9 DEF Graph!GraphNext

\* The engine on its bus, with its store and its faults, does what TaskGraph
\* promises the rest of the system.
THEOREM Refinement == Spec => ImplementsTaskGraph
<1>1. Init => Graph!GraphInit
  BY DEF Init, State, StateOf, Graph!GraphInit
<1>2. Inductive /\ Inductive' /\ [Next]_vars => [Graph!GraphNext]_Graph!graphVars
  BY GraphStep DEF Graph!graphVars
<1> QED
  BY <1>1, <1>2, InductiveInvariant, PTL DEF Spec, ImplementsTaskGraph, Graph!GraphSpec
==============================================================================
