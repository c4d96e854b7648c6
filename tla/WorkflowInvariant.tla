-------------------------- MODULE WorkflowInvariant --------------------------
(***************************************************************************)
(* The inductive invariant of the workflow engine.  No table records that  *)
(* a task has been assigned: that it is assigned once follows from where   *)
(* its one event is.  From the moment a task's dependencies are done, its  *)
(* event is in one place, on the bus, with the router, about to be sent,   *)
(* or with an agent, until it is lost or the task's result is stored.      *)
(***************************************************************************)
EXTENDS Workflow

OnBus(i, t) == bus[i].type \in TaskEvents /\ bus[i].id = t
InHand(t) == pc = "handle" /\ evt.type \in TaskEvents /\ evt.id = t

\* There is an event for t somewhere.
Held(t) == \/ \E i \in 1..Len(bus) : OnBus(i, t)
           \/ InHand(t)
           \/ t \in firing
           \/ working[t] > 0

\* The event of a task is in one place only.
OnePlace ==
  /\ \A i, j \in 1..Len(bus), t \in Task : OnBus(i, t) /\ OnBus(j, t) => i = j
  /\ \A i \in 1..Len(bus), t \in Task :
       OnBus(i, t) => ~InHand(t) /\ t \notin firing /\ working[t] = 0
  /\ \A t \in Task : InHand(t) => t \notin firing /\ working[t] = 0
  /\ \A t \in firing : working[t] = 0
  /\ \A t \in Task : working[t] <= 1

HandOutEvents == {"TaskAssigned", "AgentExecute"}
ReportEvents == {"TaskCompleted", "TaskCompletedError"}

\* Whether the task has been handed out shows in the event.
Stage(e) == /\ e.type \in HandOutEvents => given[e.id] = 0
            /\ e.type \in ReportEvents => given[e.id] = 1

Stages ==
  /\ \A i \in 1..Len(bus) : Stage(bus[i])
  /\ pc = "handle" => Stage(evt)
  /\ \A t \in firing : given[t] = 0
  /\ \A t \in Task : working[t] > 0 => given[t] = 1

\* What the tables say of a task that has an event, was handed out, or ended.
Rowed ==
  \A t \in Task :
    /\ Held(t) => task[t] = "pending" /\ DependenciesDone(t)
    /\ given[t] <= 1
    /\ given[t] > 0 => task[t] # "none" /\ DependenciesDone(t)
    /\ task[t] \in {"completed", "failed"} => given[t] = 1

\* A task is of one workflow, and depends on tasks of that workflow.
Planned ==
  /\ \A v, w \in Flow : v # w => tasksOf[v] \cap tasksOf[w] = {}
  /\ \A w \in Flow : \A t \in tasksOf[w] : dependsOn[t] \subseteq tasksOf[w] \cup {Foreign}
  /\ \A t \in Task : task[t] # "none" => \E w \in Flow : t \in tasksOf[w] /\ flow[w] # "none"

Whole(w) == /\ w \notin template
            /\ \A u \in tasksOf[w] : task[u] # "none"

WholeOnly ==
  \A w \in Flow : \A t \in tasksOf[w] : Held(t) \/ given[t] > 0 => Whole(w)

TaskInv == TypeOK /\ OnePlace /\ Stages /\ Rowed /\ Planned /\ WholeOnly
-----------------------------------------------------------------------------
ResultEvents == {"WorkflowCompleted", "Synthesize"}

ResultOnBus(i, w) == bus[i].type \in ResultEvents /\ bus[i].id = w
ResultInHand(w) == pc = "handle" /\ evt.type \in ResultEvents /\ evt.id = w

Done(w) == tasksOf[w] # {} /\ \A t \in tasksOf[w] : task[t] = "completed"

\* The results of a workflow are in one event, or they have been told.
OneResult ==
  /\ \A i, j \in 1..Len(bus), w \in Flow : ResultOnBus(i, w) /\ ResultOnBus(j, w) => i = j
  /\ \A i \in 1..Len(bus), w \in Flow :
       ResultOnBus(i, w) => ~ResultInHand(w) /\ told[w] = 0 /\ Done(w)
  /\ \A w \in Flow : ResultInHand(w) => told[w] = 0 /\ Done(w)
  /\ \A w \in Flow : told[w] <= 1 /\ (told[w] > 0 => Done(w))
  /\ \A w \in Flow : flow[w] = "completed" => Done(w)
  /\ pc = "mark" => evt.type = "WorkflowCompleted" /\ Done(evt.id)

\* While the handler of a completion runs, nobody has the results yet.
NotYetTold ==
  pc = "fire" /\ evt.type = "TaskCompleted" =>
    /\ task[evt.id] = "completed"
    /\ \A w \in Flow : evt.id \in tasksOf[w] =>
         /\ told[w] = 0
         /\ \A i \in 1..Len(bus) : ~ResultOnBus(i, w)

ResultInv == OneResult /\ NotYetTold

\* The inductive invariant of the engine (engine.go), its tables and the
\* kernel's workflow handlers.
Inductive == TaskInv /\ ResultInv
-----------------------------------------------------------------------------
PlanEvents == {"WorkflowSubmitted", "WorkflowInstantiate"}
Others == {i \in 1..Len(bus) : bus[i].type = "Other"}

\* A plan that was sent has no row yet, and is not being handled; a template that
\* fires has one.  Each is on the bus once.
PlansFit ==
  /\ \A i, j \in 1..Len(bus) : bus[i].type \in PlanEvents /\ bus[i] = bus[j] => i = j
  /\ \A i \in 1..Len(bus) :
       /\ bus[i].type = "WorkflowSubmitted" => flow[bus[i].id] = "none" /\ evt # bus[i]
       /\ bus[i].type = "WorkflowInstantiate" =>
            flow[bus[i].id] # "none" /\ bus[i].id \in template

OthersFit == Cardinality(Others) <= MaxOther

\* With what Inductive says of tasks and results, the bus holds an event of a
\* task or of a workflow once.
BusInv == PlansFit /\ OthersFit
==============================================================================
