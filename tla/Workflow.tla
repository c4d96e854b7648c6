------------------------------ MODULE Workflow ------------------------------
(***************************************************************************)
(* The workflow engine (pkg/workflow), its tables                          *)
(* (internal/storage/sqlite/workflows.go) and the part of the kernel that  *)
(* drives it: the event bus, the single router goroutine and the workflow  *)
(* handlers (pkg/kernel).  Every engine call runs on the router goroutine, *)
(* the only receiver of the bus the engine itself sends on.                *)
(*                                                                         *)
(* A handler is split where another goroutine can be seen in between: the  *)
(* receive, the writes to the store, each send on the bus, the last write. *)
(* Agents are abstract: they are handed a task and report it, or do not.   *)
(***************************************************************************)
EXTENDS Naturals, Sequences, FiniteSets, Functions

CONSTANTS Flow,        \* ids of workflows and of templates
          Task,        \* ids of tasks: fresh UUIDs, never shared by workflows
          Foreign,     \* a depends_on entry that is the id of no task
          NoId,        \* the id of an event that is about no workflow or task
          BusSize,     \* cfg.BusBufferSize, the capacity of the kernel bus
          MaxSteps,    \* bound: steps in one definition
          MaxOther,    \* bound: other events on the bus at once
          ErrorReports \* whether agents report failed tasks (see Report)

ASSUME WorkflowAssumption ==
  /\ BusSize \in Nat \ {0}
  /\ MaxSteps \in Nat
  /\ MaxOther \in Nat
  /\ ErrorReports \in BOOLEAN
  /\ Foreign \notin Task

VARIABLES
  tasksOf,    \* the tasks of each WorkflowDefinition that was built
  dependsOn,  \* wf_tasks.depends_on, as the definition has it
  template,   \* the workflows whose definition has IsTemplate
  flow,       \* workflows.status, "none" while there is no row
  task,       \* wf_tasks.status, "none" while there is no row
  bus,        \* k.bus
  pc,         \* where the router is: "idle", "handle", "fire" or "mark"
  evt,        \* the event the router is handling
  firing,     \* the tasks the current handler still has to assign
  working,    \* the AgentExecute events agents hold for each task
  given,      \* how often each task was handed to an agent
  told        \* how often the executive was handed a workflow's results

planVars   == <<tasksOf, dependsOn, template>>
storeVars  == <<flow, task>>
routerVars == <<pc, evt, firing>>
agentVars  == <<working, given, told>>
vars == <<planVars, storeVars, bus, routerVars, agentVars>>

FlowEvents == {"WorkflowSubmitted", "WorkflowInstantiate", "WorkflowCompleted", "Synthesize"}
TaskEvents == {"TaskAssigned", "AgentExecute", "TaskCompleted", "TaskCompletedError"}

Event == [type : FlowEvents, id : Flow] \cup [type : TaskEvents, id : Task]
           \cup [type : {"Other"}, id : {NoId}]

NoEvent == [type |-> "None", id |-> NoId]

TypeOK ==
  /\ tasksOf \in [Flow -> SUBSET Task]
  /\ dependsOn \in [Task -> SUBSET (Task \cup {Foreign})]
  /\ template \in SUBSET Flow
  /\ flow \in [Flow -> {"none", "running", "completed"}]
  /\ task \in [Task -> {"none", "pending", "completed", "failed"}]
  /\ bus \in Seq(Event)
  /\ pc \in {"idle", "handle", "fire", "mark"}
  /\ evt \in Event \cup {NoEvent}
  /\ firing \in SUBSET Task
  /\ working \in [Task -> Nat]
  /\ given \in [Task -> Nat]
  /\ told \in [Flow -> Nat]

Init ==
  /\ tasksOf = [w \in Flow |-> {}]
  /\ dependsOn = [t \in Task |-> {}]
  /\ template = {}
  /\ flow = [w \in Flow |-> "none"]
  /\ task = [t \in Task |-> "none"]
  /\ bus = <<>>
  /\ pc = "idle"
  /\ evt = NoEvent
  /\ firing = {}
  /\ working = [t \in Task |-> 0]
  /\ given = [t \in Task |-> 0]
  /\ told = [w \in Flow |-> 0]
-----------------------------------------------------------------------------
Full == Len(bus) >= BusSize

Post(type, id) == /\ ~Full
                  /\ bus' = Append(bus, [type |-> type, id |-> id])

\* The router is about to run the handler of an event of this type.
Handling(type) == pc = "handle" /\ evt.type = type

Return == /\ pc' = "idle"
          /\ evt' = NoEvent
          /\ firing' = {}

InFlight(e) == evt = e \/ \E i \in 1..Len(bus) : bus[i] = e

\* A workflow id, and task ids, that no definition uses.
Fresh(w, S) == /\ tasksOf[w] = {}
               /\ flow[w] = "none"
               /\ ~InFlight([type |-> "WorkflowSubmitted", id |-> w])
               /\ \A v \in Flow : tasksOf[v] \cap S = {}

Rows(w) == {t \in tasksOf[w] : task[t] # "none"}

\* Validate: at least one task, and no cycle among the tasks (CycleCheck.tla
\* shows that hasCycle decides this).
Acyclic(S) == \A U \in SUBSET S : U # {} => \E u \in U : dependsOn[u] \cap U = {}
Valid(w) == tasksOf[w] # {} /\ Acyclic(tasksOf[w])

GetRootTasks(w) == {t \in tasksOf[w] : dependsOn[t] = {}}

\* Bug: one completed dependency is enough.
SomeDependencySatisfied(t, row) ==
  \E d \in dependsOn[t] : d \in Task /\ row[d] = "completed"

\* All the ids in depends_on name rows, and the rows are completed.
AllDependenciesSatisfied(t, row) ==
  \A d \in dependsOn[t] : d \in Task /\ row[d] = "completed"

\* Bug: the query has lost its WHERE clause.
EveryRow(t) == {d \in Task : task[d] # "none"}

\* The tasks whose depends_on names t, in any workflow.
GetDependentWFTasks(t) == {d \in Task : task[d] # "none" /\ t \in dependsOn[d]}

\* Bug: only failed tasks keep a workflow from being complete.
NoneFailed(w) == \A t \in Rows(w) : task[t] # "failed"

AllComplete(w) == \A t \in Rows(w) : task[t] = "completed"
-----------------------------------------------------------------------------
(* The executive and the scheduler put work on the bus.                    *)

\* requestWorkflow: the steps become a definition with fresh ids; an entry of
\* depends_on that names no step is kept as it is.
Submit(w) ==
  \E S \in SUBSET Task, isTemplate \in BOOLEAN :
    /\ Cardinality(S) <= MaxSteps
    /\ Fresh(w, S)
    /\ Post("WorkflowSubmitted", w)
    /\ tasksOf' = [tasksOf EXCEPT ![w] = S]
    /\ \E D \in [S -> SUBSET (S \cup {Foreign})] :
         dependsOn' = [t \in Task |-> IF t \in S THEN D[t] ELSE dependsOn[t]]
    /\ template' = IF isTemplate THEN template \cup {w} ELSE template \ {w}
    /\ UNCHANGED <<storeVars, routerVars, agentVars>>

\* The cron job of a template fires.
FireCron(w) ==
  /\ w \in template
  /\ flow[w] # "none"
  /\ ~InFlight([type |-> "WorkflowInstantiate", id |-> w])
  /\ Post("WorkflowInstantiate", w)
  /\ UNCHANGED <<planVars, storeVars, routerVars, agentVars>>

\* Messages, tokens, delegations and sessions share the bus.
OtherTraffic ==
  /\ Cardinality({i \in 1..Len(bus) : bus[i].type = "Other"}) < MaxOther
  /\ Post("Other", NoId)
  /\ UNCHANGED <<planVars, storeVars, routerVars, agentVars>>
-----------------------------------------------------------------------------
(* The router, Kernel.run: one event at a time, its handler on the same    *)
(* goroutine.                                                              *)

Receive ==
  /\ pc = "idle"
  /\ bus # <<>>
  /\ evt' = Head(bus)
  /\ bus' = Tail(bus)
  /\ pc' = "handle"
  /\ UNCHANGED <<planVars, storeVars, firing, agentVars>>

\* SubmitWorkflow: the rows, then the root tasks; a template only has rows.
SubmitWorkflow(w) ==
  /\ Handling("WorkflowSubmitted") /\ evt.id = w
  /\ Valid(w)
  /\ flow[w] = "none"
  /\ flow' = [flow EXCEPT ![w] = "running"]
  /\ task' = [t \in Task |-> IF t \in tasksOf[w] THEN "pending" ELSE task[t]]
  /\ IF w \in template
       THEN Return
       ELSE /\ firing' = GetRootTasks(w)
            /\ pc' = "fire"
            /\ UNCHANGED evt
  /\ UNCHANGED <<planVars, bus, agentVars>>

\* Validate fails, or the workflow's row is there already: only a log line.
RejectWorkflow(w) ==
  /\ Handling("WorkflowSubmitted") /\ evt.id = w
  /\ ~Valid(w) \/ flow[w] # "none"
  /\ Return
  /\ UNCHANGED <<planVars, storeVars, bus, agentVars>>

\* idMap: f says of which row a new task is the copy.  A dependency that has
\* no row keeps its old id.
CopiedDependencies(S, f, R) ==
  [t \in Task |->
     IF t \in S
       THEN {d \in S : f[d] \in dependsOn[f[t]]}
              \cup (IF dependsOn[f[t]] \subseteq R THEN {} ELSE {Foreign})
       ELSE dependsOn[t]]

\* handleWorkflowInstantiate copies the rows of the template under fresh ids
\* and submits the copy.
InstantiateTemplate(w) ==
  /\ Handling("WorkflowInstantiate")
  /\ \E S \in SUBSET Task : \E f \in Bijection(S, Rows(evt.id)) :
       /\ Fresh(w, S)
       /\ tasksOf' = [tasksOf EXCEPT ![w] = S]
       /\ dependsOn' = CopiedDependencies(S, f, Rows(evt.id))
  /\ template' = template \ {w}
  /\ evt' = [type |-> "WorkflowSubmitted", id |-> w]
  /\ UNCHANGED <<storeVars, bus, pc, firing, agentVars>>

\* Bound: the ids of the model are used up, and the firing is lost.
NoMoreIds ==
  /\ Handling("WorkflowInstantiate")
  /\ ~\E w \in Flow : \E S \in SUBSET Task :
        Fresh(w, S) /\ Cardinality(S) = Cardinality(Rows(evt.id))
  /\ Return
  /\ UNCHANGED <<planVars, storeVars, bus, agentVars>>

\* HandleTaskCompleted with an error: the status, and nothing else.
TaskFailed(t) ==
  /\ Handling("TaskCompletedError") /\ evt.id = t
  /\ task' = [task EXCEPT ![t] = "failed"]
  /\ Return
  /\ UNCHANGED <<planVars, flow, bus, agentVars>>

\* Bug: the dependents are looked at before the status is written.
TaskCompletedTooLate(t) ==
  /\ Handling("TaskCompleted") /\ evt.id = t
  /\ task' = [task EXCEPT ![t] = "completed"]
  /\ firing' = {d \in GetDependentWFTasks(t) : AllDependenciesSatisfied(d, task)}
  /\ pc' = "fire"
  /\ UNCHANGED <<planVars, flow, bus, evt, agentVars>>

\* HandleTaskCompleted with a result: the status, then the dependents whose
\* dependencies are all completed now.
TaskCompleted(t) ==
  /\ Handling("TaskCompleted") /\ evt.id = t
  /\ task' = [task EXCEPT ![t] = "completed"]
  /\ firing' = {d \in GetDependentWFTasks(t) : AllDependenciesSatisfied(d, task')}
  /\ pc' = "fire"
  /\ UNCHANGED <<planVars, flow, bus, evt, agentVars>>

\* Bug: the loop sends the same task again.
FireTaskAgain(t) ==
  /\ pc = "fire"
  /\ t \in firing
  /\ Post("TaskAssigned", t)
  /\ UNCHANGED <<planVars, storeVars, firing, pc, evt, agentVars>>

\* e.bus <- TaskAssigned: blocks while the bus is full.
FireTask(t) ==
  /\ pc = "fire"
  /\ t \in firing
  /\ Post("TaskAssigned", t)
  /\ firing' = firing \ {t}
  /\ UNCHANGED <<planVars, storeVars, pc, evt, agentVars>>

\* The end of SubmitWorkflow.
RootsFired ==
  /\ pc = "fire"
  /\ firing = {}
  /\ evt.type = "WorkflowSubmitted"
  /\ Return
  /\ UNCHANGED <<planVars, storeVars, bus, agentVars>>

\* checkWorkflowCompletion: e.bus <- WorkflowCompleted blocks as well.
CheckWorkflowCompletion(w) ==
  /\ pc = "fire"
  /\ firing = {}
  /\ evt.type = "TaskCompleted"
  /\ evt.id \in tasksOf[w]
  /\ IF AllComplete(w)
       THEN /\ Post("WorkflowCompleted", w)
            /\ pc' = "mark"
            /\ evt' = [type |-> "WorkflowCompleted", id |-> w]
            /\ UNCHANGED firing
       ELSE Return /\ UNCHANGED bus
  /\ UNCHANGED <<planVars, storeVars, agentVars>>

MarkCompleted ==
  /\ pc = "mark"
  /\ flow' = [flow EXCEPT ![evt.id] = "completed"]
  /\ Return
  /\ UNCHANGED <<planVars, task, bus, agentVars>>

\* handleTaskAssigned and handleWorkflowCompleted re-send on the bus.  The
\* router is its only receiver, so on a full bus the 5 seconds always pass.
Forward(from, to) ==
  /\ Handling(from)
  /\ IF Full THEN UNCHANGED bus ELSE Post(to, evt.id)
  /\ Return
  /\ UNCHANGED <<planVars, storeVars, agentVars>>

HandleTaskAssigned == Forward("TaskAssigned", "AgentExecute")
HandleWorkflowCompleted == Forward("WorkflowCompleted", "Synthesize")

\* handleAgentExecute: the event goes into the agent's inbox.
HandleAgentExecute(t) ==
  /\ Handling("AgentExecute") /\ evt.id = t
  /\ working' = [working EXCEPT ![t] = @ + 1]
  /\ given' = [given EXCEPT ![t] = @ + 1]
  /\ Return
  /\ UNCHANGED <<planVars, storeVars, bus, told>>

HandleSynthesize(w) ==
  /\ Handling("Synthesize") /\ evt.id = w
  /\ told' = [told EXCEPT ![w] = @ + 1]
  /\ Return
  /\ UNCHANGED <<planVars, storeVars, bus, working, given>>

HandleOther ==
  /\ Handling("Other")
  /\ Return
  /\ UNCHANGED <<planVars, storeVars, bus, agentVars>>

Router ==
  \/ Receive
  \/ \E w \in Flow : \/ SubmitWorkflow(w)
                     \/ RejectWorkflow(w)
                     \/ InstantiateTemplate(w)
                     \/ CheckWorkflowCompletion(w)
                     \/ HandleSynthesize(w)
  \/ \E t \in Task : \/ TaskFailed(t)
                     \/ TaskCompleted(t)
                     \/ FireTask(t)
                     \/ HandleAgentExecute(t)
  \/ NoMoreIds
  \/ RootsFired
  \/ MarkCompleted
  \/ HandleTaskAssigned
  \/ HandleWorkflowCompleted
  \/ HandleOther
-----------------------------------------------------------------------------
(* Agents.  Only one call reports a task, with a nil error, so an error     *)
(* reaches the engine only when the result cannot be marshalled.           *)
(* ErrorReports = TRUE checks the engine against that report as well.      *)

\* Bug: the agent may report once more.
ReportAgain(t) ==
  /\ working[t] > 0
  /\ Post("TaskCompleted", t)
  /\ UNCHANGED <<planVars, storeVars, routerVars, agentVars>>

Report(t) ==
  /\ working[t] > 0
  /\ working' = [working EXCEPT ![t] = @ - 1]
  /\ \/ Post("TaskCompleted", t)
     \/ ErrorReports /\ Post("TaskCompletedError", t)
  /\ UNCHANGED <<planVars, storeVars, routerVars, given, told>>

\* The execution fails, is cancelled, or the bus stays full for 5 seconds:
\* the engine never hears of it.
NoReport(t) ==
  /\ working[t] > 0
  /\ working' = [working EXCEPT ![t] = @ - 1]
  /\ UNCHANGED <<planVars, storeVars, bus, routerVars, given, told>>
-----------------------------------------------------------------------------
(* Faults.                                                                 *)

\* A CreateWFTask fails (two steps with one id, a cancelled context, the
\* disk) after the workflow's row and some of the tasks' are in.
SubmitWorkflowFails(w) ==
  /\ Handling("WorkflowSubmitted") /\ evt.id = w
  /\ Valid(w)
  /\ flow[w] = "none"
  /\ \E S \in SUBSET tasksOf[w] :
       /\ S # tasksOf[w]
       /\ flow' = [flow EXCEPT ![w] = "running"]
       /\ task' = [t \in Task |-> IF t \in S THEN "pending" ELSE task[t]]
  /\ Return
  /\ UNCHANGED <<planVars, bus, agentVars>>

\* UpdateWFTaskStatus fails: logged; no dependent is satisfied then.
CompletionNotStored(t) ==
  /\ Handling("TaskCompleted") \/ Handling("TaskCompletedError")
  /\ evt.id = t
  /\ Return
  /\ UNCHANGED <<planVars, storeVars, bus, agentVars>>

\* GetDependentWFTasks fails after the status is written: early return.
DependentsNotRead(t) ==
  /\ Handling("TaskCompleted") /\ evt.id = t
  /\ task' = [task EXCEPT ![t] = "completed"]
  /\ Return
  /\ UNCHANGED <<planVars, flow, bus, agentVars>>

\* AllDependenciesSatisfied fails for one dependent: skipped.
DependentSkipped(t) ==
  /\ pc = "fire"
  /\ evt.type = "TaskCompleted"
  /\ t \in firing
  /\ firing' = firing \ {t}
  /\ UNCHANGED <<planVars, storeVars, bus, pc, evt, agentVars>>

\* checkWorkflowCompletion cannot read, or UpdateWorkflowStatus cannot write.
WorkflowStatusLost ==
  /\ \/ pc = "fire" /\ firing = {} /\ evt.type = "TaskCompleted"
     \/ pc = "mark"
  /\ Return
  /\ UNCHANGED <<planVars, storeVars, bus, agentVars>>

\* The agent does not exist or its inbox stays full for 5 seconds.
NotDelivered ==
  /\ Handling("AgentExecute") \/ Handling("Synthesize")
  /\ Return
  /\ UNCHANGED <<planVars, storeVars, bus, agentVars>>

\* The process stops and starts again: the tables are all that is left, and
\* nothing at boot reads them.
Restart ==
  /\ bus' = <<>>
  /\ Return
  /\ working' = [t \in Task |-> 0]
  /\ UNCHANGED <<planVars, storeVars, given, told>>

Fault ==
  \/ \E w \in Flow : SubmitWorkflowFails(w)
  \/ \E t \in Task : \/ CompletionNotStored(t)
                     \/ DependentsNotRead(t)
                     \/ DependentSkipped(t)
                     \/ NoReport(t)
  \/ WorkflowStatusLost
  \/ NotDelivered
  \/ Restart
-----------------------------------------------------------------------------
Environment ==
  \/ \E w \in Flow : Submit(w) \/ FireCron(w)
  \/ OtherTraffic

Reliable == Environment \/ Router \/ \E t \in Task : Report(t)

Next == Reliable \/ Fault

Spec == Init /\ [][Next]_vars

\* No fault at all: the router keeps running, and an agent reports what it was handed.
ReliableSpec ==
  /\ Init
  /\ [][Reliable]_vars
  /\ WF_vars(Router)
  /\ \A t \in Task : WF_vars(Report(t))
-----------------------------------------------------------------------------
(* Properties.                                                             *)

DependenciesDone(t) == \A d \in dependsOn[t] : d \in Task /\ task[d] = "completed"

\* "IDs of steps that must complete before this one": a task an agent was
\* ever handed has all its dependencies completed, whatever was lost.
DependencyOrder == \A t \in Task : given[t] > 0 => DependenciesDone(t)

\* A task is handed to an agent at most once, though every dependency that
\* completes looks at it: a second run would repeat its side effects.
HandedOutOnce == \A t \in Task : given[t] <= 1

\* The executive gets the results of a workflow at most once, and then every
\* task of the definition is completed, not just those whose rows were stored.
ToldOnceWhenDone ==
  \A w \in Flow : /\ told[w] <= 1
                  /\ told[w] > 0 => \A t \in tasksOf[w] : task[t] = "completed"

\* A workflow whose row says completed has no task that is not.
CompletedMeansDone ==
  \A w \in Flow : flow[w] = "completed" => \A t \in tasksOf[w] : task[t] = "completed"

\* A template, and a workflow of which only some rows were stored, never runs.
OnlyWholeWorkflowsRun ==
  \A w \in Flow : \A t \in tasksOf[w] :
    given[t] > 0 => /\ w \notin template
                    /\ \A u \in tasksOf[w] : task[u] # "none"

\* What was achieved is kept: a completed task stays completed, across
\* restarts and late or repeated reports, and so does a completed workflow.
ResultsAreKept ==
  [][/\ \A t \in Task : task[t] = "completed" => task'[t] = "completed"
     /\ \A w \in Flow : flow[w] = "completed" => flow'[w] = "completed"]_vars

\* The router is blocked for good: it waits for room on the bus that only it
\* could make.
Wedged == /\ Full
          /\ \/ pc = "fire" /\ firing # {}
             \/ /\ pc = "fire"
                /\ evt.type = "TaskCompleted"
                /\ \E w \in Flow : evt.id \in tasksOf[w] /\ AllComplete(w)

\* Without a fault nothing ends it: not an agent, not other traffic.
WedgedForGood == [][Wedged /\ Reliable => Wedged']_vars

\* On a bus with room for an event of every task and workflow it never is.
NeverWedged == ~Wedged

\* Every task of a running workflow can be reached by completions.
Runnable(w) == /\ flow[w] = "running"
               /\ w \notin template
               /\ \A t \in tasksOf[w] : Foreign \notin dependsOn[t]

\* "It will fire WorkflowCompleted when ALL tasks done", and it gets there.
WorkflowsFinish == \A w \in Flow : Runnable(w) ~> flow[w] = "completed" /\ told[w] = 1

\* The second half alone: once all tasks are done the workflow is completed.
DoneIsAnnounced ==
  \A w \in Flow : flow[w] = "running" /\ w \notin template
                    /\ (\A t \in tasksOf[w] : task[t] = "completed")
                  ~> flow[w] = "completed"
-----------------------------------------------------------------------------
StateOf == [none |-> "absent", pending |-> "waiting", completed |-> "done",
            failed |-> "failed"]

State == [t \in Task |-> StateOf[task[t]]]

Graph == INSTANCE TaskGraph WITH state <- State

\* The engine, with the bus, the store and the faults, keeps what TaskGraph
\* promises.
ImplementsTaskGraph == Graph!GraphSpec
==============================================================================
