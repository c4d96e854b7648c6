------------------------------ MODULE TaskGraph ------------------------------
(***************************************************************************)
(* What the workflow engine promises the rest of the system, said without  *)
(* its bus, its router or its store's tables: a workflow is a graph of     *)
(* tasks; a task is handed to an agent at most once, and only when every   *)
(* task it depends on is done; the executive is told the results of a      *)
(* workflow at most once, and only when all of its tasks are done.         *)
(* Nothing here says that a task must run: agents fail, the process stops. *)
(***************************************************************************)
EXTENDS Naturals

CONSTANTS Flow,     \* workflow ids
          Task,     \* task ids, fresh for every workflow
          Foreign   \* a dependency that names no task

VARIABLES tasksOf,    \* the tasks of each workflow
          dependsOn,  \* the dependencies of each task
          state,      \* "absent" | "waiting" | "done" | "failed"
          given,      \* how many times a task was handed to an agent
          told        \* how many times the executive was given the results

graphVars == <<tasksOf, dependsOn, state, given, told>>

GraphInit ==
  /\ tasksOf = [w \in Flow |-> {}]
  /\ dependsOn = [t \in Task |-> {}]
  /\ state = [t \in Task |-> "absent"]
  /\ given = [t \in Task |-> 0]
  /\ told = [w \in Flow |-> 0]

\* A new workflow names tasks nobody has named before.
Plan(w) ==
  \E S \in SUBSET Task :
    /\ tasksOf[w] = {}
    /\ \A v \in Flow : tasksOf[v] \cap S = {}
    /\ tasksOf' = [tasksOf EXCEPT ![w] = S]
    /\ dependsOn' \in [Task -> SUBSET (Task \cup {Foreign})]
    /\ \A t \in S : dependsOn'[t] \subseteq S \cup {Foreign}
    /\ \A t \in Task \ S : dependsOn'[t] = dependsOn[t]
    /\ UNCHANGED <<state, given, told>>

\* Some or all of a workflow's tasks are recorded, once.
Record(w) ==
  \E S \in SUBSET tasksOf[w] :
    /\ \A t \in tasksOf[w] : state[t] = "absent"
    /\ state' = [t \in Task |-> IF t \in S THEN "waiting" ELSE state[t]]
    /\ UNCHANGED <<tasksOf, dependsOn, given, told>>

HandOut(t) ==
  /\ state[t] = "waiting"
  /\ given[t] = 0
  /\ \A d \in dependsOn[t] : d \in Task /\ state[d] = "done"
  /\ given' = [given EXCEPT ![t] = 1]
  /\ UNCHANGED <<tasksOf, dependsOn, state, told>>

Finish(t) ==
  /\ state[t] = "waiting"
  /\ given[t] = 1
  /\ \E s \in {"done", "failed"} : state' = [state EXCEPT ![t] = s]
  /\ UNCHANGED <<tasksOf, dependsOn, given, told>>

Tell(w) ==
  /\ tasksOf[w] # {}
  /\ \A t \in tasksOf[w] : state[t] = "done"
  /\ told[w] = 0
  /\ told' = [told EXCEPT ![w] = 1]
  /\ UNCHANGED <<tasksOf, dependsOn, state, given>>

GraphNext ==
  \/ \E w \in Flow : Plan(w) \/ Record(w) \/ Tell(w)
  \/ \E t \in Task : HandOut(t) \/ Finish(t)

GraphSpec == GraphInit /\ [][GraphNext]_graphVars
==============================================================================
