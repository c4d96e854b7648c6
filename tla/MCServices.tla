----------------------------- MODULE MCServices -----------------------------
(***************************************************************************)
(* What the kernel keeps for the user: scheduled work, tasks, calendar and *)
(* notes, and the memory; and what works on its own.  They are checked     *)
(* side by side, one per behaviour, from all its initial states; the       *)
(* others stay at one of theirs.                                           *)
(***************************************************************************)
EXTENDS CronJobs, Tasks, Planner, SessionMemory, Nexus, Recall, MCTools

keptVars == <<cronVars, taskVars, plannerVars, sessionVars, nexusVars, recallVars>>

serviceVars == <<toolVars, keptVars>>

\* Two facts of the graph on two entities, three episodes and two patterns; those
\* of the second score have an embedding.
Memories ==
  {[source |-> "episodes", about |-> 1, score |-> n, embedded |-> n = 2] : n \in 1..3}
    \union {[source |-> "praxis", about |-> 1, score |-> n, embedded |-> n = 2] : n \in 2..3}
    \union {[source |-> "nexus", about |-> a, score |-> a, embedded |-> FALSE] : a \in 1..2}

\* A recall works on any stock; the text in a prompt needs none.
ServicesInit ==
  /\ part \in ToolParts \union
               {"cron", "tasks", "planner", "sessions", "nexus", "recall", "prompt"}
  /\ ToolsStart
  /\ CronInit /\ TaskInit /\ PlannerInit /\ SessionMemoryInit /\ NexusInit
  /\ RecallInit /\ (part = "recall" \/ stock = {})

ServicesNext ==
  \/ /\ part = "cron" /\ CronNext
     /\ UNCHANGED <<toolVars, taskVars, plannerVars, sessionVars, nexusVars, recallVars>>
  \/ /\ part = "tasks" /\ TaskNext
     /\ UNCHANGED <<toolVars, cronVars, plannerVars, sessionVars, nexusVars, recallVars>>
  \/ /\ part = "planner" /\ PlannerNext
     /\ UNCHANGED <<toolVars, cronVars, taskVars, sessionVars, nexusVars, recallVars>>
  \/ /\ part = "sessions" /\ SessionMemoryNext
     /\ UNCHANGED <<toolVars, cronVars, taskVars, plannerVars, nexusVars, recallVars>>
  \/ /\ part = "nexus" /\ NexusNext
     /\ UNCHANGED <<toolVars, cronVars, taskVars, plannerVars, sessionVars, recallVars>>
  \/ /\ part = "recall" /\ RecallNext
     /\ UNCHANGED <<toolVars, cronVars, taskVars, plannerVars, sessionVars, nexusVars>>
  \/ /\ part = "prompt" /\ PromptNext
     /\ UNCHANGED <<toolVars, cronVars, taskVars, plannerVars, sessionVars, nexusVars>>
  \/ ToolsNext /\ UNCHANGED keptVars

ServicesSpec == ServicesInit /\ [][ServicesNext]_serviceVars
==============================================================================
