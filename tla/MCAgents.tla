------------------------------ MODULE MCAgents ------------------------------
(***************************************************************************)
(* What must happen in the end: the turns of an agent and the reminders.   *)
(* They are checked side by side, one per behaviour, from all its initial  *)
(* states; the other stays at one of them.                                 *)
(***************************************************************************)
EXTENDS AgentTurns, Reminders

VARIABLE part  \* the one that runs

agentVars == <<part, vars, reminderVars>>

AgentsInit ==
  /\ Init /\ ReminderInit
  /\ \/ part = "turns"
     \/ part = "reminders" /\ session = [t \in Turn |-> CHOOSE s \in Session : TRUE]

AgentsNext ==
  \/ part = "turns" /\ Next /\ UNCHANGED <<part, reminderVars>>
  \/ part = "reminders" /\ ReminderNext /\ UNCHANGED <<part, vars>>

\* What does not run has no fair step enabled at its initial states.
AgentsSpec == AgentsInit /\ [][AgentsNext]_agentVars /\ Fairness /\ ReminderFairness
==============================================================================
