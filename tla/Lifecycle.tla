----------------------------- MODULE Lifecycle ------------------------------
(***************************************************************************)
(* The life of the kernel (cmd/start.go, pkg/kernel): loading, boot, Run   *)
(* and Shutdown, over the parts it starts and stops.  An interrupt cancels *)
(* the context first: the router and the agents' loops end by themselves,  *)
(* and Shutdown finds the context done.  Everything that can fail may.     *)
(*                                                                         *)
(* Boot gives each skill to the specialists bound to it and the rest to    *)
(* the general agent; the executive has none, and a list of the others.  A *)
(* template may name connectors that the configuration does not enable.    *)
(* Unless the program is started without it, the API server comes last and *)
(* is stopped first; one that fails ends the program as it is.             *)
(***************************************************************************)
EXTENDS Naturals, FiniteSetsExt

CONSTANTS Remote,      \* enabled connectors of the configuration
          Local,       \* the connectors over the store
          Disabled,    \* connectors that templates and bindings name and nobody enabled
          Channel,     \* enabled channels
          Priority,    \* Channel -> Nat, their priorities
          Specialist,  \* enabled agents other than the executive and the general one
          Skill,       \* names of the templates in the skill registry
          Template,    \* what a template can say: its type, whether it has a connector
                       \* section, and that section's default and supported connectors
          Binding,     \* what a binding can say: a skill and a connector, or none
          None         \* no connector

General == "general"
Executive == "executive"
Connector == Remote \cup Local
Agent == Specialist \cup {General, Executive}
Part == Connector \cup Channel \cup Agent \cup {"store", "scheduler", "router", "server"}

Named == Connector \cup Disabled

\* Connectors, channels and agents are kept in registries of their own.
ASSUME LifeAssumption ==
  /\ None \notin Named /\ Connector \cap Disabled = {}
  /\ Template \subseteq [cli : BOOLEAN, spec : BOOLEAN, default : Named \cup {None}, supported : SUBSET Named]
  /\ \A t \in Template : t.spec \/ t.default = None
  /\ Binding \subseteq [skill : Skill, connector : Named \cup {None}]
  /\ Specialist \cap {General, Executive} = {}
  /\ Connector \cap Channel = {} /\ Connector \cap Agent = {} /\ Channel \cap Agent = {}
  /\ (Connector \cup Channel \cup Agent) \cap {"store", "scheduler", "router", "server"} = {}

VARIABLES
  phase,        \* where the main goroutine is
  state,        \* the parts: "none", "ready", "up", "down", or "left": its stop failed
                \* or was not waited for any longer, and it may still run
  interrupted,  \* whether the context is cancelled
  active,       \* the channel proactive messages go to, or None
  bindings,     \* the bindings in the configuration of a specialist
  template,     \* the template of a skill
  headless,     \* --no-server
  given,        \* the skills of each agent
  known,        \* what the executive is told of each other agent
  unusable      \* skills that cannot be instantiated

lifeVars == <<phase, state, interrupted, active, bindings, template, headless, given, known, unusable>>

Phase == {"new", "connectors", "channels", "boot", "assign", "startConnectors", "startAgents", "startChannels",
          "startScheduler", "startRouter", "startServer", "running", "stopServer", "stopChannels", "waitRouter", "stopAgents",
          "stopConnectors", "stopScheduler", "closeStore", "exited", "failed"}

LifeTypeOK ==
  /\ phase \in Phase
  /\ state \in [Part -> {"none", "ready", "up", "down", "left"}]
  /\ interrupted \in BOOLEAN
  /\ active \in Channel \cup {None}
  /\ bindings \in [Specialist -> SUBSET Binding]
  /\ template \in [Skill -> Template]
  /\ headless \in BOOLEAN
  /\ given \in [Agent -> SUBSET Skill]
  /\ known = <<>> \/ known \in [Agent \ {Executive} -> SUBSET Skill]
  /\ unusable \subseteq Skill

LifeInit ==
  /\ phase = "new"
  /\ state = [p \in Part |-> "none"]
  /\ interrupted = FALSE
  /\ active = None
  /\ bindings \in [Specialist -> SUBSET Binding]
  /\ template \in [Skill -> Template]
  /\ headless \in BOOLEAN
  /\ given = [a \in Agent |-> {}]
  /\ known = <<>>
  /\ unusable \in SUBSET Skill

Go(from, to) == phase = from /\ phase' = to
Fail(from) == Go(from, "failed")
Set(parts, s) == state' = [p \in Part |-> IF p \in parts THEN s ELSE state[p]]
In(parts, s) == {p \in parts : state[p] = s}

configVars == <<bindings, template, headless, unusable>>
skillVars == <<given, known>>
-----------------------------------------------------------------------------
\* loadComponents: the store, then the registries.  A registry creates what is
\* enabled and connects all in parallel; one failure fails the load.
loadStore ==
  /\ \/ Go("new", "connectors") /\ Set({"store"}, "up")
     \/ Fail("new") /\ UNCHANGED state
  /\ UNCHANGED <<interrupted, active, configVars, skillVars>>

\* The agents' registry, which needs one executive and one general agent, comes first.
loadConnectors ==
  /\ \/ Go("connectors", "channels") /\ Set(Remote \cup Agent, "ready")
     \/ /\ Fail("connectors")
        /\ \E connected \in SUBSET Remote : Set(Agent \cup connected, "ready")
  /\ UNCHANGED <<interrupted, active, configVars, skillVars>>

\* The active channel is one with the highest priority; with all at zero none is.
ActiveChannel ==
  LET rated == {c \in Channel : Priority[c] > 0}
  IN IF rated = {} THEN {None}
     ELSE {c \in rated : \A d \in rated : Priority[d] <= Priority[c]}

loadChannels ==
  /\ \/ Go("channels", "boot") /\ Set(Channel, "ready")
     \/ /\ Fail("channels")
        /\ \E connected \in SUBSET Channel : connected # Channel /\ Set(connected, "ready")
  /\ active' \in ActiveChannel
  /\ UNCHANGED <<interrupted, configVars, skillVars>>

\* Boot: the local connectors join the registry, then the agents get their skills.
registerLocalConnectors ==
  /\ Go("boot", "assign")
  /\ Set(Local, "ready")
  /\ UNCHANGED <<interrupted, active, configVars, skillVars>>

registered(c) == c \in Connector /\ state[c] # "none"

\* A binding's own connector, or the default of the skill's template.
Chosen(k, connector) == IF connector # None THEN connector ELSE template[k].default

resolveConnector(k, connector) == Chosen(k, connector) = None \/ registered(Chosen(k, connector))

\* A self-contained skill is not looked at any further.
validateSkillBindings ==
  \A s \in Specialist : \A b \in bindings[s] :
    LET t == template[b.skill]
    IN /\ ~(t.cli /\ b.connector # None)
       /\ t.spec => Chosen(b.skill, b.connector) \in t.supported /\ registered(Chosen(b.skill, b.connector))

\* A binding whose connector is not found is skipped, and claims nothing.
Bound(s) == {b.skill : b \in {c \in bindings[s] : resolveConnector(c.skill, c.connector)}}

\* A bound skill that cannot be instantiated is a nil skill, on which AddSkill panics.
NilSkill == \E s \in Specialist : Bound(s) \cap unusable # {}

Claimed == UNION {Bound(s) : s \in Specialist}

\* Bug: the general agent takes the claimed skills as well.
AllSkills == [a \in Agent |->
  IF a \in Specialist THEN Bound(a)
  ELSE IF a = General THEN {k \in Skill \ unusable : resolveConnector(k, None)} ELSE {}]

\* The general agent goes without a skill whose default connector is not there.
Assigned == [a \in Agent |->
  IF a \in Specialist THEN Bound(a)
  ELSE IF a = General THEN {k \in Skill \ (Claimed \cup unusable) : resolveConnector(k, None)} ELSE {}]

\* What an agent can do is the union of what its skills can do, so a set of skills.
buildAvailableAgentsMap(skills) == [a \in Agent \ {Executive} |-> skills[a]]

assignAgentSkills ==
  /\ IF validateSkillBindings /\ ~NilSkill
     THEN /\ Go("assign", "startConnectors")
          /\ given' = Assigned
          /\ known' = buildAvailableAgentsMap(Assigned)
     ELSE Fail("assign") /\ UNCHANGED skillVars
  /\ UNCHANGED <<state, interrupted, active, configVars>>
-----------------------------------------------------------------------------
\* Run: a stage starts its parts one after the other; the first failure ends it.
StartEach(parts, here, next) ==
  /\ phase = here
  /\ \/ \E p \in In(parts, "ready") :
          \/ Set({p}, "up") /\ UNCHANGED phase
          \/ Fail(here) /\ UNCHANGED state
     \/ In(parts, "ready") = {} /\ Go(here, next) /\ UNCHANGED state
  /\ UNCHANGED <<interrupted, active, configVars, skillVars>>

StartConnectors == StartEach(Connector, "startConnectors", "startAgents")
StartAgents == StartEach(Agent, "startAgents", "startChannels")
StartChannels == StartEach(Channel, "startChannels", "startScheduler")

\* The jobs that were missed are caught up; a job that cannot be, or cannot be
\* registered, fails the start once the cron engine runs.
StartScheduler ==
  /\ Set({"scheduler"}, "up")
  /\ Go("startScheduler", "startRouter") \/ Fail("startScheduler")
  /\ UNCHANGED <<interrupted, active, configVars, skillVars>>

StartRouter ==
  /\ Go("startRouter", "startServer")
  /\ Set({"router"}, "up")
  /\ UNCHANGED <<interrupted, active, configVars, skillVars>>

\* The server's configuration, the login, the vault and the API key are read first.
\* What fails from here on ends the program without Shutdown.
StartServer ==
  /\ IF headless THEN Go("startServer", "running") /\ UNCHANGED state
     ELSE \/ Go("startServer", "running") /\ Set({"server"}, "up")
          \/ Fail("startServer") /\ UNCHANGED state
  /\ UNCHANGED <<interrupted, active, configVars, skillVars>>

ServerFails ==
  /\ state["server"] = "up"
  /\ Fail("running")
  /\ Set({"server"}, "down")
  /\ UNCHANGED <<interrupted, active, configVars, skillVars>>

SignalArrives ==
  /\ phase \notin {"exited", "failed"} /\ ~interrupted
  /\ interrupted' = TRUE
  /\ UNCHANGED <<phase, state, active, configVars, skillVars>>

\* The router and the agents' loops see the cancelled context between two events.
LoopEnds(p) ==
  /\ interrupted
  /\ state[p] \in {"up", "left"}
  /\ Set({p}, "down")
  /\ UNCHANGED <<phase, interrupted, active, configVars, skillVars>>
-----------------------------------------------------------------------------
Shutdown ==
  /\ interrupted
  /\ Go("running", IF headless THEN "stopChannels" ELSE "stopServer")
  /\ UNCHANGED <<state, interrupted, active, configVars, skillVars>>

\* The parts are stopped one after the other; a stop that fails is logged, and the
\* part is left as it is.
StopEach(parts, here, next) ==
  /\ phase = here
  /\ \/ \E p \in In(parts, "up") : (Set({p}, "down") \/ Set({p}, "left")) /\ UNCHANGED phase
     \/ In(parts, "up") = {} /\ Go(here, next) /\ UNCHANGED state
  /\ UNCHANGED <<interrupted, active, configVars, skillVars>>

\* Parts that end by themselves are waited for, at most ten seconds each.
AwaitEach(parts, here, next) ==
  /\ phase = here
  /\ \/ \E p \in In(parts, "up") : Set({p}, "left") /\ UNCHANGED phase
     \/ In(parts, "up") = {} /\ Go(here, next) /\ UNCHANGED state
  /\ UNCHANGED <<interrupted, active, configVars, skillVars>>

\* No new connections; requests that are answered are waited for, up to a time-out.
StopServer == StopEach({"server"}, "stopServer", "stopChannels")

StopChannels == StopEach(Channel, "stopChannels", "waitRouter")

\* The drain period is over at once, as the context is done.
WaitForRouter == AwaitEach({"router"}, "waitRouter", "stopAgents")

StopAgents == AwaitEach(Agent, "stopAgents", "stopConnectors")

StopConnectors == StopEach(Connector, "stopConnectors", "stopScheduler")

\* Stop does not wait for jobs that run.
StopScheduler ==
  /\ Go("stopScheduler", "closeStore")
  /\ Set({"scheduler"}, "down")
  /\ UNCHANGED <<interrupted, active, configVars, skillVars>>

CloseStore ==
  /\ Go("closeStore", "exited")
  /\ Set({"store"}, "down")
  /\ UNCHANGED <<interrupted, active, configVars, skillVars>>

LoadAndRun ==
  \/ loadStore \/ loadConnectors \/ loadChannels \/ registerLocalConnectors \/ assignAgentSkills
  \/ StartConnectors \/ StartAgents \/ StartChannels \/ StartScheduler \/ StartRouter
  \/ StartServer

ShutDown ==
  \/ Shutdown \/ StopServer \/ StopChannels \/ WaitForRouter \/ StopAgents \/ StopConnectors
  \/ StopScheduler \/ CloseStore

LifeNext ==
  \/ LoadAndRun \/ ShutDown \/ SignalArrives \/ ServerFails
  \/ \E p \in Agent \cup {"router"} : LoopEnds(p)

LifeSpec == LifeInit /\ [][LifeNext]_lifeVars
-----------------------------------------------------------------------------
\* Before an interrupt the kernel runs only with everything it needs: all parts are
\* up and the executive knows what the others hold.  A skill is with specialists
\* bound to it, or else with the general agent, or with nobody, and then it cannot
\* be instantiated or its default connector is not enabled.  A specialist lacks a
\* skill it is bound to only if that takes no connector and the binding names one.
RunsWhole ==
  (phase = "running" /\ ~interrupted) =>
    /\ \A p \in Part : state[p] = "up" \/ (p = "server" /\ headless)
    /\ \A a \in Agent \ {Executive} : known[a] = given[a]
    /\ \A k \in Skill :
         LET holders == {a \in Agent : k \in given[a]}
             bound == {s \in Specialist : \E b \in bindings[s] : b.skill = k}
         IN \/ holders \subseteq bound /\ holders # {}
            \/ holders = {General}
            \/ holders = {} /\ (k \in unusable \/ template[k].default \in Disabled)
    /\ \A s \in Specialist : \A b \in bindings[s] :
         b.skill \in given[s] \/ (~template[b.skill].spec /\ b.connector \in Disabled)

\* Shutdown takes the parts down in the order in which they need each other: when a
\* connector or the scheduler stops, no channel, agent or router that could call it
\* runs, and when the store is closed nothing does; but for a part that was left,
\* because its stop failed or its ten seconds were over.
StopsInOrder ==
  /\ (\E p \in Connector \cup {"scheduler"} : state[p] \in {"down", "left"}) =>
       \A p \in Channel \cup Agent \cup {"router", "server"} : state[p] # "up"
  /\ state["store"] = "down" => \A p \in Part : state[p] # "up"

\* What a run promises from its boot to its end, whatever fails or is
\* interrupted on the way.
LifeInOrder == RunsWhole /\ StopsInOrder
==============================================================================
