------------------------------ MODULE MCTools ------------------------------
(***************************************************************************)
(* What works on its own: the search for cycles, the calendar of episodes, *)
(* the commands that write the configuration and its secrets, and the      *)
(* skills that summarise, look for skills and run commands.  They are      *)
(* checked side by side, one per behaviour, from all its initial states;   *)
(* the others stay at one of theirs.                                       *)
(***************************************************************************)
EXTENDS CycleCheck, EpisodeCalendar, ConfigFiles, Secrets, Summaries, Marketplace,
        CliTool, TLC

CONSTANTS a1, a2, s1, n1, c1, c2, q3, t1, t2, t3

VARIABLE part  \* the one that runs

toolVars == <<part, vars, calendarVars, configVars, secretsVars, summaryVars, marketVars, cliVars>>

\* A first month of three days and a second of one.
Calendar == <<0, 3, 4>>

\* The zones are one, or the user's is half a day behind or ahead.
HalfDays == {[process |-> n, utc |-> n] : n \in {0, 3, -3}}

\* Two councils that share an agent and a skill.
CouncilUses ==
  (c1 :> [agents |-> <<a1>>, skills |-> <<s1>>, connectors |-> <<n1>>])
    @@ (c2 :> [agents |-> <<a1>>, skills |-> <<s1>>, connectors |-> <<>>])

Slots == <<a1, a2>>

\* The key of the skill is called like that of a provider, with something before it.
NameWithin == [k \in Key |-> IF k = SkillKey THEN {k, "anthropic"} ELSE {k}]

\* Texts of two, five or seven places, any of which are line breaks.
Texts ==
  UNION {{[i \in 1..n |-> IF i \in b THEN 0 ELSE i] : b \in SUBSET (1..n)} : n \in {2, 5, 7}}

\* All queries are alike but the third.
Alike ==
  [p \in Query \X Query |-> IF p[1] = p[2] THEN 2 ELSE IF q3 \notin {p[1], p[2]} THEN 1 ELSE 0]

\* A tool for everyone, one for administrators and one whose command is missing.
Tools ==
  (t1 :> [command |-> TRUE, access |-> "", timeout |-> 0])
    @@ (t2 :> [command |-> TRUE, access |-> "admin", timeout |-> 1])
    @@ (t3 :> [command |-> FALSE, access |-> "", timeout |-> 2])

AnyCli == CHOOSE f \in [enabled : {TRUE}, type : {"cli"}, missing : {FALSE},
                        onMissing : {"error"}, level : Levels] : TRUE

ToolParts == {"cycles", "calendar", "config", "secrets", "summaries", "market", "cli"}

ToolsStart ==
  /\ Init /\ (part = "cycles" \/ graph = <<>>)
  /\ CliInit /\ (part = "cli" \/ (config = AnyCli /\ mode = "native" /\ inRoot))
  /\ CalendarInit /\ (part = "calendar" \/ zone.process = 0)
  /\ ConfigInit /\ SecretsInit /\ SummariesInit /\ MarketplaceInit

ToolsInit == part \in ToolParts /\ ToolsStart

ToolsNext ==
  \/ /\ part = "cycles" /\ Next
     /\ UNCHANGED <<part, calendarVars, configVars, secretsVars, summaryVars, marketVars, cliVars>>
  \/ /\ part = "calendar" /\ CalendarNext
     /\ UNCHANGED <<part, vars, configVars, secretsVars, summaryVars, marketVars, cliVars>>
  \/ /\ part = "config" /\ ConfigNext
     /\ UNCHANGED <<part, vars, calendarVars, secretsVars, summaryVars, marketVars, cliVars>>
  \/ /\ part = "secrets" /\ SecretsNext
     /\ UNCHANGED <<part, vars, calendarVars, configVars, summaryVars, marketVars, cliVars>>
  \/ /\ part = "summaries" /\ SummariesNext
     /\ UNCHANGED <<part, vars, calendarVars, configVars, secretsVars, marketVars, cliVars>>
  \/ /\ part = "market" /\ MarketplaceNext
     /\ UNCHANGED <<part, vars, calendarVars, configVars, secretsVars, summaryVars, cliVars>>
  \/ /\ part = "cli" /\ CliNext
     /\ UNCHANGED <<part, vars, calendarVars, configVars, secretsVars, summaryVars, marketVars>>

ToolsSpec == ToolsInit /\ [][ToolsNext]_toolVars
=============================================================================
