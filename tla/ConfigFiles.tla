---------------------------- MODULE ConfigFiles ----------------------------
(***************************************************************************)
(* The configuration files of the program, one YAML file per agent,       *)
(* skill, connector, channel and council, and the commands that change    *)
(* them: enable, disable and edit of each kind (cmd/agent.go,             *)
(* cmd/skill.go, cmd/connector.go, cmd/channel.go), `council enable` and  *)
(* `council disable` (cmd/council.go, internal/cmdutil/councils.go) and   *)
(* `convert`, which has a language model rewrite a skill                  *)
(* (cmd/convert.go, pkg/skills/cli/converter.go).                         *)
(*                                                                         *)
(* A council is a named team: enabling it switches its parts on one file  *)
(* at a time, disabling it switches off the parts no other enabled        *)
(* council claims.  Nothing makes a command atomic: it may be interrupted *)
(* between two files, or inside a write, which leaves an empty file.      *)
(* One command runs at a time.  Of a file the model keeps whether it      *)
(* exists, parses and is enabled.                                         *)
(***************************************************************************)
EXTENDS Naturals, Sequences, FiniteSets

CONSTANTS AgentFile, Skill, Connector, Channel, Council,
          Uses,        \* the agents, skills and connectors each council names
          MaxCuts      \* bound: how often a command is interrupted

Resource == AgentFile \union Skill \union Connector \union Channel
File == Resource \union Council

ASSUME ConfigAssumption ==
    /\ \A c \in Council : /\ Uses[c].agents \in Seq(AgentFile)
                          /\ Uses[c].skills \in Seq(Skill)
                          /\ Uses[c].connectors \in Seq(Connector)
    /\ Council \cap Resource = {}
    /\ AgentFile \cap Skill = {}
    /\ MaxCuts \in Nat

VARIABLES
    file,       \* per file: its form, and the value of its enabled field
    command,    \* the command that is running, and the writes it has left
    byHand,     \* history: resources the user switched off one by one
    cutShort,   \* history: councils whose disabling did not reach its end
    converted,  \* history: skills whose conversion was reported as saved
    cuts        \* the interruptions so far

configVars == <<file, command, byHand, cutShort, converted, cuts>>

Idle == [name |-> "none", of |-> {}, strict |-> FALSE, todo |-> <<>>]

\* What a write changes: the enabled field, another field, or all of it.
Setting(on) == IF on THEN "on" ELSE "off"
WriteTo(f, what) == [file |-> f, what |-> what, form |-> "good"]
SetAll(fs, on) == [i \in DOMAIN fs |-> WriteTo(fs[i], Setting(on))]

Parts(c) == Uses[c].agents \o Uses[c].skills \o Uses[c].connectors
PartsOf(c) == {Parts(c)[i] : i \in DOMAIN Parts(c)}

ConfigInit ==
    /\ file \in [File -> [form : {"good"}, on : {FALSE}]]
    /\ command = Idle
    /\ byHand = {} /\ cutShort = {} /\ converted = {}
    /\ cuts = 0

------------------------------------------------------------------------------
(* Reading the files.                                                      *)

\* The commands list what parses and skip the rest with a warning.
LoadDir(dir) == {f \in dir : file[f].form = "good"}
SkillRegistry == {s \in Skill : file[s].form \in {"good", "empty"}}

\* The server reads the same files with no such tolerance: one that does
\* not parse, or that has no id, fails the whole directory.
LoadConfig(f) ==
    IF f \in Skill THEN file[f].form # "fenced"
    ELSE file[f].form \in {"good", "absent"}
LoadAllConfigs(dir) == \A f \in dir : LoadConfig(f)

\* What `council info` shows of one part.  An agent is there when its file
\* exists, whatever is in it; a skill or a connector when its file parses.
CouncilInfo(c) ==
    LET AgentExists(r) == file[r].form # "absent"
        Found(r)       == r \in LoadDir(Resource)
    IN [r \in PartsOf(c) |-> [present |-> IF r \in AgentFile THEN AgentExists(r) ELSE Found(r),
                              enabled |-> Found(r) /\ file[r].on]]

\* The files that an interrupted write left empty.
Emptied == {f \in File : file[f].form = "empty"}

------------------------------------------------------------------------------
(* Writing one file.                                                       *)

\* A YAML file is read into a map, changed and written back: an absent file
\* is an error, and the assignment into the nil map of an empty one panics.
YAMLWrite(w) ==
    CASE file[w.file].form = "absent" -> "error"
      [] file[w.file].form = "empty"  -> "panic"
      [] OTHER                        -> "done"

\* A skill file is changed as text: the first "enabled: <the other value>"
\* is replaced, and a file that holds none is an error - which one that is
\* already in the wanted state is.
SkillSetEnabled(w) ==
    IF file[w.file].form \in {"good", "fenced"} /\ file[w.file].on # (w.what = "on")
    THEN "done" ELSE "error"

\* The access level is replaced where there is one, added where there is none.
SkillSetAccessLevel(w) == IF file[w.file].form = "absent" THEN "error" ELSE "done"

Outcome(w) ==
    CASE w.what \in {"content", "keep"} -> "done"
      [] w.what = "access"  -> SkillSetAccessLevel(w)
      [] w.file \in Skill   -> SkillSetEnabled(w)
      [] OTHER              -> YAMLWrite(w)

Written(w) ==
    CASE w.what \in {"on", "off"} -> [file[w.file] EXCEPT !.on = w.what = "on"]
      [] w.what = "content"       -> [form |-> w.form, on |-> TRUE]
      [] OTHER                    -> file[w.file]

------------------------------------------------------------------------------
(* The commands.                                                           *)

Begin(name, of, strict, todo) ==
    /\ command = Idle
    /\ command' = [name |-> name, of |-> of, strict |-> strict, todo |-> todo]

Same == UNCHANGED <<file, byHand, cutShort, converted, cuts>>

\* `agent enable`, `connector disable`, `channel enable`, ...
SetEnabled(f, on) ==
    /\ f \in AgentFile \union Connector \union Channel
    /\ Begin("set", {}, TRUE, SetAll(<<f>>, on))
    /\ Same

\* `skill enable a b` or --all: a skill that cannot be set is skipped.
SkillsSetEnabled(fs, on) ==
    /\ \A i \in DOMAIN fs : fs[i] \in Skill
    /\ Begin("set", {}, FALSE, SetAll(fs, on))
    /\ Same

\* `agent edit` writes the model, the enabled field and the name in turn.
AgentEdit(a, on) ==
    /\ a \in LoadDir(AgentFile)
    /\ Begin("set", {}, TRUE,
             <<WriteTo(a, "llm"), WriteTo(a, Setting(on)), WriteTo(a, "name")>>)
    /\ Same

\* `connector edit` and `channel edit` write all their fields at once.
FileEdit(f, on) ==
    /\ f \in LoadDir(Connector \union Channel)
    /\ Begin("set", {}, TRUE, SetAll(<<f>>, on))
    /\ Same

\* `skill edit` stops at the enabled field when that has its value already.
SkillEdit(s, on) ==
    /\ s \in SkillRegistry
    /\ Begin("set", {}, TRUE, <<WriteTo(s, Setting(on)), WriteTo(s, "access")>>)
    /\ Same

\* `council enable`: every part, then the council's own file, come what may.
EnableCouncil(c) ==
    /\ c \in LoadDir(Council)
    /\ Begin("enable", {c}, FALSE, SetAll(Parts(c), TRUE) \o SetAll(<<c>>, TRUE))
    /\ Same

\* Bug: only the agents of the other councils are protected.
ProtectedAgents(c) ==
    UNION {{Uses[d].agents[i] : i \in DOMAIN Uses[d].agents} :
               d \in {e \in LoadDir(Council) \ {c} : file[e].on}}

\* What the other enabled councils claim.
protectedResources(c) ==
    UNION {PartsOf(d) : d \in {e \in LoadDir(Council) \ {c} : file[e].on}}

\* `council disable`: its parts, but for those that others claim, which are
\* passed over, then its own file.
DisableCouncil(c) ==
    /\ c \in LoadDir(Council)
    /\ LET Change(r) == IF r \in protectedResources(c) THEN "keep" ELSE Setting(FALSE) IN
       Begin("disable", {c}, FALSE,
             [i \in DOMAIN Parts(c) |-> WriteTo(Parts(c)[i], Change(Parts(c)[i]))]
                 \o SetAll(<<c>>, FALSE))
    /\ Same

\* The next write of the command.  One that fails ends a strict command and
\* is a warning to the others; a panic ends any.
WriteFile ==
    /\ command.todo # <<>>
    /\ LET w == Head(command.todo) IN
       /\ Outcome(w) = "done"
       /\ file' = [file EXCEPT ![w.file] = Written(w)]
       /\ byHand' = IF w.what = "off" /\ command.name = "set" THEN byHand \union {w.file}
                    ELSE IF w.what \in {"on", "content"} THEN byHand \ {w.file} ELSE byHand
       /\ converted' = IF w.what = "content" THEN converted \union {w.file} ELSE converted
       /\ cutShort' = IF w.file \in Council THEN cutShort \ {w.file} ELSE cutShort
       /\ command' = IF Tail(command.todo) = <<>> THEN Idle
                     ELSE [command EXCEPT !.todo = Tail(@)]
    /\ UNCHANGED cuts

Abandoned == IF command.name = "disable" THEN cutShort \union command.of ELSE cutShort

FileWriteFails ==
    /\ command.todo # <<>>
    /\ LET w    == Head(command.todo)
           ends == Outcome(w) = "panic" \/ command.strict \/ Tail(command.todo) = <<>>
       IN /\ Outcome(w) # "done"
          /\ command' = IF ends THEN Idle ELSE [command EXCEPT !.todo = Tail(@)]
          /\ cutShort' = IF ends THEN Abandoned ELSE cutShort
    /\ UNCHANGED <<file, byHand, converted, cuts>>

\* The command is interrupted before a write, or after the file was
\* truncated and before its text was written.
Interrupt ==
    /\ command # Idle
    /\ cuts < MaxCuts
    /\ cuts' = cuts + 1
    /\ \/ UNCHANGED file
       \/ /\ command.todo # <<>> /\ Head(command.todo).what # "keep"
          /\ Outcome(Head(command.todo)) = "done"
          /\ file' = [file EXCEPT ![Head(command.todo).file] = [form |-> "empty", on |-> FALSE]]
    /\ command' = Idle
    /\ cutShort' = Abandoned
    /\ UNCHANGED <<byHand, converted>>

\* The user deletes a file, or restores one in an editor.
UserEdits(f) ==
    /\ command = Idle
    /\ f \in Resource
    /\ \/ file' = [file EXCEPT ![f] = [form |-> "absent", on |-> FALSE]]
       \/ /\ file[f].form # "good"
          /\ file' = [file EXCEPT ![f] = [form |-> "good", on |-> FALSE]]
    /\ byHand' = byHand \union {f}
    /\ converted' = converted \ {f}
    /\ UNCHANGED <<command, cutShort, cuts>>

------------------------------------------------------------------------------
(* `convert`: the model is asked, and once more with the error of the      *)
(* parser; an answer that parses - after its markdown fence was taken off  *)
(* for the parser - is written to the skills directory as it came.         *)

Convert(s) ==
    /\ s \in Skill
    /\ Begin("convert", {s}, TRUE, <<>>)
    /\ Same

Saved(s, form) == <<[WriteTo(s, "content") EXCEPT !.form = form]>>

ConvertSKILL ==
    /\ command.todo = <<>>
    /\ command.name \in {"convert", "retry"}
    /\ \/ \E s \in command.of, form \in {"good", "fenced"} :
             command' = [command EXCEPT !.name = "convert", !.todo = Saved(s, form)]
       \/ /\ command.name = "convert"          \* it does not validate: retry once
          /\ command' = [command EXCEPT !.name = "retry"]
       \/ command' = Idle                      \* the call failed, --dry-run, or a bad retry
    /\ Same

------------------------------------------------------------------------------

ConfigNext ==
    \/ \E f \in Resource, on \in BOOLEAN :
          \/ SetEnabled(f, on) \/ AgentEdit(f, on) \/ FileEdit(f, on) \/ SkillEdit(f, on)
    \/ \E on \in BOOLEAN, fs \in {<<s, t>> : s, t \in Skill} : SkillsSetEnabled(fs, on)
    \/ \E c \in Council : EnableCouncil(c) \/ DisableCouncil(c)
    \/ \E s \in Skill : Convert(s)
    \/ ConvertSKILL
    \/ WriteFile
    \/ FileWriteFails
    \/ Interrupt
    \/ \E f \in Resource : UserEdits(f)

ConfigSpec == ConfigInit /\ [][ConfigNext]_configVars

ConfigTypeOK ==
    /\ file \in [File -> [form : {"good", "fenced", "empty", "absent"}, on : BOOLEAN]]
    /\ command.todo \in Seq([file : File, form : {"good", "fenced"},
                             what : {"on", "off", "keep", "llm", "name", "access", "content"}])
    /\ byHand \subseteq Resource /\ cutShort \subseteq Council /\ converted \subseteq Skill
    /\ cuts \in 0..MaxCuts

(***************************************************************************)
(* An enabled council is staffed: when no command runs, every part that    *)
(* `council info` shows as there it shows as enabled, unless the user      *)
(* switched the part off by hand, an interrupted write left its file empty *)
(* or the council's own disabling was cut short.  In particular disabling  *)
(* another council leaves its parts alone, whatever was enabled,           *)
(* interrupted or lost before: "Resources shared with another active       *)
(* council are left alone" (councils.go:76).  The empty file of an agent   *)
(* does show, as there and not enabled, under a council that is enabled:   *)
(* the existence of the file is all that `council info` asks for.          *)
(***************************************************************************)
CouncilsAreStaffed ==
    command = Idle =>
        \A c \in Council \ cutShort :
            file[c].form = "good" /\ file[c].on =>
                \A r \in PartsOf(c) \ (byHand \union Emptied) :
                    CouncilInfo(c)[r].present => CouncilInfo(c)[r].enabled

(***************************************************************************)
(* What `convert` reports as saved can be loaded: the content "is the      *)
(* fully-formatted YAML ready to be written to disk" (converter.go:23).    *)
(* It is not when the model fenced its answer: the fence is taken off for  *)
(* the parser only, and the file then fails LoadAllConfigs, and with it    *)
(* the start of the server.                                                *)
(***************************************************************************)
ConvertedSkillsLoad == LoadAllConfigs(converted)
============================================================================
