------------------------------ MODULE Secrets ------------------------------
(***************************************************************************)
(* How the API keys get from the user to the agents: the setup wizard     *)
(* (cmd/setup.go, run by internal/cmdutil/wizard.go), the commands that   *)
(* write to .env afterwards (`channel setup`, `connector setup`,          *)
(* `skill install`, `agent edit`), and the way a client finds its key     *)
(* when the server starts (pkg/llm/factory.go, pkg/asec/vault/env.go).    *)
(*                                                                         *)
(* The wizard runs its six steps in order.  A step that is done already   *)
(* may be skipped, and any of its forms may be abandoned, which ends the  *)
(* wizard; it can be run again at any time.                               *)
(*                                                                         *)
(* A step and a command write one file after the other, and a write first *)
(* truncates the file, unless it appends.  Any write may fail, or the      *)
(* program may end in it: the file is then as it was, or empty.  Commands *)
(* run one at a time, and what they write they read before.               *)
(*                                                                         *)
(* .env is a text file.  The model keeps its KEY=value lines in order,    *)
(* whether each value is empty, a secret, or spoiled because another line *)
(* was glued to it, whose key its text then holds, and whether the file    *)
(* ends with a newline.                                                    *)
(***************************************************************************)
EXTENDS Naturals, Sequences, FiniteSets

CONSTANTS Provider,
          Slot,             \* the enabled agents, in the order of their files
          DefaultProvider,  \* the provider of the agent files that are shipped
          ChannelKey, ServerKey, SkillKey, \* the other keys kept in .env
          Within,           \* per key: the keys whose names its name contains
          MaxLines,         \* bound: lines of .env
          MaxFailures       \* bound: writes that fail or are cut short

Agents == {Slot[i] : i \in DOMAIN Slot}
\* ProviderEnvVar and ProviderVaultPath name one key per provider, so the
\* provider stands for both.
Key == Provider \union {ChannelKey, ServerKey, SkillKey}

ASSUME SecretsAssumption ==
    /\ DefaultProvider \in Provider
    /\ Slot \in Seq(Agents)
    /\ Within \in [Key -> SUBSET Key] /\ \A k \in Key : k \in Within[k]
    /\ MaxLines \in Nat /\ MaxFailures \in Nat

None == "none"

VARIABLES
    disk,     \* the form of the other files: home, user, vault, auth
    env,      \* the .env file
    agent,    \* per agent: the form of its file, its provider and key path
    step,     \* the step the wizard is at, 0 when it does not run
    writes,   \* the writes that the step or the command has left
    failures, \* the writes that failed so far
    chosen    \* history: the provider last chosen for each agent, None when
              \* the choice could not be written

secretsVars == <<disk, env, agent, step, writes, failures, chosen>>

EmptyEnv == [exists |-> FALSE, lines |-> <<>>, ended |-> TRUE]
Blank(form) == [is |-> form, provider |-> None, path |-> None]
AgentFileOf(provider, path) == [is |-> "good", provider |-> provider, path |-> path]
Shipped == AgentFileOf(DefaultProvider, DefaultProvider)

\* The files in order, then the agents' by their slots; what .env and the
\* agents' files are to be; whether the failure of an agent's is a warning.
NoWrites == [files |-> <<>>, slots |-> {}, env |-> EmptyEnv,
             agent |-> [a \in Agents |-> Shipped], warns |-> FALSE]
OnlyFiles(files, e) == [NoWrites EXCEPT !.files = files, !.env = e]

SecretsInit ==
    /\ disk = [home |-> "absent", user |-> "absent", vault |-> "absent", auth |-> "absent"]
    /\ env = EmptyEnv
    /\ agent = [a \in Agents |-> Blank("absent")]
    /\ step = 0
    /\ writes = NoWrites
    /\ failures = 0
    /\ chosen = [a \in Agents |-> None]

------------------------------------------------------------------------------
(* The .env file.                                                          *)

Mentions(e, k) == {i \in DOMAIN e.lines : e.lines[i].key = k}
FirstOf(S) == CHOOSE i \in S : \A j \in S : i <= j

\* strings.Contains: the name is anywhere in the text.
Holds(e, k) == \E i \in DOMAIN e.lines : k \in Within[e.lines[i].key] \union e.lines[i].glued

\* The setup looks at the first line of the key only, ...
KeyExistsInEnv(k) ==
    /\ Mentions(env, k) # {}
    /\ env.lines[FirstOf(Mentions(env, k))].value # "empty"

\* ... the loader takes the first value that is not empty.
LoadDotEnv(e, k) ==
    LET Set == {i \in Mentions(e, k) : e.lines[i].value # "empty"}
    IN IF Set = {} THEN "empty" ELSE e.lines[FirstOf(Set)].value

LineOf(k, value) == [key |-> k, value |-> value, glued |-> {}]

\* Text glued to a line.
GluedTo(line, k) == [line EXCEPT !.value = "spoiled", !.glued = @ \union Within[k]]

\* Appending "KEY=value\n" to the bytes of the file: without a newline at
\* its end the text is glued to the last line, whose value is spoiled.
Appended(e, k, value) ==
    IF e.ended THEN [e EXCEPT !.lines = Append(@, LineOf(k, value))]
    ELSE [e EXCEPT !.lines[Len(e.lines)] = GluedTo(@, k), !.ended = TRUE]

\* `channel setup` and the like: nothing is written over a key that is set.
AppendEnvVar(k) ==
    IF KeyExistsInEnv(k) \/ ~env.exists THEN env ELSE Appended(env, k, "secret")

\* `skill install`: the first line of the key is replaced, or a line is
\* added - without a newline after it.
SetEnvVar(k) ==
    IF Mentions(env, k) # {}
    THEN [env EXCEPT !.lines[FirstOf(Mentions(env, k))] = LineOf(k, "secret")]
    ELSE [exists |-> TRUE, lines |-> Append(env.lines, LineOf(k, "secret")),
          ended |-> FALSE]

------------------------------------------------------------------------------
(* The writes.                                                             *)

Writing == writes.files # <<>> \/ writes.slots # {}

NextStep == step' = IF step \in {0, 6} THEN 0 ELSE step + 1

\* The wizard goes to its next step after the last write of this one.
Continue(w) ==
    IF w.files = <<>> /\ w.slots = {}
    THEN writes' = NoWrites /\ NextStep
    ELSE writes' = w /\ UNCHANGED step

Begins(w) == ~Writing /\ Continue(w)

\* No claim is made for agents whose files could not be written.
Unkept(slots) ==
    chosen' = [a \in Agents |-> IF a \in {Slot[i] : i \in slots} THEN None ELSE chosen[a]]

StopSetup ==
    /\ writes' = NoWrites
    /\ step' = 0
    /\ Unkept(writes.slots)

SetupFileWritten ==
    /\ writes.files # <<>>
    /\ LET f == Head(writes.files) IN
       /\ f = "append" => env.exists
       /\ disk' = [g \in DOMAIN disk |-> IF g = f THEN "good" ELSE disk[g]]
       /\ env' = IF f \in {"rewrite", "append"} THEN writes.env ELSE env
    /\ Continue([writes EXCEPT !.files = Tail(@)])
    /\ UNCHANGED <<agent, failures, chosen>>

\* The write fails, or the program ends: the command is over, and a file that
\* was truncated is empty.
SetupFileFails ==
    /\ writes.files # <<>>
    /\ LET f == Head(writes.files) IN
       \/ /\ failures < MaxFailures
          /\ failures' = failures + 1
          /\ \/ UNCHANGED <<disk, env>>
             \/ /\ f \in DOMAIN disk
                /\ disk' = [disk EXCEPT ![f] = "empty"]
                /\ UNCHANGED env
             \/ /\ f = "rewrite"
                /\ env' = [EmptyEnv EXCEPT !.exists = TRUE]
                /\ UNCHANGED disk
       \/ /\ f = "append" /\ ~env.exists
          /\ UNCHANGED <<disk, env, failures>>
    /\ StopSetup
    /\ UNCHANGED agent

NextSlot == FirstOf(writes.slots)

AgentWritten ==
    /\ writes.files = <<>> /\ writes.slots # {}
    /\ LET a == Slot[NextSlot] IN agent' = [agent EXCEPT ![a] = writes.agent[a]]
    /\ Continue([writes EXCEPT !.slots = @ \ {NextSlot}])
    /\ UNCHANGED <<disk, env, failures, chosen>>

\* The wizard warns that it could not update an agent's file, and goes on with
\* the next; the other commands, and a program that ends, do not.
AgentFails ==
    /\ writes.files = <<>> /\ writes.slots # {}
    /\ failures < MaxFailures
    /\ failures' = failures + 1
    /\ \/ UNCHANGED agent
       \/ agent' = [agent EXCEPT ![Slot[NextSlot]] = Blank("empty")]
    /\ \/ StopSetup
       \/ /\ writes.warns
          /\ Unkept({NextSlot})
          /\ Continue([writes EXCEPT !.slots = @ \ {NextSlot}])
    /\ UNCHANGED <<disk, env>>

------------------------------------------------------------------------------
(* The wizard.                                                             *)

Setup ==
    /\ step = 0 /\ ~Writing
    /\ step' = 1
    /\ UNCHANGED <<disk, env, agent, writes, failures, chosen>>

\* On a new context the paths are not known before the first step, and no
\* model and no channel was chosen: only three steps can be done already.  The
\* profile is read, of the others the existence is enough.
IsDone ==
    \/ step = 2 /\ disk.user = "good"
    \/ step = 3 /\ disk.vault # "absent"
    \/ step = 6 /\ disk.auth # "absent"

SkipStep ==
    /\ IsDone /\ ~Writing
    /\ NextStep
    /\ UNCHANGED <<disk, env, agent, writes, failures, chosen>>

\* A form is abandoned, its answers are refused, or a file that the step reads
\* is not there: nothing was written.
Abandon ==
    /\ step # 0 /\ ~Writing
    /\ step' = 0
    /\ UNCHANGED <<disk, env, agent, writes, failures, chosen>>

\* A shipped file that exists already, whatever is in it, is not copied again.
copyFile == {i \in DOMAIN Slot : agent[Slot[i]].is = "absent"}

\* Step 1: the directories, and the shipped files that are missing.
Bootstrap ==
    /\ step = 1
    /\ disk' = [disk EXCEPT !.home = "good"]
    /\ Begins([NoWrites EXCEPT !.slots = copyFile])
    /\ UNCHANGED <<env, agent, failures, chosen>>

\* Step 2: the user's profile.
UserIdentity ==
    /\ step = 2
    /\ Begins(OnlyFiles(<<"user">>, env))
    /\ UNCHANGED <<disk, env, agent, failures, chosen>>

\* Bug: the .env of the vault step is always written anew.
FreshEnv == <<"vault", "rewrite">>
\* Step 3: vault.yaml, and an .env with a header when there is none.
VaultFiles == IF env.exists THEN <<"vault">> ELSE <<"vault", "rewrite">>

Vault ==
    /\ step = 3
    /\ Begins(OnlyFiles(VaultFiles, [EmptyEnv EXCEPT !.exists = TRUE]))
    /\ UNCHANGED <<disk, env, agent, failures, chosen>>

\* The agents whose files parse and are enabled.
Live == {i \in DOMAIN Slot : agent[Slot[i]].is = "good"}

\* Step 4: a provider and a model for every enabled agent.  Whether a key
\* must be asked for is looked up under the agent's provider of before; what
\* was typed is kept under the provider that was picked.
UsedProviders(pick) ==
    [p \in {pick[Slot[i]] : i \in Live} |->
        LET first == Slot[FirstOf({i \in Live : pick[Slot[i]] = p})]
        IN IF KeyExistsInEnv(agent[first].provider) THEN "empty" ELSE "secret"]

\* A provider whose variable is anywhere in the text is left alone.
AppendedNew(e, p, value) == IF Holds(e, p) THEN e ELSE Appended(e, p, value)

\* The other providers get a line each, one after the other ...
AppendedAll(e, order, used) ==
    LET Written[k \in 0..Len(order)] ==
            IF k = 0 THEN e ELSE AppendedNew(Written[k - 1], order[k], used[order[k]])
    IN Written[Len(order)]

\* ... in any order.
LLMEnvs(pick) ==
    LET used == UsedProviders(pick)
        n    == Cardinality(DOMAIN used)
    IN {AppendedAll(env, order, used) :
            order \in {f \in [1..n -> DOMAIN used] : \A i, j \in 1..n : f[i] = f[j] => i = j}}

\* The agent's file gets the provider that was picked and the key path of
\* the provider it had.
updateAgentLLM(a, p) == AgentFileOf(p, agent[a].provider)

\* .env is written anew, then the agents' files one by one.
LLM ==
    /\ step = 4 /\ Live # {}
    /\ env.exists
    /\ Len(env.lines) + Len(Slot) <= MaxLines
    /\ \E pick \in [Agents -> Provider] : \E e \in LLMEnvs(pick) :
          /\ Begins([files |-> <<"rewrite">>, slots |-> Live, env |-> e, warns |-> TRUE,
                     agent |-> [a \in Agents |-> updateAgentLLM(a, pick[a])]])
          /\ chosen' = [a \in Agents |-> IF agent[a].is = "good" THEN pick[a] ELSE chosen[a]]
    /\ UNCHANGED <<disk, env, agent, failures>>

NoLLM ==
    /\ step = 4 /\ Live = {} /\ ~Writing
    /\ NextStep
    /\ UNCHANGED <<disk, env, agent, writes, failures, chosen>>

\* Step 5: the built-in web channel, or the secrets of another one.
ChannelStep ==
    /\ step = 5
    /\ \/ Begins(NoWrites)
       \/ /\ env.exists /\ Len(env.lines) < MaxLines
          /\ Begins(OnlyFiles(<<"append">>, AppendEnvVar(ChannelKey)))
    /\ UNCHANGED <<disk, env, agent, failures, chosen>>

\* Step 6: the login, and an API key for programs.
Auth ==
    /\ step = 6 /\ Len(env.lines) < MaxLines
    /\ Begins(OnlyFiles(<<"auth", "append">>, AppendEnvVar(ServerKey)))
    /\ UNCHANGED <<disk, env, agent, failures, chosen>>

------------------------------------------------------------------------------
(* The other commands that write keys.                                     *)

Command == step = 0 /\ disk.home = "good" /\ UNCHANGED <<disk, env, agent, failures>>

SetupChannel ==
    /\ Command
    /\ env.exists /\ Len(env.lines) < MaxLines
    /\ Begins(OnlyFiles(<<"append">>, AppendEnvVar(ChannelKey)))
    /\ UNCHANGED chosen

SkillInstallRequirements ==
    /\ Command
    /\ Len(env.lines) < MaxLines
    /\ Begins(OnlyFiles(<<"rewrite">>, SetEnvVar(SkillKey)))
    /\ UNCHANGED chosen

\* `agent edit` writes the key path of the provider it writes.
AgentSetProvider(i, p) ==
    /\ Command
    /\ i \in Live
    /\ Begins([NoWrites EXCEPT !.slots = {i}, !.agent[Slot[i]] = AgentFileOf(p, p)])
    /\ chosen' = [chosen EXCEPT ![Slot[i]] = p]

SecretsNext ==
    \/ Setup \/ SkipStep \/ Abandon
    \/ Bootstrap \/ UserIdentity \/ Vault \/ LLM \/ NoLLM \/ ChannelStep \/ Auth
    \/ SetupChannel
    \/ SkillInstallRequirements
    \/ \E i \in DOMAIN Slot, p \in Provider : AgentSetProvider(i, p)
    \/ SetupFileWritten \/ SetupFileFails
    \/ AgentWritten \/ AgentFails

SecretsSpec == SecretsInit /\ [][SecretsNext]_secretsVars

FileForm == {"absent", "empty", "good"}
AgentForm == [is : FileForm, provider : Provider \union {None}, path : Provider \union {None}]

SecretsTypeOK ==
    /\ disk \in [{"home", "user", "vault", "auth"} -> FileForm]
    /\ env.lines \in Seq([key : Key, value : {"empty", "secret", "spoiled"}, glued : SUBSET Key])
    /\ Len(env.lines) <= MaxLines
    /\ env.exists \in BOOLEAN /\ env.ended \in BOOLEAN
    /\ agent \in [Agents -> AgentForm]
    /\ step \in 0..6
    /\ writes.files \in Seq({"user", "vault", "auth", "rewrite", "append"})
    /\ writes.slots \subseteq DOMAIN Slot
    /\ writes.agent \in [Agents -> AgentForm] /\ writes.warns \in BOOLEAN
    /\ failures \in 0..MaxFailures
    /\ chosen \in [Agents -> Provider \union {None}]

------------------------------------------------------------------------------
(* What a client finds when the server starts: the variable its key path   *)
(* names, and the provider that key is for.                                *)
GetSecret(path) == LoadDotEnv(env, path)
resolveAPIKey(a) ==
    IF GetSecret(agent[a].path) = "empty" THEN None ELSE agent[a].path

(***************************************************************************)
(* Running the setup again is safe (setup.go:26): no command of setup,     *)
(* `channel setup`, `skill install` or `agent edit`, abandoned, failing or *)
(* ended half-way, costs a secret that could be read before, a login, a    *)
(* profile or an agent's file - but for the one file whose write failed.   *)
(* The other exception is the secret in the last line of a file that does  *)
(* not end with a newline, as `skill install` leaves it: the next line is  *)
(* glued to it.  And when nothing is left to write, every agent is with    *)
(* the provider last chosen for it, unless its write failed.               *)
(***************************************************************************)
AtRisk == IF env.ended THEN {} ELSE {env.lines[Len(env.lines)].key}
Fails == failures' # failures
FailsFor(f) == Fails /\ writes.files # <<>> /\ Head(writes.files) = f
FailsForAgent(a) == Fails /\ writes.files = <<>> /\ a = Slot[NextSlot]

SetupIsSafeToRerun ==
    [][/\ ~FailsFor("rewrite") =>
             \A k \in Key \ AtRisk :
                 LoadDotEnv(env, k) = "secret" => LoadDotEnv(env', k) = "secret"
       /\ \A f \in {"user", "vault", "auth"} :
             disk[f] = "good" /\ ~FailsFor(f) => disk'[f] = "good"
       /\ \A a \in Agents :
             agent[a].is = "good" /\ ~FailsForAgent(a) => agent'[a].is = "good"
       /\ ~Writing' => \A a \in Agents :
             chosen'[a] # None => agent'[a].provider = chosen'[a]]_secretsVars

(***************************************************************************)
(* After the wizard's step for the models, "Each agent can use a different *)
(* provider and model" and the "Keys will be written to your .env file"    *)
(* (setup.go:224): every agent finds a key, and it is the one of its own   *)
(* provider.  It does not, though no write failed: the step takes the key  *)
(* path, and the question whether the key is set, from the provider the    *)
(* agent had before.                                                       *)
(***************************************************************************)
AgentsHaveTheirKeys ==
    step = 5 /\ failures = 0 => \A a \in Agents : resolveAPIKey(a) = agent[a].provider
============================================================================
