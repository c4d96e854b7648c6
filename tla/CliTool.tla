------------------------------ MODULE CliTool -------------------------------
(***************************************************************************)
(* A skill whose tools are commands (pkg/skills/cli): the skill built from *)
(* its file, and the calls of its tools, each of which runs a child        *)
(* process, waits for it up to a time-out and reports what it printed and  *)
(* the files it left in the call's own output directory.                   *)
(*                                                                         *)
(* In native mode the call waits in cmd.Run, and the context only kills    *)
(* the child. In restricted mode (Linux) cmd.Run is in a goroutine, and    *)
(* the call waits for it or for the context, whichever comes first, then   *)
(* kills the child and waits for the goroutine all the same. cmd.Run       *)
(* returns when the child has ended and nobody holds its output any more:  *)
(* a process the child has started may hold it longer than the time-out,   *)
(* and one that has closed or redirected it is neither killed nor waited   *)
(* for, and may write after the call has ended.                            *)
(* Arguments, environment, what is printed and the isolation itself are    *)
(* left out.                                                               *)
(***************************************************************************)
EXTENDS Integers

CONSTANTS
    CliCall,      \* calls of the skill's tools, by turns of any session
    Tool,         \* the tools of the file
    Declared,     \* Tool -> [command, access, timeout]
    Levels,       \* the access levels a file may grant
    Default,      \* the time-out of a tool that has none
    ExecMaxTime,  \* executor.max_execution_time, 0 when it is not set
    MaxFiles      \* bound on the files of each kind that are written for a call

ASSUME CliAssumption ==
    /\ Declared \in [Tool -> [command : BOOLEAN, access : STRING, timeout : Int]]
    /\ Default \in Int /\ ExecMaxTime \in Int /\ MaxFiles \in Nat

VARIABLES
    config,    \* the skill's file and the machine it is loaded on
    mode,      \* security.execution_mode
    inRoot,    \* whether security.working_dir is under ~/.onlyagents
    skill,     \* CLISkill.commands once it is built
    cliCall,   \* the state of each call
    child      \* the child process of each call, whether somebody holds its
               \* output, whether one it has started lives on without it
               \* ("loose"), and the files of the call's output directory

cliVars == <<config, mode, inRoot, skill, cliCall, child>>

Ended == {"answered", "failed"}

\* The files by who wrote them - the child and those that share its output, or
\* a loose process - and those in sub-directories, whoever wrote them.
FileKind == {"shared", "loose", "below"}
NoFiles == [k \in FileKind |-> 0]

CliInit ==
    /\ config \in [enabled : BOOLEAN, type : {"cli", "other"},
                   missing : BOOLEAN, onMissing : {"disable", "warn", "error"},
                   level : Levels]
    /\ mode \in {"native", "restricted"}
    /\ inRoot \in BOOLEAN
    /\ skill = [built |-> FALSE, commands |-> <<>>]
    /\ cliCall = [c \in CliCall |-> [at |-> "idle"]]
    /\ child = [c \in CliCall |-> [is |-> "none"]]

(* ------------------------------- the skill ----------------------------- *)

\* levels[...] in Go: a level that is not in the map counts as 0.
Rank(level) ==
    CASE level = "read" -> 1 [] level = "write" -> 2 [] level = "admin" -> 3
      [] OTHER -> 0

accessPermits(granted, required) == Rank(granted) >= Rank(required)

\* What a tool is with its defaults filled in.
Entry(t) ==
    [Declared[t] EXCEPT !.timeout = IF @ = 0 THEN Default ELSE @,
                        !.access = IF @ = "" THEN "read" ELSE @]

Commands ==
    LET usable == {t \in Tool : /\ Declared[t].command
                                /\ accessPermits(config.level, Entry(t).access)}
    IN  [t \in usable |-> Entry(t)]

\* Only an enabled skill has a template, only "cli" names this factory.
HasFactory == config.enabled /\ config.type = "cli"

BinsAreThere == ~config.missing \/ config.onMissing = "warn"

NewCLISkill ==
    /\ ~skill.built
    /\ HasFactory /\ BinsAreThere
    /\ skill' = [built |-> TRUE, commands |-> Commands]
    /\ UNCHANGED <<config, mode, inRoot, cliCall, child>>

(* ------------------------------- the calls ----------------------------- *)

Fail(c) == cliCall' = [cliCall EXCEPT ![c] = [at |-> "failed"]]

resolveTimeout(t) ==
    CASE t > 0 -> t
      [] t <= 0 /\ ExecMaxTime > 0 -> ExecMaxTime
      [] OTHER -> 2 * Default

\* The output directory is made, then the working directory is looked at.
ExecuteTool(c, t) ==
    /\ skill.built
    /\ cliCall[c].at = "idle"
    /\ IF t \notin DOMAIN skill.commands \/ ~inRoot
       THEN Fail(c)
       ELSE cliCall' = [cliCall EXCEPT ![c] =
                        [at |-> "running",
                         left |-> resolveTimeout(skill.commands[t].timeout),
                         cancelled |-> FALSE]]
    /\ UNCHANGED <<config, mode, inRoot, skill, child>>

Running(c) == cliCall[c].at \in {"running", "draining"}

\* The context of the call is done: its time is up, or the agent's is.
Over(c) == cliCall[c].left = 0 \/ cliCall[c].cancelled

StartCommand(c) ==
    /\ Running(c) /\ child[c].is = "none"
    /\ child' = [child EXCEPT ![c] =
                    IF Over(c) THEN [is |-> "refused", held |-> FALSE]
                    ELSE [is |-> "running", held |-> TRUE, loose |-> FALSE,
                          files |-> NoFiles, late |-> FALSE]]
    /\ UNCHANGED <<config, mode, inRoot, skill, cliCall>>

Alive(c) == child[c].is \in {"running", "exited", "killed"}
Sharing(c) == child[c].is = "running" \/ child[c].held

\* The child, or a process it has started, writes into the output directory.
Works(c) ==
    /\ Alive(c)
    /\ \E kind \in FileKind :
           /\ CASE kind = "shared" -> Sharing(c)
                [] kind = "loose"  -> child[c].loose
                [] kind = "below"  -> Sharing(c) \/ child[c].loose
           /\ child[c].files[kind] < MaxFiles
           /\ child' = [child EXCEPT ![c].files[kind] = @ + 1]
    /\ UNCHANGED <<config, mode, inRoot, skill, cliCall>>

\* A process it has started closes or redirects its output, and lives on.
Detaches(c) ==
    /\ Alive(c) /\ Sharing(c)
    /\ child' = [child EXCEPT ![c].loose = TRUE]
    /\ UNCHANGED <<config, mode, inRoot, skill, cliCall>>

\* It ends, and leaves its output to another process or to nobody. When the
\* context ends before it is reaped, the kill still succeeds and Run returns
\* the context's error.
Exits(c) ==
    /\ child[c].is = "running"
    /\ \E held \in BOOLEAN, late \in IF Over(c) THEN BOOLEAN ELSE {FALSE} :
           child' = [child EXCEPT ![c].is = "exited", ![c].held = held,
                                  ![c].late = late]
    /\ UNCHANGED <<config, mode, inRoot, skill, cliCall>>

LetsGo(c) ==
    /\ child[c].is \in {"exited", "killed"} /\ child[c].held
    /\ child' = [child EXCEPT ![c].held = FALSE]
    /\ UNCHANGED <<config, mode, inRoot, skill, cliCall>>

\* exec.CommandContext: a context that is done kills the child, and what
\* the child has started lives on.
Killed(c) ==
    /\ Running(c) /\ Over(c)
    /\ child[c].is = "running"
    /\ \E held \in BOOLEAN :
           child' = [child EXCEPT ![c].is = "killed", ![c].held = held]
    /\ UNCHANGED <<config, mode, inRoot, skill, cliCall>>

RunReturns(c) == child[c].is \in {"exited", "killed", "refused"} /\ ~child[c].held

\* The kind of error that is not an exit code.
isExitError(c) == child[c].is # "refused" /\ ~child[c].late

\* What lies in the directory itself: sub-directories are passed over.
scanOutputDir(c) == [child[c].files EXCEPT !["below"] = 0]

\* The result of Run becomes the answer. A child that was killed has an exit
\* code like any other, -1. A scan that fails is logged, and the answer is
\* the same without files.
Answer(c) ==
    IF isExitError(c)
    THEN \E scanned \in BOOLEAN :
             cliCall' = [cliCall EXCEPT ![c] =
                         [at |-> "answered",
                          killed |-> child[c].is = "killed",
                          scanned |-> scanned,
                          files |-> IF scanned THEN scanOutputDir(c) ELSE NoFiles]]
    ELSE Fail(c)

Reports(c) ==
    /\ cliCall[c].at = "running" /\ RunReturns(c)
    /\ Answer(c)
    /\ UNCHANGED <<config, mode, inRoot, skill, child>>

\* Bug: restricted mode without waiting for the goroutine.
LeavesAtOnce(c) ==
    /\ mode = "restricted"
    /\ cliCall[c].at = "running" /\ Over(c)
    /\ Fail(c)
    /\ UNCHANGED <<config, mode, inRoot, skill, child>>

\* Restricted mode: the context is seen before the result.
SeesTheContext(c) ==
    /\ mode = "restricted"
    /\ cliCall[c].at = "running" /\ Over(c)
    /\ cliCall' = [cliCall EXCEPT ![c].at = "draining"]
    /\ UNCHANGED <<config, mode, inRoot, skill, child>>

Drains(c) ==
    /\ cliCall[c].at = "draining" /\ RunReturns(c)
    /\ Fail(c)
    /\ UNCHANGED <<config, mode, inRoot, skill, child>>

runIsolated(c) == SeesTheContext(c) \/ Drains(c) \/ Reports(c)

\* A second of the call's time passes, or the agent's context is cancelled.
TimePasses(c) ==
    /\ Running(c) /\ cliCall[c].left > 0
    /\ cliCall' = [cliCall EXCEPT ![c].left = @ - 1]
    /\ UNCHANGED <<config, mode, inRoot, skill, child>>

Cancelled(c) ==
    /\ Running(c) /\ ~cliCall[c].cancelled
    /\ cliCall' = [cliCall EXCEPT ![c].cancelled = TRUE]
    /\ UNCHANGED <<config, mode, inRoot, skill, child>>

CliNext ==
    \/ NewCLISkill
    \/ \E c \in CliCall :
           \/ \E t \in Tool : ExecuteTool(c, t)
           \/ StartCommand(c) \/ Works(c) \/ Detaches(c) \/ Exits(c) \/ LetsGo(c)
           \/ Killed(c) \/ runIsolated(c)
           \/ TimePasses(c) \/ Cancelled(c)

CliSpec == CliInit /\ [][CliNext]_cliVars

(* ------------------------------ properties ----------------------------- *)

\* An answer is final (executor.go, executor_linux.go "drain"): whatever the
\* time-out and the child do to each other, once a call has ended its child
\* does not run any more and nobody holds its output; and a result whose
\* output directory could be scanned lists every file that they put there,
\* and of those of loose processes none that is not there. What a loose
\* process writes later, a sub-directory and a scan that failed are not in it.
AnswersAreFinal ==
    \A c \in CliCall :
        cliCall[c].at \in Ended =>
            /\ child[c].is # "running"
            /\ child[c].is \notin {"none", "refused"} => ~child[c].held
            /\ cliCall[c].at = "answered" /\ cliCall[c].scanned =>
                   /\ cliCall[c].files["shared"] = child[c].files["shared"]
                   /\ cliCall[c].files["loose"] <= child[c].files["loose"]
=============================================================================
