# OnlyAgents in TLA+

OnlyAgents is a Go program in which LLM agents serve the users of chat channels.
This directory holds TLA+ models of its parts, the TLC runs that check them on
small instances, and proofs, checked by TLAPS, that the most important
properties of its core hold for instances of every size.

## Reading guide

| module | what it is |
|---|---|
| `TaskGraph` | what the workflow engine promises, without bus, router or tables |
| `Workflow` | the workflow engine, its tables, the bus, the router and the kernel's workflow handlers |
| `WorkflowInvariant`, `WorkflowProofs` | the inductive invariant of `Workflow`, and its proofs |
| `CycleCheck` | `hasCycle`, the depth-first search that rejects cyclic workflows |
| `Delegation` | user messages, agents' event loops, turns, and delegation from one agent to another |
| `DelegationInvariant`, `DelegationProofs` | the inductive invariant of `Delegation`, and its proofs |
| `MessageHistory` | the messages of a session, the turns that write them, and the history a turn loads |
| `HistoryInvariant`, `HistoryProofs` | the inductive invariant of `MessageHistory`, and its proofs |
| `AgentTurns` | the execution loop: its limits, synthesis, the tools and groups that turns share |
| `TokenBudget` | the tokens of a turn: the next answer, the results, the window |
| `LLMStream`, `ProviderRequests`, `GeminiCache` | the clients of the providers: an answer, a request, Gemini's cached content |
| `Sessions` | the conversations of the kernel; `OAChannel` and `Telegram` extend it |
| `OAChannel`, `Telegram` | the two channels |
| `Attachments` | the way of files through a message |
| `Access` | login, sessions, limiter and passwords of the API server |
| `Lifecycle` | boot, run and shutdown of the kernel, and which agent gets which skill |
| `CronJobs` | scheduled workflows and delegations |
| `Reminders` | reminders, the job that sends them and the bus on their way to the channel |
| `Tasks`, `Planner` | the productivity skills: tasks and projects, calendar and notes |
| `SessionMemory`, `EpisodeCalendar` | from messages to episodes of sessions, days, weeks, months and years, in the zones of the user and the process |
| `Nexus`, `Recall` | the graph of entities; what the memory gives back |
| `Summaries`, `CliTool`, `Marketplace` | the summarize skill, tools that are commands, finding and installing skills |
| `ConfigFiles`, `Secrets` | the commands that write the configuration, file by file, and the way of an API key to its agent |
| `ChannelProofs` | the proofs about `Sessions`, `OAChannel`, `Telegram`, `TokenBudget`, `GeminiCache`, `Access` and `Lifecycle`, each with its inductive invariant |
| `ServiceProofs` | the same for `CronJobs`, `Nexus`, `Tasks`, `CliTool`, `SessionMemory`, `Recall`, `ConfigFiles`, `EpisodeCalendar` and `Secrets` |
| `TurnProofs` | the same for `AgentTurns`, `LLMStream`, `Attachments` and `Reminders` |
| `ToolProofs` | the same for `CycleCheck`, `Marketplace`, `Summaries`, `Planner` and `ProviderRequests` |
| `MCWorkflow`, `MCDelegation`, `MCMessageHistory` | symmetry sets |
| `MCAgents`, `MCChannels`, `MCServices`, `MCTools` | several models side by side, see below |

Operators whose comment begins with `Bug:` are not part of a model: each stands
before the definition it is a broken version of. With it in place, TLC finds the
property named in `PROJECT.json` violated, so the property does depend on that code.

**Models side by side.** `MCAgents`, `MCChannels`, `MCServices` and `MCTools` each
put several models into one run. They share no state (but for `Sessions`, on
which both channels are built): a variable `part` names the one that takes steps in
a behaviour, from all its initial states, and the others stay where they are. So a
run checks the sum of its models, not their product; a property of a model that does
not run holds of its initial states only. `MCServices` extends `MCTools`.

## Inventory

How the parts interact: every component writes events on one bounded channel, the
kernel bus. One goroutine, the router (`pkg/kernel/lifecycle.go`, `run`), takes
events off it and runs a handler to its end before it takes the next. Handlers
write to agents' inboxes, to channels, to the store, and the workflow engine's
back to the bus. Agents run their own loops and write to the bus. A request
may carry a reply channel, on which the answer bypasses the bus.

| component | state | operations | hard behaviour | what makes it correct |
|---|---|---|---|---|
| workflow engine (`pkg/workflow`, `storage/sqlite/workflows.go`) | rows of workflows and tasks | submit, validate, fire, complete, check completion | sends on the bus of its own goroutine; tasks with several dependencies; partial writes; restart | order, once-only, told once, completion means done |
| kernel (`pkg/kernel`) | the bus, registries | the router and about twenty handlers | a single consumer that also produces; blocking sends; panics recovered; boot and shutdown order | never wedged; nobody left waiting |
| agents (`pkg/agents`) | inbox, slots, turn locks, active tool groups, the tool list | event loop, execution loop, delegation, workflow submission, synthesis | concurrency by session; nested waits; timeouts; unsynchronised maps | one turn per session; every request answered; limits kept |
| scheduler, notifications (`pkg/scheduler`, `pkg/notify`) | cron entries, reminders sent | register, catch up, fire | boot before the router runs; send and mark are two steps | nothing lost or repeated across restarts |
| message history (`pkg/message`) | rows of messages, a lock per session | save, windowed history, sanitising | writers and readers of several agents | a tool call never without its result |
| sessions and channels (`pkg/conversation`, `pkg/channels`, `handlers_sessions.go`) | active conversation per channel, connected clients, placeholders | get, new, ensure, end; connect, send | stale ids, concurrent handlers, one place for several of them | one active conversation; answers reach their tab; nothing is left waiting |
| files (`pkg/media`, `telegram/media.go`) | attachments of a message, files produced in a turn | download, type, convert, send | every step may fail | every file is handed on or named |
| LLM budgets and providers (`pkg/llm`) | usage, caches at the provider | budgets, conversion, streams, caching | zero as "no limit"; streams that break off; a client shared by turns | the window holds; a request is accepted; an answer is whole |
| memory (`pkg/memory`) | episodes by session, day, week, month, year; entities, relations; patterns | detect sessions, summarise, catch up, ingest, recall | overlapping and missed runs, outages, concurrent ingests | nothing is forgotten; one entity per name; the best is recalled |
| UI bridge (`internal/ui`) | subscribers | subscribe, broadcast | full subscribers, a UI that is not there | the kernel never waits for the UI |
| API and authentication (`internal/api`, `internal/auth`) | sessions, attempts, the password file | log in, check, limit, change | expiry, clean-up, steps of several requests | a session lasts as long as it should |
| skills and connectors (`pkg/skills`, `pkg/connectors`) | rows of tasks, projects, events, notes, reminders; child processes | the tools of each skill | read, change and write back; time-outs | answers tell what was done |
| marketplace (`pkg/skills/marketplace`) | a cache of searches | search, install, convert | concurrent fills, similar queries | oldest goes first |
| command line (`cmd`, `internal/cmdutil`) | YAML files, `.env` | setup, enable, disable, edit | cut short at any point, run again | councils stay staffed; no secret is lost; every agent finds its key |
| vaults, logger, embedder, asset files | caches, files | adapters | external services | outside the models |

`PROJECT.json` lists the same components with their files, what is modelled of
each, and the hazards with the lines where they bite.

## The workflow engine

**State.** `flow` and `task` are the `status` columns of the two tables;
`tasksOf`, `dependsOn` and `template` are the definition a workflow was built
from. `bus` is the kernel bus, a sequence of events; `pc`, `evt` and `firing`
are where the router is inside a handler. `working` counts the executions an
agent has of a task. `given` and `told` are history variables: how often a task
was handed out, and how often the executive got a workflow's results.

**Actions.** `Submit` is the executive's `requestWorkflow` and `FireCron` the
scheduler. `Receive` takes an event off the bus; then one handler runs:
`SubmitWorkflow` (or `RejectWorkflow`), `InstantiateTemplate`,
`HandleTaskAssigned`, `HandleAgentExecute`, `TaskCompleted` or `TaskFailed`,
`HandleWorkflowCompleted`, `HandleSynthesize`. `HandleTaskCompleted` of the
engine is split at its sends, because the bus can fill up in between:
`TaskCompleted` stores the result and collects the dependents that are ready,
`FireTask` sends one `TaskAssigned` at a time, `CheckWorkflowCompletion` sends
`WorkflowCompleted`, `MarkCompleted` writes the status. A send of the engine
has no timeout, so these actions are simply not enabled while the bus is full,
and the router stays where it is. `Report` and `NoReport` are an agent that
ends a task with or without telling. Faults are actions of their own: each
write to the store can fail where the code handles it, a delivery can time out,
and `Restart` empties the bus and the agents and keeps the rows.

**Abstractions.** Ids are model values: the code draws UUIDs, so two
definitions share no id. Results, names and messages are left out. A dependency
may be `Foreign`, the id of no task, which validation accepts. Other traffic on
the bus is one kind of event, bounded by `MaxOther`.

**Runs.**

| run | what it asks | bounds |
|---|---|---|
| `workflow` | order, once-only and told once, under every fault | two workflows, four tasks, a bus of two events; enough for a template and its instance side by side, and for a full bus |
| `workflow_live` | the router is never blocked, every workflow that can finish does, and the engine implements `TaskGraph` | two workflows that share three tasks, so that one can be a chain, a fork or the join that is looked at twice; a bus with room for one event per task and workflow |
| `workflow_done` | the first disagreement below | the smallest that shows it |

**Fairness.** `ReliableSpec` has weak fairness of the router, which is a loop
that nothing disables but a blocked send, and of `Report`: an execution ends
within its five minutes.

## The cycle check

`CycleCheck` is the recursive `hasCycle` with its stack made explicit: `stack`
and `rest` are the calls and what each has left to look at, `visited` and
`recStack` the two maps. The iteration over Go maps is in random order, so
`Start` and `Descend` choose freely. A dependency may be an id that is no task
and whose entry in the map is nil. `Decides` says the answer is `cycle` exactly
when some non-empty set of tasks is such that each depends on one of the set, a
definition that shares nothing with the search. The run `services` checks it
with every graph over three ids: a cycle of each length, and an id
that is reached on two paths, one of them after it was searched.

## Delegation

**State.** A request is one `AgentExecute` event and the goroutine that handles
it; `req` is its payload and `stage` where it is: on the bus, in an inbox, taken
by `processEvents`, waiting for the turn lock, in its turn, waiting for a
delegation, or done with something left to send. `bus` and `evt` are the
kernel's, as above. `reply` is what is in the reply channel of a delegation,
`replies` and `said` count what was sent on it and to the user. `expired` are
the requests whose five minutes are over.

**Actions.** `UserMessage`, the router's `Receive`, `Deliver`, `DropMessage`,
`RefuseDelegation` and `ShowUser`; `Take` and `AcquireSlot` of the event loop;
`LockTurn`, `Delegate`, `GetReply`, `GiveUp`, `EndTurn`, `FailTurn` of the
execution loop; `RouteResponse`, `ReplyError` and `Apologise` of what follows. What
the LLM does in a turn is free within its tools: it can delegate to any agent,
itself included, or to one that does not exist, as a wait or as a handoff.

**Time.** Five-minute contexts are `Expire`. A delegation's context starts later than
its parent's, so it does not expire while the parent still waits on a live
context. The short waits (five seconds on a full channel) either find room or
give up: both are possible as long as the channel is full.

**Runs.**

| run | what it asks | bounds |
|---|---|---|
| `delegation` | one turn at a time, one reply, no wait in vain | three requests, two agents, two sessions, inboxes of one: a chain of two delegations, and messages that compete with them |
| `delegation_live` | every request ends and the user hears of every message | one agent that delegates to itself, with one slot and one session, so that each nested request needs what the outer one holds; a bus with room |

**Fairness.** `FairSpec` has weak fairness of the router, of each event loop and
of each request: a goroutine that can go on does, LLM calls end with their
context at the latest, and time passes.

`MaxConcurrency` is a positive number in every run. Its default is set under another key
(`agent.max_concurrency`, `config.go:157`) than the field is read from
(`max_concurrency`, `config.go:24`): an agent that does not set it has no
slots, and handles nothing.

## The message history

**State.** `rows` are the messages of one session, in the order of their
timestamps. `turn` are the requests there are at once, each queued at its agent,
in its turn, or answering after it; `calls` are the tool calls of the last
response that are still to be made. `used` are the ids of all tool calls there
have been, and `lost` those whose message could not be saved.

**Actions.** `UserMessage`, `DropMessage` and `Notify` are the kernel's;
`OtherRequest` stands for what reaches an agent without a row: a
delegation, a handoff, a workflow's task. `PrepareExecution` takes the turn
lock, `CallTools` and `ToolResult` are `processToolCalls`, `Respond` and `Fail` the
ends of the loop, `SaveAnswer` what is saved after the lock was released.
Each save can fail, which the code logs and goes on from; `Restart` keeps the rows.

**The history** is no variable but an operator of the rows, `History(r, a)`:
`Visible` is what the queries select, `Recent` the window, `Sanitize` the
sanitizer. The loop over a list with a look-ahead is written as the set of the
positions it keeps. The properties hold of the history an agent could load at
any moment, so they hold of the one it does load.

**Abstractions.** The ids of tool calls are fresh for every response, as the
providers make them. Timestamps are in the order of the writes: they are taken under
the lock of the session (as text they lack trailing zeros, see the hazards). No
message is removed: `DeleteOldMessages` has no caller.

**Runs.**

| run | what it asks | bounds |
|---|---|---|
| `history` | each call shown has its result, and exchanges do not mix, under every fault | two requests, two calls, four rows, a window of one turn: an exchange of two calls, another turn of the same agent or of another, a message in between; the proofs cover the rest |
| `history_dropped` | the second disagreement below | a window that is not reached |

## A turn and its LLM

**`AgentTurns`** is `runExecutionLoop` with `synthesizeFromContext`. Turns of one
session run one at a time, turns of different sessions together. They share two
things without a lock: `tools`, the agent's list, which a synthesis empties and puts back,
and `groups`, the groups each session has activated, which a turn clears
before it takes the turn lock. `stage` is where a turn is; `Arrive` and `TakeTurn`
begin it, `AskLLM`, `CallTools`, `NextCall` and the four kinds of tool call are the
loop, `OutOfIterations`, `OutOfCalls` and `EndSynthesis` its limits. `ToolsComeBack` and
`GroupsFollowTheTurn` say what holds of the shared state as long as the turns that
share it do not meet; `raced` and `disturbed` record that they did, and what the code
then does is in the model: a turn may lose its groups, a synthesis may bring back
an old list. `TurnsEnd` is liveness: whatever the LLM answers, the limits end a
turn. It is fair that the goroutine of a turn runs, and that a `sync.Mutex` serves
whoever waits for it (strong fairness: Go's mutex hands itself over after a
millisecond of waiting).

**`TokenBudget`** is the arithmetic of `budget.go` in the loop that uses it.
The cut of a result is that of `processToolCalls` (`tool_calls.go:131`), by bytes;
`EstimateTokens` and `TruncateToTokens` of `budget.go` have no caller. `BudgetsFit`: when all
results are in, messages and next answer fit the window but for `uncounted`, a history of the
tokens no budget looked at: all messages when no usage is reported (a stream's last chunk
carries none), results when their budget is zero, which means no limit, errors, which are not cut,
an answer beyond the safety margin, and a next answer for which there is no room. Each is a gap in
the code, and the behaviour in it is in the model: it is the sum of the gaps that the property bounds.

**`LLMStream`** is one call, by any of the three providers, streamed or not: an answer
the agent goes on with is the provider's whole answer (`AnswerIsWhole`). Gemini's streamed calls
come in the order of a Go map. **`ProviderRequests`** is what each provider is sent for
every history of up to three messages (`RequestsAreAcceptable`), and for every limit of a small
table with every number of tokens asked for; it asks that calls are followed by
their results, which `MessageHistory` provides. `Convert` is a turn of Anthropic's loop, in which results
wait (`pending`) for the next message of another role; the proof takes the bound on the length away. **`GeminiCache`** is the
cached content of the one client that all turns of an agent use: `CachesAreLive` holds as
long as no two requests overlap and no call of the cache API fails.

## Channels

**`Sessions`** is the table of conversations and the router's three handlers;
`OneActive` needs only that the store works. A failed look-up counts as "none
there", so a failing store leaves two active ones.

**`OAChannel`** adds browser tabs. A tab that asks for a new session makes three writes
(forget the old entry, take the new session, add the entry) that the router's sends come between;
a tab's deferred clean-up names the session the tab was opened with.
`AnswersFindTheirTab` relates the map to the tabs. Two connections on one session are the
exception, recorded in `shared`: the one that closes takes the entry of the other with it.

**`Telegram`** adds handlers, which run together. A chat has one placeholder and one
typing indicator, so two messages in a row leave one that is never removed
(`overlapped`, `disturbed`). All chats share one session. `ChatsAreServed` is that the
channel is in the session it asked for last, and that a quiet chat shows nothing
that waits. The link to Telegram itself, polling and webhook, is left out.

**`Attachments`** follows files both ways. Every failure leaves a note for the model
instead of the file, and `FilesAreHandedOn` counts them. Files of a sub-agent in an
ordinary delegation and of a synthesis reach nobody, and neither do those of an
answer without words; the property is about the turns that answered.

**`Access`** has one action per step of a login and of a change of password, because no lock is
held between them. Sessions end by their time, by log-out, by a change, or by a restart,
and by nothing else; and dropping an idle limiter changes nothing for its
address, which holds because its idle time and the refill are tuned to each other. Counting
sessions and creating one are two steps, so there can be more than the
maximum, and a login under way survives a change of password.

## Boot and shutdown

`Lifecycle` has a phase per step of `Kernel.New`, `Run` and `Shutdown`, and the
state of each part. The parts are started by the loops of `Kernel.Run`
(`kernel/lifecycle.go:16`), one after the other; the registries' own `StartAll` has no caller.
A skill's template may name a default connector, and a binding one of its own, that the
configuration does not enable: `validateSkillBindings` refuses some of these, `resolveConnector`
skips the others, and the general agent goes without the skill. `LifeInOrder`: a kernel that
serves has all parts up, the executive knows what the others have, and every skill is with the
specialists bound to it or else with the general agent, or with nobody, if it cannot be made or its default
connector is not enabled; a connector or the scheduler is stopped only after all that could call
it, and the store last, but for parts whose stop failed or whose wait timed out, which are `left`. The exceptions are
what the code does: the context is cancelled before `Shutdown` begins, so the drain period is
over at once and events on the bus are lost; an error after `Run` ends the program without
`Shutdown`; the scheduler's running jobs are not waited for (so they are no part). Starting the
workflow engine, which reads its rows again, is in `Workflow`.

## Scheduled work

**`CronJobs`**: the executive sends a template and then its job as two events, `submitWorkflow`
and `submitCronJob`; the router stores and registers a job in two steps; a boot
registers every row. `ScheduledWorkRuns`: one entry per row with a good
schedule, and a scheduled workflow that fires finds its template, through crashes
and full buses. **`Reminders`**: runs of the job, agents that change reminders, the bus, the
router's `handleOutboundMessage`, errors and crashes. `SendAlert` puts an alert on the bus, which is memory,
and `MarkReminderSent` marks the row at once (`notify/reminders.go:29`); whether the channel took it is known
only afterwards, and only to the log. So a reminder may go out twice (a crash between the put and the mark), and one may be
lost: by a restart with its alert on the bus, or by a channel that refuses it (`Restart`, `OutboundFails`, recorded
in `dropped`). `DueGoesOut` says that these are the only ways: a due reminder reaches the user (`shown`), or is
deleted or put off, or its row is marked and its alert was lost. It is liveness under fairness of the job's
goroutine, of the cron engine and of the router, which takes what is on the bus.

## What agents keep for the user

**`Tasks`** and **`Planner`**: a tool reads a row, changes the copy and writes it back, so
calls interleave. `createTask` looks the project up and `InsertTask` inserts the row, with a deletion of the project
possibly in between: it is the foreign key that keeps a task's project there; a free slot is
free and every free time is in one, in whatever order `ListEvents` gives the events that start together;
what was deleted stays so. Lost updates
happen: `updateTask` over `CompleteTask` leaves a completed task in progress.

**`SessionMemory`**: `NothingIsForgotten` holds of runs that do not overlap. The clock is in
quarters of an hour, the interval of the job. **`EpisodeCalendar`** has the clocks the code has: days are cut in the user's zone
(`summarize_utils.go:18`), jobs fire in the process's (`cron.New()`, `scheduler.go:29`), as do months and years, and
what the store gives back is in UTC; `zone` says how far the last two are ahead of the first. Weeks have two days, two months
three days and one. `DaysAreKept` relates sessions to daily episodes over outages and zones: those of yesterday that had
their episode before the daily job (`had`) are in a daily episode. Where the zones are the same that is all of the day but its last
minute; where they differ, sessions after the job are in no daily episode, and catch-up, which finds one for the
day, does not look again. A start after the job of its day is too late for the job and too early for the catch-up
(`missed`). In these bounds every job and catch-up runs except that a weekly catch-up never finds its own episode, which is
so in the code: it looks from a second after its start. Clocks do not change in the model: where they do, the
episode's ID, the UTC date of a local midnight, may be that of another day. **`Nexus`**: ingests
whose statements interleave; the unique index keeps an entity one. **`Recall`**: the best
of what every source gives back is recalled, the sources' own limits included, and a
prompt's text of recent sessions is at most an hour behind.

**`Summaries`**: parts are summarised in parallel, in any order, and merged in batches.
`SummaryIsWhole` is about texts as sequences of places: nothing missing, doubled or
out of order. **`CliTool`**: a call, its child and what the child started, in both
modes, with the time-out at any moment. A process that shares the child's output is waited for; one that closed
or redirected it (`Detaches`) is neither killed nor waited for, and writes on, after the end of the call too.
The scan of the output directory passes sub-directories over (`cli.go:227`), and when it fails the answer is the same, without files
(`cli.go:166`). `AnswersAreFinal`: when a call has ended, its child is over and nobody shares the output, and
if the directory could be scanned the answer has every file these left in the directory itself. **`Marketplace`**: two searches on one cache.

## Commands

In both models a command is a list of writes, planned when it starts, and may be cut short before, between or
inside them; a file is written by truncating it first (unless it is appended to), so a write cut short leaves it empty.

**`ConfigFiles`**: `CouncilsAreStaffed` over any order of commands that enable and disable parts that
councils share. What disabling a council protects is planned as a `keep`, which the loop passes
over without a write. `CouncilInfo` asks of an agent only whether its file exists (`AgentExists` is `os.Stat`, `agent.go:155`), of a
skill or connector whether it parses: an agent's file that a write left empty shows as there and not enabled under an enabled
council, which the property excepts (`Emptied`) and the model shows.

**`Secrets`**: the files of a context, the lines of `.env`, and the agents' files with their provider and the path of their key. `writes` is what the
running step has left: `SetupFileWritten` and `AgentWritten` do the next, `SetupFileFails` and `AgentFails` are a write
that fails or a program that ends in it, with the file as it was or empty. The failure of an agent's
file in the wizard is a warning (`setup.go:335`): the loop goes on, and that agent's choice is void.
What is looked for before a line is added is the name anywhere in the text (`strings.Contains`, `setup.go:323`), so a key whose name is within
another's, or was glued to a line, is not added (`Holds`). `SetupIsSafeToRerun` is an action property: no step or command,
abandoned, failing or cut short, costs a secret that could be read, a login, a profile, a vault or an agent's file, but for the one
file whose write failed, and for the last line of an `.env` without a newline, to which the next is glued; and when all is
written, an agent has the provider last chosen for it. What a cut-short run leaves behind is in the model: `vault.yaml` without
`.env` passes for a vault that is set up, and an agent's empty file is neither copied again nor listed.

## The runs with several models

| run | models | bounds and what they allow |
|---|---|---|
| `agents` | `AgentTurns`, `Reminders` | two turns in one session or two, two iterations, two calls: a synthesis next to a turn, a race on the groups; two reminders over three steps, a bus and one fault, which is what it takes to lose an alert |
| `channels` | `Lifecycle`, `Sessions` with `OAChannel` and with `Telegram`, `Attachments`, `Access`, `LLMStream`, `GeminiCache`, `ProviderRequests`, `TokenBudget` | two tabs, two conversations: a new session while another tab resumes the old; two messages in one chat, with a notification; two browsers behind one address and one allowed session; two skills, one specialist, and a connector that nobody enabled; two turns on one cache; windows of up to 30 tokens |
| `services` | `CronJobs`, `Tasks`, `Planner`, `SessionMemory`, `Nexus`, `Recall`, `CycleCheck`, `EpisodeCalendar`, `ConfigFiles`, `Secrets`, `Summaries`, `Marketplace`, `CliTool` | two actors of each kind, so that each read and its write can be separated; one or two faults; zones half a day apart, either way; two sessions, which end up to a step before they are stored; one failed write, and an `.env` of four lines, one key's name within another's; one command call, with two files of each kind; texts that need two passes of merging; a cache of two with four queries |
| `setup_keys`, `skill_converted` | `Secrets`, `ConfigFiles` | disagreements 3 and 4 below |

`agents` is fair as said above. The others state safety only. Deadlock is not checked in
them: calls, turns and reminders are finite in number, and a model with none left stops.

## Where the code and its documents disagree

Each of the first four is a run.

1. *"It will fire WorkflowCompleted when ALL tasks done"* (`handlers_workflow.go:51`). The
   engine's sends are made by the only receiver of the bus. When the bus is full
   they block the router, and with it the whole kernel, for good (`DoneIsAnnounced`).
   `WedgedForGood`, proved in general, says there is no way out of it;
   `NeverWedged` that a large enough bus avoids it.
2. *"agents' turn lock should prevent these from occurring"* (`message/utils.go:88`).
   A message the user sends while a tool runs is saved between the call and its
   result; the sanitizer then drops both, although nothing failed (`TurnLockSuffices`).
3. *"Each agent can use a different provider"*, *"Keys will be written to your .env file"*
   (`cmd/setup.go:224`). The wizard takes the path of the key, and whether it is set, from the
   provider the agent had before (`AgentsHaveTheirKeys`).
4. *"ready to be written to disk"* (`skills/cli/converter.go:23`). The fence the model may put around its
   answer is taken off for the parser only (`ConvertedSkillsLoad`).

Others show in the models as what the code does, without a run of their own:

- *"completed, failed, cancelled"* (`types.go:59`): a failed workflow is never announced.
- *"Sub-agent returns to executive"* (`tools/executive.go:14`): a delegated agent that fails
  also apologises to the user. *"no second LLM call"* (`ARCHITECTURE.md:157`): after a handoff the
  loop goes on. A handoff the kernel refuses is lost.
- *"Tasks in this project become unassigned"* (`tools/tasks.go:17`): the foreign key refuses to delete the project.
- *"All existing sessions have been invalidated"* (`cmd/auth.go:65`): not those of a running server.
- *"checks if content or tools have changed"* (`gemini/utils.go:251`): their number is compared.
- *"delivered via the agent's channel"* (`productivity/reminder/store.go:20`): the row is marked before the channel is asked, so
  an alert that a restart or the channel loses is never sent again. Nor is a sent reminder that is given a new time: `sent_at` stays.
- *"all times are local to the configured timezone"* (`memory/summarize.go:15`): jobs fire in the process's. With another zone, the
  sessions after the job are in no daily episode. The year of the last yearly episode is compared in UTC (`YearlyCatchUp`), so for a user
  ahead of UTC every start summarizes it again.
- *"memoryInitializer is the last initializer"* (`kernel/initializer.go:53`): the prompts' comes after it.

## What is proved

All proofs are for every value of the constants, from the assumption that each model states
about its constants. Most say no more than that sizes are natural numbers and special ids are no
ordinary ones. Those that say more, and why the code justifies it:

- `AccessAssumption`: `Burst <= IdleFor + 1`. An address is dropped when it has been idle for an
  hour (`ratelimit.go:60`); its bucket holds five attempts and refills one a minute (`cmd/start.go:240`).
- `RecallAssumption`: a source gives back as many rows as a recall at least (`MaxTotal <= MaxPerSource`, both
  are ten, `memory/engine.go:33`), and a prompt's text is kept for less time than it looks back (`KeptFor <
  RecentFor`, an hour and a day, `memory/manager.go:107`).
- `CliAssumption`, `ConfigAssumption`: what is declared in a file has the type the parser gives it, and
  files of councils, agents and skills are different files, since they are in directories of their own.
- `LifeAssumption`: connectors, channels and agents are in registries of their own; a template without a connector
  section names no connector; `Disabled` are those that are not in the registry. `NexusAssumption`: the special names are names.
- `CalendarAssumption`: months follow each other, and a zone is any whole number of steps ahead.
- `BudgetAssumption`: the window has at least ten tokens.
- `TurnsAssumption`: the tools of the boot are finitely many.
- `MarketAssumption`, `SummariesAssumption`: the cache has room for an entry, a part of a text for a character,
  and a merge for a summary; the code's are constants (`cache.go`, `summarize.go`).
- `PlannerAssumption`: events and notes have ids of their own, which two tables give.
- `RequestsAssumption`: a model's limit has room for the budget of thinking, and what an agent's file says is
  within it; the first is so in the tables of models, the second is checked (`llm/base.go:32`).
- `RemindersAssumption`: the bus holds an event at least (`BusBufferSize`); the bounds on time and faults are any.
- `SecretsAssumption`: the agents of the wizard are a sequence, with repetitions or without; a key's name is within
  itself, and which names are within which is open; the numbers of lines and of failures are any.
- `RoomIsEnough` alone has a hypothesis of its own, the size of the bus.

**`WorkflowProofs`.** No row says that a task has been assigned, so that it is
assigned once has to follow from where its event is. The invariant (`OnePlace`,
`Stages`, `Rowed`) says that from the moment its dependencies are done, a task
has one event, which is on the bus, with the router, about to be sent, or with an
agent, until it is lost or its result is stored. `Planned` and
`WholeOnly` say that events are only about workflows whose rows are all there; `ResultInv`
does for the announcement what `OnePlace` does for tasks. From
it follow `DependencyOrder`, `HandedOutOnce`, `ToldOnceWhenDone`,
`CompletedMeansDone`, `OnlyWholeWorkflowsRun`, `ResultsAreKept` (three that no run
repeats) and the refinement `ImplementsTaskGraph`. `WedgedForGood` needs only
that workflows share no tasks. `RoomIsEnough` is its counterpart, `NeverWedged` for every
bus with room for one event of each task, one of each workflow and the other traffic. A task's event is
on the bus once (`OnePlace`); that a workflow's is takes `PlansFit`: its plan is there only while
it has no row, a firing only while it is a template with one, and its results only when its
tasks are done. When the engine is about to send, the task it sends or the workflow it announces has
nothing on the bus, so there is a place left. The run `workflow_live` has a bus of this size.

**`DelegationProofs`.** A request is in one place at a time, the one its stage names
(`CarriersAreTrue`, `CarriedOnce`, `InboxesAreTrue`), so it is handled once and replied to once,
at its end (`RepliedAtTheEnd`). `WaitsForItsOwn` relates a waiting request to
its delegation. From it follow `TurnsAreSerial`, `OneReply` and `ReplyIsComing`.

**`HistoryProofs`.** `CallsAreAnswered` needs only that a message with tool calls is an
assistant's: the sanitizer sees to it, whatever the rows are. That a result has
its call is another matter, for the sanitizer does not compare a result with
the calls before it: it keeps every tool row behind a message whose calls are answered.
What makes it right is the order of the writes, `ExchangesDoNotMix`: under the
turn lock an agent saves nothing between a response and its results but these
results, and what others save in between ends the run of tool rows. It needs
`TurnsFollowTheirResponse`, which relates the calls a turn still has to make to the row they
are in. `HistoryOnlySlides` follows from the shape of the window: what is visible after a row
in it is in it (`WindowIsUpwardClosed`), and a longer table's window takes in no old row
(`WindowMovesOn`).

**`TurnProofs`.** `ToolsComeBack`: outside a synthesis the agent has the tools of its boot, and
during one the turn that took them away holds them, as long as there is only one (`ToolsAreKept`).
`GroupsFollowTheTurn` needs `AloneInSession`: a turn that met no other has no companions, and has
picked nothing before it is in the loop. `OneTurnOfASession` is not in a run: the turn lock of
`execution.go` admits one turn at a time. `AnswerIsWhole` (`AnswersAreWhole`) follows how far each side is:
while the client reads, the agent has what was sent but for the one chunk under way, no call has been completed
twice, and Gemini's calls come after all else in an order that has each once
(`ReadingFits`, `EndFitsStream`, `CallsDiffer`, `OrderedCalls`). `FilesAreHandedOn` (`FilesArriveOnce`) has two
halves: a turn's prompt has one part per attachment (`OnePart`, `PromptFits`), and what was sent is the files of the turns that
answered with words, which are what their calls wrote, each under a name of its own (`ProducedFits`, `SentFits`).
`NoReminderIsLost` is the safety half of `DueGoesOut`: a due reminder the user has not seen is on the list of the next
run, or its alert is on the bus, or a fault lost it from there after its row was marked. A row is due until it is marked, the run that
marks it has put it on the bus before, and what is no more on the bus was shown or dropped (`SentFirst`). It is in no run.

**`ChannelProofs`.** Both channels keep `OneActive`, whatever their handlers ask for, since the
router's three handlers are the only writers of the rows (`OnlyActive` is a lemma about each of them,
and used for both). `AnswersFindTheirTab` needs that an entry whose tab is
connected is the entry of that tab's session, that the sessions two tabs use, by their map or by
their deferred clean-up, are in `shared`, and that a reply is there when a tab takes it (`WebSound`).
`ChatsAreServed` is proved in two halves. `RequestsFit`: while requests for a session do not overlap there
is one on the bus, in the reply channel, or none, and what the channel holds, or is about to take,
is the latest. `ChatFits`, of a chat nothing disturbed: one message at a time is with its
handler, on the bus or owed an answer, in this order, and the placeholder and the typing
indicator are that message's. `BudgetsFit` is an inequality kept by every result (`BudgetRoom`): messages,
the results still missing at their budget, and the next answer are within the window and what no budget counted; it needs no
hypothesis on usage, budgets or answers. `CachesAreLive`
follows from where the one request is between deleting the old cache and sending (`NamesFit`);
`AccessIsKept` from comparing the store with the history of uses (`SessionFits`) and a bucket
that was dropped with a full one (`LimiterFits`). `LifeInOrder` is an invariant by phases: what has been
loaded, started and stopped by each of them (`Loaded`, `Started`, `Stopped`, `Opened`, `Skilled`); that a skill is with
nobody only for the reasons it names follows from what `validateSkillBindings` lets pass (`TemplatesFit`).

**`ServiceProofs`.** `ScheduledWorkRuns`: a template's event is before its job's on the
bus, or the template is there (`EventFits`), and between a row and its entry there is the one job the router is
registering (`JobFits`). `OneEntityPerName` needs the unique index for `NamesAreUnique` and, for the
references, that no row of an entity goes (`Known` only grows), so that what an ingest looked up before another's
statements is still there. `TasksAreSound`: the count of a batch is asked = failed + created
+ to do (`CallFits`), and a task's project cannot be deleted under it. `AnswersAreFinal`
follows the child of a call and those that share its output, until `cmd.Run` returns (`ChildFollows`); a loose process only adds files. `NothingIsForgotten` is the longest: the sessions
a run has in hand follow each other, each begins at or after the end of the last stored one, and all that was said before
one is stored or in a part before it (`SessionFitsIn`, `AllStored`); so storing them in order leaves
no gap, and an error leaves only later ones out. `MemoriesAreRight`: a row that a source held back is
outdone by as many of its own rows as are recalled in all (`CutIsEnough`), so that no cut of a
source changes the best. `CouncilsAreStaffed` needs what a command
under way still has to write: enabling has every part that is off among its writes, before the council
itself (`EnablingFits`); disabling switches off no part that another council claims (`DisablingFits`); a part that is
then off was switched off by hand, or its file is empty.
`DaysAreKept`: a daily episode is made when the job of its day comes in the process's zone, or later, so it is of all sessions in
time (`DailiesFit`), and what is still to do is the job of today or the catch-up on yesterday (`DaysFit`). `JobTime` is in the day for
any zone (`TheJobComes`), so the argument is the same for all of them.
`SetupIsSafeToRerun` (`SetupRerunsSafely`) is about the first value of a key that is not empty (`FirstLine`): lines that come later
cost nothing (`MoreLines`), but for the line they are glued to (`Spoiled`), and neither do several of them in
an open order (`AppendedAllFits`). The invariant relates what a step has left to write to the files there are: the `.env` it
will write loses no secret of the one on disk (`NothingLost`) and is the last of its files (`EnvIsLast`), and an agent whose
choice was made has it in its file or among the writes (`ChoicesFit`).

**`ToolProofs`.** `hasCycle` first: `SearchInv` says that what is on the recursion stack is the
stack, a path of dependencies, and that what is visited and no longer on it depends only on what
is visited. When the search ends with no cycle, every set of tasks closed in the sense of
`Decides` would have a first member to be left, which is impossible; when it finds
one, the path from the dependency to the top of the stack is such a set.
`OldestGoesFirst`: the list of the cache is the history of uses restricted to what is cached (`OrderFits`); a hit
moves an entry to the end of both, an eviction takes the first of the list, an expired entry leaves both.
`SummaryIsWhole`: what a text tells, its parts tell one after the other (`ToldConcat`), trimming takes away nothing
that is told (`Trimmed`), and after each round of `CutOff` the parts that are done and the rest tell of the whole
text (`SplitFits`); while parts are merged, those merged and those still to merge are, joined, the same
(`InPlace`, `Merging`). `PlannerStaysSound`: the cursor is the furthest end of the events before (`CursorIs`), so the
slots so far are the free time up to it (`FreeIs`, `FreeTime`), for any listing by start; that there is one is
`EveryWindowIsListed`, since a finite set of rows can be sorted (`OrderExists`). That what was deleted stays so needs that a draft
is of a row that is or was there (`DraftFits`). `RequestsAreAcceptable`: what was sent and what waits is what the first messages
own of calls and results (`Delivered`), and if the last message sent has calls, the waiting results are those of
the messages behind it, no more than it has calls (`Awaits`). Two messages with calls do not share results, so
when a message of another role or the end comes, all of them wait, and the flush settles it (`FlushSettles`).
OpenAI's and Gemini's messages carry the history's one for one (`Fits`).

**Recursion.** A definition over data is a recursive function here (`f[n]` from `f[n - 1]`), and the theorems of the library
that do induction take operators as parameters, which the provers cannot instantiate. The proofs do
without: the values up to any place exist (`ValuesExist`), so `CHOOSE` picks a function that has the equation; and of
the places where a claim about it fails there would be a smallest (`Smallest`), which the equation rules out.

**Only model-checked**:

- liveness (`WorkflowsFinish`, `RequestsEnd`, `UserHears`, `TurnsEnd`, `DueGoesOut`), which needs
  fairness and `ENABLED`, out of reach of the prover, and the violations;
- six type invariants that the proofs of their models do not need (`RequestTypeOK`, `PlannerTypeOK`, `RecallTypeOK`,
  `ConfigTypeOK`, `CalendarTypeOK`, `SessionMemoryTypeOK`). No cfg lists them: TLC found them true at the
  bounds of `channels` and `services`. The other type invariants are proved, alone or in an inductive invariant.

Every safety invariant and every action property that a passing run checks is a theorem.

## Not modelled

See `components` in `PROJECT.json`. Of what keeps state, these are left out:

- the UI bridge, a display with lossy buffers; that the router waits for it without a
  time-out (`handlers_agents.go:65`) is a hazard no property covers;
- the vaults' caches: each load has a cache of its own and nothing writes through it;
- Telegram's polling and webhook, the external connectors, email and web search: the
  behaviour is the service's;
- the extraction of patterns of behaviour, the daily digest, and how weekly and longer summaries are worded;
- migrations, the logger, the embedder, the copying of assets other than the agents' files, forms and listings.

The text of prompts, messages and summaries never matters to a property here. Times are numbers
in the models, while the store compares them as text without trailing zeros; that hazard is open too,
and so are plans of the LLM whose steps share an id.

## Plan

What is open: the refinement of `Delegation` and of `Reminders` to what they promise, a model of the other clients of the store, and
the hazards no property covers, above.
