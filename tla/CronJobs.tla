------------------------------ MODULE CronJobs ------------------------------
(***************************************************************************)
(* Work that the user asks to have done on a schedule: the executive's     *)
(* tool call, the events it sends, the row and the cron entry the kernel   *)
(* makes of them, the firing, and what a restart finds again               *)
(* (pkg/agents/executive_tools.go, pkg/kernel/handlers_cron_jobs.go,       *)
(* pkg/kernel/cron_jobs.go, pkg/scheduler, sqlite/jobstore.go).            *)
(*                                                                         *)
(* A job is one tool call with a schedule.  A workflow job needs two       *)
(* events, its template and then its cron job; a delegation needs one.     *)
(***************************************************************************)
EXTENDS Naturals, Sequences, FiniteSets

CONSTANTS
  Job,           \* the tool calls, named by the id of their cron job
  WorkflowJob,   \* those that create a workflow; the others delegate
  BadSchedule,   \* those whose schedule the cron engine cannot parse
  CronBusSize,   \* capacity of the kernel's bus
  MaxFirings     \* bound: firings of one job that wait for the bus together

ASSUME CronAssumption ==
  /\ WorkflowJob \subseteq Job
  /\ BadSchedule \subseteq Job
  /\ CronBusSize \in Nat \ {0}
  /\ MaxFirings \in Nat \ {0}

VARIABLES
  call,       \* where the tool call of a job stands
  cronBus,    \* events to the kernel: <<type, job>>
  saved,      \* the job that was saved and is not registered yet, at most one
  cronRows,   \* rows of cron_jobs
  templates,  \* rows of workflows that are templates
  refused,    \* templates the workflow engine did not accept
  entries,    \* entries of the cron engine, per job
  firings,    \* goroutines of the cron engine that wait for the bus, per job
  lastRun,    \* what came of the last firing that the kernel handled
  running     \* "no", "yes", or "deaf": up, but the rows could not be listed

cronVars == <<call, cronBus, saved, cronRows, templates, refused, entries, firings, lastRun, running>>

Calls == {"new", "parsed", "submitted", "done", "failed"}
EventTypes == {"WorkflowSubmitted", "CronJobScheduled", "WorkflowInstantiate", "AgentExecute"}
Outcomes == {"never", "started", "dropped", "no template"}

CronTypeOK ==
  /\ call \in [Job -> Calls]
  /\ cronBus \in Seq(EventTypes \X Job) /\ Len(cronBus) <= CronBusSize
  /\ saved \subseteq Job /\ Cardinality(saved) <= 1
  /\ cronRows \subseteq Job /\ templates \subseteq WorkflowJob /\ refused \subseteq WorkflowJob
  /\ entries \in [Job -> 0..2] /\ firings \in [Job -> 0..MaxFirings]
  /\ lastRun \in [Job -> Outcomes]
  /\ running \in {"no", "yes", "deaf"}

CronInit ==
  /\ call = [j \in Job |-> "new"]
  /\ cronBus = <<>> /\ saved = {} /\ cronRows = {} /\ templates = {} /\ refused = {}
  /\ entries = [j \in Job |-> 0] /\ firings = [j \in Job |-> 0]
  /\ lastRun = [j \in Job |-> "never"]
  /\ running = "yes"

Up == running # "no"
Send(event) == Len(cronBus) < CronBusSize /\ cronBus' = Append(cronBus, event)

(*************************** The executive's side ***************************)

\* A workflow with a schedule is parsed into a template; one that cannot be
\* parsed is an error of the tool.
parseWorkflow(j) ==
  /\ Up /\ call[j] = "new" /\ j \in WorkflowJob
  /\ \E outcome \in {"parsed", "failed"} : call' = [call EXCEPT ![j] = outcome]
  /\ UNCHANGED <<cronBus, saved, cronRows, templates, refused, entries, firings, lastRun, running>>

\* The template goes to the kernel before its cron job.
submitWorkflow(j) ==
  /\ Up /\ call[j] = "parsed"
  /\ Send(<<"WorkflowSubmitted", j>>)
  /\ call' = [call EXCEPT ![j] = "submitted"]
  /\ UNCHANGED <<saved, cronRows, templates, refused, entries, firings, lastRun, running>>

\* Then, or at once for a delegation, the cron job is sent with the event that
\* it will fire.
submitCronJob(j) ==
  /\ Up /\ call[j] = (IF j \in WorkflowJob THEN "submitted" ELSE "new")
  /\ Send(<<"CronJobScheduled", j>>)
  /\ call' = [call EXCEPT ![j] = "done"]
  /\ UNCHANGED <<saved, cronRows, templates, refused, entries, firings, lastRun, running>>

\* Either send gives up after five seconds, or when the request is cancelled:
\* a template that was sent stays without a job.
GiveUpSending(j) ==
  /\ Up
  /\ \/ call[j] \in {"parsed", "submitted"}
     \/ call[j] = "new" /\ j \notin WorkflowJob
  /\ call' = [call EXCEPT ![j] = "failed"]
  /\ UNCHANGED <<cronBus, saved, cronRows, templates, refused, entries, firings, lastRun, running>>

(**************************** The kernel's side ****************************)

\* The router takes the next event; it handles one at a time.
Handle(type, j) ==
  /\ Up /\ saved = {} /\ cronBus # <<>> /\ Head(cronBus) = <<type, j>>
  /\ cronBus' = Tail(cronBus)

\* The engine stores a template, or refuses it (see Workflow).
handleWorkflowSubmitted(j) ==
  /\ Handle("WorkflowSubmitted", j)
  /\ \/ templates' = templates \union {j} /\ UNCHANGED refused
     \/ refused' = refused \union {j} /\ UNCHANGED templates
  /\ UNCHANGED <<call, saved, cronRows, entries, firings, lastRun, running>>

\* SaveCronJob: the row is written, with the event as JSON.
handleCronJobScheduled(j) ==
  /\ Handle("CronJobScheduled", j)
  /\ cronRows' = cronRows \union {j} /\ saved' = {j}
  /\ UNCHANGED <<call, templates, refused, entries, firings, lastRun, running>>

\* One more entry for the job; a schedule that cannot be parsed is only logged.
Registered(es, j) == IF j \in BadSchedule THEN es ELSE [es EXCEPT ![j] = @ + 1]

\* Bug: the error is logged, and the job registered all the same.
RegisterUnsaved(j) ==
  /\ Handle("CronJobScheduled", j)
  /\ entries' = Registered(entries, j)
  /\ UNCHANGED <<call, saved, cronRows, templates, refused, firings, lastRun, running>>

\* The row could not be written: the job is forgotten, though the executive
\* told the user that it was created.
CronJobNotSaved(j) ==
  /\ Handle("CronJobScheduled", j)
  /\ UNCHANGED <<call, saved, cronRows, templates, refused, entries, firings, lastRun, running>>

RegisterDynamic(j) ==
  /\ Up /\ saved = {j}
  /\ saved' = {}
  /\ entries' = Registered(entries, j)
  /\ UNCHANGED <<call, cronBus, cronRows, templates, refused, firings, lastRun, running>>

\* The engine starts a goroutine for an entry that is due ...
Fire(j) ==
  /\ Up /\ entries[j] > 0 /\ firings[j] < MaxFirings
  /\ firings' = [firings EXCEPT ![j] = @ + 1]
  /\ UNCHANGED <<call, cronBus, saved, cronRows, templates, refused, entries, lastRun, running>>

\* ... which sends the stored event, however long the bus is full.
onFire(j) ==
  /\ Up /\ firings[j] > 0
  /\ Send(<<IF j \in WorkflowJob THEN "WorkflowInstantiate" ELSE "AgentExecute", j>>)
  /\ firings' = [firings EXCEPT ![j] = @ - 1]
  /\ UNCHANGED <<call, saved, cronRows, templates, refused, entries, lastRun, running>>

\* A template makes a workflow of its own; the engine may refuse that too.
handleWorkflowInstantiate(j) ==
  /\ Handle("WorkflowInstantiate", j)
  /\ \E outcome \in IF j \in templates THEN {"started", "dropped"} ELSE {"no template"} :
       lastRun' = [lastRun EXCEPT ![j] = outcome]
  /\ UNCHANGED <<call, saved, cronRows, templates, refused, entries, firings, running>>

\* A delegation goes to the inbox of its agent, if that has room.
handleAgentExecute(j) ==
  /\ Handle("AgentExecute", j)
  /\ \E outcome \in {"started", "dropped"} : lastRun' = [lastRun EXCEPT ![j] = outcome]
  /\ UNCHANGED <<call, saved, cronRows, templates, refused, entries, firings, running>>

(************************** The end and a new start **************************)

\* The process ends, in the middle of anything.
Crash ==
  /\ Up
  /\ running' = "no"
  /\ cronBus' = <<>> /\ saved' = {}
  /\ entries' = [j \in Job |-> 0] /\ firings' = [j \in Job |-> 0]
  /\ call' = [j \in Job |-> IF call[j] \in {"parsed", "submitted"} THEN "failed" ELSE call[j]]
  /\ UNCHANGED <<cronRows, templates, refused, lastRun>>

\* A boot registers every row, before the router runs.
loadCronJobs ==
  /\ ~Up
  /\ entries' = [j \in Job |-> IF j \in cronRows THEN Registered(entries, j)[j] ELSE 0]
  /\ running' = "yes"
  /\ UNCHANGED <<call, cronBus, saved, cronRows, templates, refused, firings, lastRun>>

\* Rows that cannot be listed are only logged: no job runs until the next boot.
JobsNotListed ==
  /\ ~Up
  /\ running' = "deaf"
  /\ UNCHANGED <<call, cronBus, saved, cronRows, templates, refused, entries, firings, lastRun>>

CronNext ==
  \/ \E j \in Job :
       \/ parseWorkflow(j) \/ submitWorkflow(j) \/ submitCronJob(j) \/ GiveUpSending(j)
       \/ handleWorkflowSubmitted(j) \/ handleCronJobScheduled(j) \/ CronJobNotSaved(j)
       \/ RegisterDynamic(j) \/ Fire(j) \/ onFire(j)
       \/ handleWorkflowInstantiate(j) \/ handleAgentExecute(j)
  \/ Crash \/ loadCronJobs \/ JobsNotListed

CronSpec == CronInit /\ [][CronNext]_cronVars

(******************************** Properties ********************************)

\* While the process runs, the cron engine has exactly one entry for each row
\* with a good schedule, whatever was stored, lost or started again before: a
\* job neither stops nor runs twice.  The row that is being registered, and a
\* boot that could not list the rows, are the exceptions.
JobsRunOnce ==
  Up => \A j \in Job :
          /\ entries[j] <= 1
          /\ entries[j] = 1 => j \in cronRows \ BadSchedule
          /\ running = "yes" /\ j \in cronRows \ (BadSchedule \union saved) => entries[j] = 1

\* A scheduled workflow that fires finds its template, unless the engine
\* refused that template: the template is stored before the job, through a
\* full bus, a crash between the two events and a restart.
TemplatesComeFirst ==
  \A j \in WorkflowJob :
    /\ j \in cronRows => j \in templates \union refused
    /\ lastRun[j] = "no template" => j \in refused

\* What is scheduled runs, once per firing, and finds what it is to run.
ScheduledWorkRuns == JobsRunOnce /\ TemplatesComeFirst
=============================================================================
