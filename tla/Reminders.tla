----------------------------- MODULE Reminders -----------------------------
(***************************************************************************)
(* Reminders: the skill that agents call, the table, the job that sends    *)
(* the ones that are due, and the router that shows them                   *)
(* (pkg/skills/reminders, pkg/connectors/local/reminders.go,               *)
(* sqlite/productivity.go, pkg/notify, kernel/handlers_messages.go).       *)
(* The cron engine runs the job every five minutes, in a goroutine of its  *)
(* own even when the last run still waits for the bus; a crash may come    *)
(* between any two steps.  The bus is a buffer in memory: what is on it is *)
(* marked as sent already, and is lost with the process.                   *)
(***************************************************************************)
EXTENDS Naturals, FiniteSets, Sequences

CONSTANTS
  Reminder,    \* ids of reminders, each given once
  Runner,      \* goroutines of the cron engine that may run the job together
  Editor,      \* agents that change reminders
  BusSize,     \* BusBufferSize: events that the bus of the kernel holds
  MaxTime,     \* bound: time, in steps of five minutes
  MaxTrouble   \* bound: errors of the store and the channel, and crashes

ASSUME RemindersAssumption == BusSize \in Nat \ {0} /\ MaxTime \in Nat /\ MaxTrouble \in Nat

VARIABLES
  reminders,   \* whether a reminder has a row: "new", "there" or "gone"
  dueAt,       \* the time it is due
  sentAt,      \* whether the row says that it was sent
  clock,
  job,         \* what a run of the job has to send still, and the one to be marked
  edit,        \* what an agent read and changed, and will write
  outbound,    \* the alerts on the bus, and the one the router has taken
  shown,       \* history: reminders that a channel took
  dropped,     \* history: reminders of which an alert was lost
  trouble

reminderVars == <<reminders, dueAt, sentAt, clock, job, edit, outbound, shown, dropped, trouble>>

Time == 0..MaxTime
NoJob == [todo |-> {}, mark |-> {}]
Existing == {i \in Reminder : reminders[i] = "there"}
Outbound == {outbound[n] : n \in DOMAIN outbound}

ReminderTypeOK ==
  /\ reminders \in [Reminder -> {"new", "there", "gone"}] /\ dueAt \in [Reminder -> Time]
  /\ sentAt \in [Reminder -> BOOLEAN]
  /\ clock \in Time
  /\ job \in [Runner -> [todo : SUBSET Reminder, mark : SUBSET Reminder]]
  /\ edit \in [Editor -> SUBSET [id : Reminder, due : Time]] /\ \A a \in Editor : Cardinality(edit[a]) <= 1
  /\ outbound \in Seq(Reminder) /\ Len(outbound) <= BusSize
  /\ shown \subseteq Reminder /\ dropped \subseteq Reminder
  /\ trouble \in 0..MaxTrouble

ReminderInit ==
  /\ reminders = [i \in Reminder |-> "new"] /\ dueAt = [i \in Reminder |-> 0]
  /\ sentAt = [i \in Reminder |-> FALSE]
  /\ clock = 0
  /\ job = [r \in Runner |-> NoJob] /\ edit = [a \in Editor |-> {}]
  /\ outbound = <<>> /\ shown = {} /\ dropped = {}
  /\ trouble = 0

(********************************** Skill **********************************)

\* A reminder is created for the future only.
createReminders ==
  \E i \in Reminder, due \in Time :
    /\ reminders[i] = "new" /\ due >= clock
    /\ reminders' = [reminders EXCEPT ![i] = "there"] /\ dueAt' = [dueAt EXCEPT ![i] = due]
    /\ UNCHANGED <<sentAt, clock, job, edit, outbound, shown, dropped, trouble>>

\* An update reads the row, and may give it any time to be due ...
updateReminder(a) ==
  \E i \in Existing, due \in Time :
    /\ edit[a] = {}
    /\ edit' = [edit EXCEPT ![a] = {[id |-> i, due |-> due]}]
    /\ UNCHANGED <<reminders, dueAt, sentAt, clock, job, outbound, shown, dropped, trouble>>

\* ... and writes it; sent_at is not among the columns.
UpdateReminder(a) ==
  \E e \in edit[a] :
    /\ dueAt' = [dueAt EXCEPT ![e.id] = IF e.id \in Existing THEN e.due ELSE @]
    /\ edit' = [edit EXCEPT ![a] = {}]
    /\ UNCHANGED <<reminders, sentAt, clock, job, outbound, shown, dropped, trouble>>

deleteReminder ==
  \E i \in Existing :
    /\ reminders' = [reminders EXCEPT ![i] = "gone"] /\ dueAt' = [dueAt EXCEPT ![i] = 0]
    /\ UNCHANGED <<sentAt, clock, job, edit, outbound, shown, dropped, trouble>>

(************************************ Job ************************************)

\* Bug: only the next five minutes, without what is overdue.
NextOnly(before) == {i \in Existing : dueAt[i] \in {before - 1, before} /\ ~sentAt[i]}

\* Due within five minutes, or overdue, and not sent.
GetDueReminders(before) == {i \in Existing : dueAt[i] <= before /\ ~sentAt[i]}

RunReminderJob(r) ==
  /\ job[r] = NoJob
  /\ GetDueReminders(clock + 1) # {}
  /\ job' = [job EXCEPT ![r].todo = GetDueReminders(clock + 1)]
  /\ UNCHANGED <<reminders, dueAt, sentAt, clock, edit, outbound, shown, dropped, trouble>>

\* A reminder of the list goes on the bus, as it was when the list was read, once
\* there is room ...
SendAlert(r) ==
  /\ job[r].mark = {} /\ Len(outbound) < BusSize
  /\ \E i \in job[r].todo :
       /\ job' = [job EXCEPT ![r] = [todo |-> @.todo \ {i}, mark |-> {i}]]
       /\ outbound' = Append(outbound, i)
  /\ UNCHANGED <<reminders, dueAt, sentAt, clock, edit, shown, dropped, trouble>>

\* ... and is marked as sent at once, shown or not; a failure ends the run.
MarkReminderSent(r) ==
  /\ job[r].mark # {}
  /\ sentAt' = [i \in Reminder |-> sentAt[i] \/ (i \in job[r].mark /\ i \in Existing)]
  /\ job' = [job EXCEPT ![r].mark = {}]
  /\ UNCHANGED <<reminders, dueAt, clock, edit, outbound, shown, dropped, trouble>>

MarkFails(r) ==
  /\ job[r].mark # {} /\ trouble < MaxTrouble
  /\ trouble' = trouble + 1
  /\ job' = [job EXCEPT ![r] = NoJob]
  /\ UNCHANGED <<reminders, dueAt, sentAt, clock, edit, outbound, shown, dropped>>

\* The router takes the first alert and hands it to the active channel ...
handleOutboundMessage ==
  /\ outbound # <<>>
  /\ outbound' = Tail(outbound) /\ shown' = shown \cup {Head(outbound)}
  /\ UNCHANGED <<reminders, dueAt, sentAt, clock, job, edit, dropped, trouble>>

\* ... or has none, or the channel fails: the log is told, and nobody else.
OutboundFails ==
  /\ outbound # <<>> /\ trouble < MaxTrouble
  /\ outbound' = Tail(outbound) /\ dropped' = dropped \cup {Head(outbound)}
  /\ trouble' = trouble + 1
  /\ UNCHANGED <<reminders, dueAt, sentAt, clock, job, edit, shown>>

\* The process ends and starts again, some time later or at once; the bus is empty.
Restart ==
  /\ trouble < MaxTrouble
  /\ trouble' = trouble + 1
  /\ job' = [r \in Runner |-> NoJob] /\ edit' = [a \in Editor |-> {}]
  /\ outbound' = <<>> /\ dropped' = dropped \cup Outbound
  /\ clock' \in clock..MaxTime
  /\ UNCHANGED <<reminders, dueAt, sentAt, shown>>

Tick ==
  /\ clock < MaxTime
  /\ clock' = clock + 1
  /\ UNCHANGED <<reminders, dueAt, sentAt, job, edit, outbound, shown, dropped, trouble>>

ReminderNext ==
  \/ createReminders \/ deleteReminder
  \/ \E a \in Editor : updateReminder(a) \/ UpdateReminder(a)
  \/ \E r \in Runner : RunReminderJob(r) \/ SendAlert(r) \/ MarkReminderSent(r) \/ MarkFails(r)
  \/ handleOutboundMessage \/ OutboundFails
  \/ Restart \/ Tick

\* The cron engine runs the job again and again, the router empties the bus,
\* and the store answers.
ReminderFairness ==
  /\ \A r \in Runner :
       WF_reminderVars(RunReminderJob(r)) /\ WF_reminderVars(SendAlert(r)) /\ WF_reminderVars(MarkReminderSent(r))
  /\ WF_reminderVars(handleOutboundMessage)

ReminderSpec == ReminderInit /\ [][ReminderNext]_reminderVars /\ ReminderFairness

(******************************** Properties ********************************)

\* An alert of the reminder was lost, and no other is on its way, although the row
\* says that it was sent: it stands there before the channel was asked.
LostAfterMark(i) == sentAt[i] /\ i \in dropped /\ i \notin Outbound

\* A reminder that is due and was not sent reaches the user, also when the process
\* was down at its time, the bus was full or a run ended with an error; unless it
\* is deleted or put off first.  Nothing else is lost than an alert that was still
\* in memory, or that the channel refused, after its row was marked.
DueGoesOut ==
  \A i \in Reminder :
    (i \in GetDueReminders(clock + 1))
      ~> (i \in shown \/ i \notin Existing \/ dueAt[i] > clock + 1 \/ LostAfterMark(i))
=============================================================================
