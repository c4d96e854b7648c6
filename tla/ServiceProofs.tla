---------------------------- MODULE ServiceProofs ----------------------------
(***************************************************************************)
(* What the services that work for the user promise: scheduled jobs, tasks *)
(* and projects, the graph of what was remembered, skills that run         *)
(* commands, the summaries of sessions and days, what is recalled, and     *)
(* the commands that write the configuration and the secrets; for all sets *)
(* of jobs, agents, tasks, names, rows, files and keys and all sizes of    *)
(* the bus.                                                                *)
(***************************************************************************)
EXTENDS CronJobs, Tasks, Nexus, CliTool, SessionMemory, Recall, ConfigFiles, EpisodeCalendar, Secrets,
        TLAPS, FiniteSetTheorems, WellFoundedInduction, SequenceTheorems

USE CronAssumption, TaskAssumption, NexusAssumption

CronEvent == EventTypes \X Job

CronTypes ==
  /\ call \in [Job -> Calls]
  /\ cronBus \in Seq(CronEvent) /\ Len(cronBus) <= CronBusSize
  /\ saved = {} \/ \E j \in Job : saved = {j}
  /\ cronRows \subseteq Job /\ templates \subseteq WorkflowJob /\ refused \subseteq WorkflowJob
  /\ entries \in [Job -> Nat] /\ firings \in [Job -> 0 .. MaxFirings]
  /\ lastRun \in [Job -> Outcomes]
  /\ running \in {"no", "yes", "deaf"}

\* A job is registered once, and only when its row is there; it fires then.
JobFits(j) ==
  /\ call[j] \in {"parsed", "submitted"} => j \in WorkflowJob
  /\ j \in cronRows => call[j] = "done"
  /\ firings[j] > 0 => j \in cronRows
  /\ entries[j] > 0 => j \in cronRows /\ j \notin BadSchedule
  /\ j \in saved => j \in cronRows /\ entries[j] = 0
  /\ entries[j] <= 1
  /\ running = "yes" /\ j \in cronRows /\ j \notin BadSchedule /\ j \notin saved => entries[j] = 1

\* A process that ended has nothing in memory.
CronFits ==
  /\ \A j \in Job : JobFits(j)
  /\ running = "no" => Len(cronBus) = 0 /\ saved = {} /\ \A j \in Job : entries[j] = 0 /\ firings[j] = 0

On(i, type, j) == cronBus[i] = <<type, j>>
TemplateKnown(j) == j \in templates \/ j \in refused

\* A job is on its way once, behind its template if that is on its way still; only
\* what has a row fires.
EventFits(i, j) ==
  /\ On(i, "WorkflowSubmitted", j) => j \in WorkflowJob
  /\ On(i, "CronJobScheduled", j) =>
       /\ call[j] = "done" /\ j \notin cronRows
       /\ \A k \in 1 .. Len(cronBus) : On(k, "CronJobScheduled", j) => k = i
       /\ j \in WorkflowJob =>
            TemplateKnown(j) \/ \E k \in 1 .. Len(cronBus) : k < i /\ On(k, "WorkflowSubmitted", j)
  /\ On(i, "WorkflowInstantiate", j) => j \in cronRows /\ j \in WorkflowJob

CronBusFits == \A i \in 1 .. Len(cronBus) : \A j \in Job : EventFits(i, j)

TemplatesFit ==
  \A j \in WorkflowJob :
    /\ call[j] = "submitted" =>
         TemplateKnown(j) \/ \E k \in 1 .. Len(cronBus) : On(k, "WorkflowSubmitted", j)
    /\ j \in cronRows => TemplateKnown(j)
    /\ lastRun[j] = "no template" => j \in refused

CronInductive == CronTypes /\ CronFits /\ CronBusFits /\ TemplatesFit

LEMMA CronTypesOK == CronTypes /\ CronFits => CronTypeOK
<1> SUFFICES ASSUME CronTypes, CronFits PROVE CronTypeOK
  OBVIOUS
<1>1. saved \subseteq Job /\ Cardinality(saved) <= 1
  <2>1. CASE saved = {}
    BY <2>1, FS_EmptySet
  <2>2. ASSUME NEW j \in Job, saved = {j} PROVE saved \subseteq Job /\ Cardinality(saved) <= 1
    BY <2>2, FS_Singleton
  <2> QED
    BY <2>1, <2>2 DEF CronTypes
<1>2. entries \in [Job -> 0 .. 2]
  BY DEF CronTypes, CronFits, JobFits
<1> QED
  BY <1>1, <1>2 DEF CronTypes, CronTypeOK, CronEvent

LEMMA CronStarts == CronInit => CronInductive
<1> SUFFICES ASSUME CronInit PROVE CronInductive
  OBVIOUS
<1>1. cronBus \in Seq(CronEvent) /\ Len(cronBus) = 0
  BY DEF CronInit
<1>2. CronTypes
  BY <1>1 DEF CronInit, CronTypes, Calls, Outcomes
<1>3. CronFits
  <2>1. \A j \in Job : /\ entries[j] = 0 /\ firings[j] = 0 /\ call[j] = "new"
                       /\ j \notin cronRows /\ j \notin saved
    BY DEF CronInit
  <2>2. running # "no"
    BY DEF CronInit
  <2> QED
    BY <2>1, <2>2 DEF CronFits, JobFits
<1>4. CronBusFits
  <2>1. 1 .. Len(cronBus) = {}
    BY <1>1
  <2> QED
    BY <2>1 DEF CronBusFits
<1>5. TemplatesFit
  BY DEF CronInit, TemplatesFit
<1> QED
  BY <1>2, <1>3, <1>4, <1>5 DEF CronInductive

\* The bus after a send, and after the router has taken an event, by positions.
LEMMA CronSent ==
  ASSUME CronTypes, NEW type \in EventTypes, NEW c \in Job, Send(<<type, c>>)
  PROVE  /\ cronBus' \in Seq(CronEvent) /\ Len(cronBus') <= CronBusSize
         /\ \E n \in Nat :
              /\ Len(cronBus') = n /\ Len(cronBus) \in Nat /\ n = Len(cronBus) + 1
              /\ \A i \in 1 .. n : i \in 1 .. Len(cronBus) \/ i = n
              /\ \A i \in 1 .. Len(cronBus) : \A t, j : On(i, t, j)' <=> On(i, t, j)
              /\ \A t, j : On(n, t, j)' <=> t = type /\ j = c
<1> DEFINE e == <<type, c>>
<1>1. e \in CronEvent
  BY DEF CronEvent
<1>2. \A t, j : e = <<t, j>> <=> t = type /\ j = c
  OBVIOUS
<1> HIDE DEF e
<1>3. /\ cronBus' \in Seq(CronEvent) /\ Len(cronBus') <= CronBusSize
      /\ Len(cronBus) \in Nat /\ Len(cronBus') = Len(cronBus) + 1
      /\ \A i \in 1 .. Len(cronBus) : cronBus'[i] = cronBus[i]
      /\ cronBus'[Len(cronBus) + 1] = e
  <2>1. Len(cronBus) < CronBusSize /\ cronBus' = Append(cronBus, e)
    BY DEF e, Send
  <2>2. cronBus \in Seq(CronEvent)
    BY DEF CronTypes
  <2> QED
    BY <1>1, <2>1, <2>2
<1>4. PICK n \in Nat : n = Len(cronBus) + 1
  BY <1>3
<1>5. \A i \in 1 .. n : i \in 1 .. Len(cronBus) \/ i = n
  BY <1>3, <1>4
<1>6. \A t, j : On(n, t, j)' <=> t = type /\ j = c
  <2>1. cronBus'[n] = e
    BY <1>3, <1>4
  <2> QED
    BY <1>2, <2>1 DEF On
<1>7. \A i \in 1 .. Len(cronBus) : \A t, j : On(i, t, j)' <=> On(i, t, j)
  BY <1>3 DEF On
<1> QED
  BY <1>3, <1>4, <1>5, <1>6, <1>7

LEMMA CronTaken ==
  ASSUME CronTypes, NEW type, NEW c \in Job, Handle(type, c)
  PROVE  /\ cronBus' \in Seq(CronEvent) /\ Len(cronBus') <= CronBusSize
         /\ saved = {} /\ running # "no"
         /\ Len(cronBus) \in Nat \ {0} /\ Len(cronBus') = Len(cronBus) - 1
         /\ \A i \in 1 .. Len(cronBus') : i + 1 \in 1 .. Len(cronBus) /\ \A t, j : On(i, t, j)' <=> On(i + 1, t, j)
         /\ 1 \in 1 .. Len(cronBus)
         /\ \A t, j : On(1, t, j) <=> t = type /\ j = c
<1> DEFINE e == <<type, c>>
<1>1. \A t, j : e = <<t, j>> <=> t = type /\ j = c
  OBVIOUS
<1>2. Head(cronBus) = e
  BY DEF Handle
<1> HIDE DEF e
<1>3. cronBus \in Seq(CronEvent) /\ cronBus # <<>> /\ Len(cronBus) <= CronBusSize /\ cronBus' = Tail(cronBus)
  BY DEF CronTypes, Handle
<1>4. cronBus[1] = e /\ Len(cronBus) \in Nat \ {0}
  BY <1>2, <1>3
<1>5. /\ cronBus' \in Seq(CronEvent) /\ Len(cronBus') = Len(cronBus) - 1
      /\ \A i \in 1 .. Len(cronBus') : i + 1 \in 1 .. Len(cronBus) /\ cronBus'[i] = cronBus[i + 1]
  BY <1>3, <1>4
<1>6. \A i \in 1 .. Len(cronBus') : \A t, j : On(i, t, j)' <=> On(i + 1, t, j)
  BY <1>5 DEF On
<1>7. \A t, j : On(1, t, j) <=> t = type /\ j = c
  BY <1>1, <1>4 DEF On
<1>8. Len(cronBus') <= CronBusSize /\ 1 \in 1 .. Len(cronBus)
  BY <1>3, <1>4, <1>5
<1>9. saved = {} /\ running # "no"
  BY DEF Handle, Up
<1> QED
  BY <1>4, <1>5, <1>6, <1>7, <1>8, <1>9

\* What the jobs' calls may become without an event.
CallsStay ==
  \A j \in Job : /\ call[j] = "done" => call'[j] = "done"
                 /\ call'[j] = "submitted" => call[j] = "submitted"

\* A step that neither sends nor takes an event.
LEMMA CronQuiet ==
  ASSUME CronTypes, CronBusFits, TemplatesFit, CallsStay,
         UNCHANGED <<cronBus, cronRows, templates, refused, lastRun>>
  PROVE  CronBusFits' /\ TemplatesFit'
<1>1. CronBusFits'
  <2> SUFFICES ASSUME NEW i \in 1 .. Len(cronBus), NEW j \in Job PROVE EventFits(i, j)'
    BY DEF CronBusFits
  <2>1. EventFits(i, j)
    BY DEF CronBusFits
  <2>2. call[j] = "done" => call'[j] = "done"
    BY DEF CallsStay
  <2>3. (\A k, t : On(k, t, j)' <=> On(k, t, j)) /\ (TemplateKnown(j)' <=> TemplateKnown(j))
    BY DEF On, TemplateKnown
  <2> QED
    BY <2>1, <2>2, <2>3 DEF EventFits
<1>2. TemplatesFit'
  BY DEF TemplatesFit, CallsStay, On, TemplateKnown
<1> QED
  BY <1>1, <1>2

\* What the sender of an event has done, and does with it.
SenderFits(type, c) ==
  /\ \A j \in Job \ {c} : call'[j] = call[j]
  /\ \/ type = "WorkflowSubmitted" /\ call[c] = "parsed" /\ call'[c] = "submitted"
     \/ /\ type = "CronJobScheduled" /\ call'[c] = "done"
        /\ call[c] = (IF c \in WorkflowJob THEN "submitted" ELSE "new")
     \/ type = "WorkflowInstantiate" /\ c \in cronRows /\ c \in WorkflowJob /\ call'[c] = call[c]
     \/ type = "AgentExecute" /\ call'[c] = call[c]

\* An event is sent.
LEMMA CronSends ==
  ASSUME CronTypes, CronFits, CronBusFits, TemplatesFit, NEW type \in EventTypes, NEW c \in Job, Send(<<type, c>>),
         UNCHANGED <<cronRows, templates, refused, lastRun>>, SenderFits(type, c)
  PROVE  CronBusFits' /\ TemplatesFit'
<1>0. \E n \in Nat :
        /\ Len(cronBus') = n /\ Len(cronBus) \in Nat /\ n = Len(cronBus) + 1
        /\ \A i \in 1 .. n : i \in 1 .. Len(cronBus) \/ i = n
        /\ \A i \in 1 .. Len(cronBus) : \A t, j : On(i, t, j)' <=> On(i, t, j)
        /\ \A t, j : On(n, t, j)' <=> t = type /\ j = c
  BY CronSent, ZenonT(60)
<1>1. PICK n \in Nat :
        /\ Len(cronBus') = n /\ Len(cronBus) \in Nat /\ n = Len(cronBus) + 1
        /\ \A i \in 1 .. n : i \in 1 .. Len(cronBus) \/ i = n
        /\ \A i \in 1 .. Len(cronBus) : \A t, j : On(i, t, j)' <=> On(i, t, j)
        /\ \A t, j : On(n, t, j)' <=> t = type /\ j = c
  BY <1>0
<1>2. n \in 1 .. n /\ \A i \in 1 .. Len(cronBus) : i \in 1 .. n /\ i < n
  BY <1>1
<1>3. \A j \in Job : call[j] = "done" => call'[j] = "done"
  BY DEF SenderFits
<1>4. type = "CronJobScheduled" => c \notin cronRows /\ \A k \in 1 .. Len(cronBus) : ~On(k, "CronJobScheduled", c)
  BY DEF CronFits, JobFits, CronBusFits, EventFits, SenderFits
<1>5. \A j : TemplateKnown(j)' <=> TemplateKnown(j)
  BY DEF TemplateKnown
<1>6. CronBusFits'
  <2> SUFFICES ASSUME NEW i \in 1 .. n, NEW j \in Job PROVE EventFits(i, j)'
    BY <1>1 DEF CronBusFits
  <2>1. CASE i \in 1 .. Len(cronBus)
    <3>1. EventFits(i, j) /\ \A t : On(i, t, j)' <=> On(i, t, j)
      BY <1>1, <2>1 DEF CronBusFits
    <3>2. ASSUME On(i, "CronJobScheduled", j), NEW k \in 1 .. n, On(k, "CronJobScheduled", j)'
          PROVE  k = i
      <4>1. k # n
        BY <1>1, <1>4, <2>1, <3>2
      <4> QED
        BY <1>1, <2>1, <3>1, <3>2, <4>1 DEF EventFits
    <3>3. (\E k \in 1 .. Len(cronBus) : k < i /\ On(k, "WorkflowSubmitted", j))
            => \E k \in 1 .. n : k < i /\ On(k, "WorkflowSubmitted", j)'
      BY <1>1, <1>2
    <3> QED
      BY <1>1, <1>3, <1>5, <3>1, <3>2, <3>3 DEF EventFits
  <2>2. CASE i = n
    <3>1. \A t : On(i, t, j)' <=> t = type /\ j = c
      BY <1>1, <2>2
    <3>2. /\ type = "WorkflowSubmitted" => c \in WorkflowJob
          /\ type = "CronJobScheduled" => call'[c] = "done"
          /\ type = "WorkflowInstantiate" => c \in cronRows /\ c \in WorkflowJob
      BY DEF CronFits, JobFits, SenderFits
    <3>3. ASSUME type = "CronJobScheduled", j = c
          PROVE  /\ call'[c] = "done" /\ c \notin cronRows
                 /\ \A k \in 1 .. n : On(k, "CronJobScheduled", j)' => k = i
                 /\ j \in WorkflowJob =>
                      TemplateKnown(j) \/ \E k \in 1 .. n : k < i /\ On(k, "WorkflowSubmitted", j)'
      <4>1. \A k \in 1 .. n : On(k, "CronJobScheduled", j)' => k = i
        BY <1>1, <1>4, <2>2, <3>3
      <4>2. ASSUME j \in WorkflowJob
            PROVE  TemplateKnown(j) \/ \E k \in 1 .. n : k < i /\ On(k, "WorkflowSubmitted", j)'
        <5>1. TemplateKnown(j) \/ \E k \in 1 .. Len(cronBus) : On(k, "WorkflowSubmitted", j)
          BY <3>3, <4>2 DEF TemplatesFit, SenderFits
        <5> QED
          BY <1>1, <1>2, <2>2, <5>1
      <4> QED
        BY <1>4, <3>2, <3>3, <4>1, <4>2
    <3> QED
      BY <1>1, <1>5, <3>1, <3>2, <3>3 DEF EventFits
  <2> QED
    BY <1>1, <2>1, <2>2
<1>7. TemplatesFit'
  <2>1. ASSUME NEW j \in WorkflowJob, call'[j] = "submitted"
        PROVE  TemplateKnown(j) \/ \E k \in 1 .. n : On(k, "WorkflowSubmitted", j)'
    <3>1. CASE call[j] = "submitted"
      BY <1>1, <1>2, <3>1 DEF TemplatesFit
    <3>2. CASE call[j] # "submitted"
      <4>1. j = c /\ type = "WorkflowSubmitted"
        BY <2>1, <3>2 DEF SenderFits
      <4> QED
        BY <1>1, <1>2, <4>1
    <3> QED
      BY <3>1, <3>2
  <2> QED
    BY <1>1, <1>5, <2>1 DEF TemplatesFit
<1> QED
  BY <1>6, <1>7

\* A firing that the kernel handles finds its template, unless that was refused.
RunsFindTemplates ==
  \A j \in WorkflowJob : lastRun'[j] = "no template" => lastRun[j] = "no template" \/ j \in refused'

\* The router takes an event: what is behind it moves up.
LEMMA CronTakes ==
  ASSUME CronTypes, CronFits, CronBusFits, TemplatesFit,
         NEW type \in EventTypes, NEW c \in Job, Handle(type, c),
         UNCHANGED call, templates \subseteq templates', refused \subseteq refused',
         cronRows \subseteq cronRows', \A j \in cronRows' : j \in cronRows \/ (j = c /\ type = "CronJobScheduled"),
         type = "WorkflowSubmitted" => TemplateKnown(c)', RunsFindTemplates
  PROVE  CronBusFits' /\ TemplatesFit'
<1>0. /\ Len(cronBus) \in Nat \ {0} /\ Len(cronBus') = Len(cronBus) - 1
      /\ \A i \in 1 .. Len(cronBus') : i + 1 \in 1 .. Len(cronBus)
      /\ 1 \in 1 .. Len(cronBus)
  BY CronTaken
<1>1. /\ \A i \in 1 .. Len(cronBus') : i + 1 \in 1 .. Len(cronBus) /\ \A t, j : On(i, t, j)' <=> On(i + 1, t, j)
      /\ 1 \in 1 .. Len(cronBus)
      /\ \A t, j : On(1, t, j) <=> t = type /\ j = c
  BY CronTaken
<1>2. \A j : TemplateKnown(j) => TemplateKnown(j)'
  BY DEF TemplateKnown
\* A template that was on the bus is there or known.
<1>3. ASSUME NEW j \in Job, NEW k \in 1 .. Len(cronBus), On(k, "WorkflowSubmitted", j)
      PROVE  \/ TemplateKnown(j)'
             \/ \E m \in 1 .. Len(cronBus') : m = k - 1 /\ On(m, "WorkflowSubmitted", j)'
  <2>1. CASE k = 1
    <3>1. type = "WorkflowSubmitted" /\ c = j
      BY <1>1, <1>3, <2>1
    <3> QED
      BY <3>1
  <2>2. CASE k # 1
    <3>1. PICK m \in 1 .. Len(cronBus') : m = k - 1 /\ m + 1 = k
      BY <1>0, <2>2
    <3>2. On(m, "WorkflowSubmitted", j)'
      BY <1>1, <1>3, <3>1
    <3> QED
      BY <3>1, <3>2
  <2> QED
    BY <2>1, <2>2
<1>4. type = "CronJobScheduled" => \A k \in 1 .. Len(cronBus') : ~On(k, "CronJobScheduled", c)'
  <2> SUFFICES ASSUME type = "CronJobScheduled", NEW k \in 1 .. Len(cronBus'), On(k, "CronJobScheduled", c)'
               PROVE  FALSE
    OBVIOUS
  <2>1. k + 1 \in 1 .. Len(cronBus) /\ On(k + 1, "CronJobScheduled", c) /\ On(1, "CronJobScheduled", c)
    BY <1>1
  <2>2. k + 1 = 1
    BY <1>1, <2>1 DEF CronBusFits, EventFits
  <2> QED
    BY <1>0, <2>2
<1>5. CronBusFits'
  <2> SUFFICES ASSUME NEW i \in 1 .. Len(cronBus'), NEW j \in Job PROVE EventFits(i, j)'
    BY DEF CronBusFits
  <2>1. /\ i + 1 \in 1 .. Len(cronBus) /\ EventFits(i + 1, j)
        /\ \A t : On(i, t, j)' <=> On(i + 1, t, j)
    BY <1>1 DEF CronBusFits
  <2>2. On(i, "WorkflowSubmitted", j)' => j \in WorkflowJob
    BY <2>1 DEF EventFits
  <2>3. On(i, "WorkflowInstantiate", j)' => j \in cronRows' /\ j \in WorkflowJob
    BY <2>1 DEF EventFits
  <2>4. ASSUME On(i, "CronJobScheduled", j)'
        PROVE  /\ call'[j] = "done" /\ j \notin cronRows'
               /\ \A k \in 1 .. Len(cronBus') : On(k, "CronJobScheduled", j)' => k = i
               /\ j \in WorkflowJob =>
                    \/ TemplateKnown(j)'
                    \/ \E k \in 1 .. Len(cronBus') : k < i /\ On(k, "WorkflowSubmitted", j)'
    <3>1. call'[j] = "done" /\ j \notin cronRows'
      BY <1>4, <2>1, <2>4 DEF EventFits
    <3>2. ASSUME NEW k \in 1 .. Len(cronBus'), On(k, "CronJobScheduled", j)' PROVE k = i
      <4>1. k + 1 \in 1 .. Len(cronBus) /\ On(k + 1, "CronJobScheduled", j)
        BY <1>1, <3>2
      <4>2. k + 1 = i + 1
        BY <2>1, <2>4, <4>1 DEF EventFits
      <4> QED
        BY <1>0, <4>2
    <3>3. ASSUME j \in WorkflowJob
          PROVE  \/ TemplateKnown(j)'
                 \/ \E k \in 1 .. Len(cronBus') : k < i /\ On(k, "WorkflowSubmitted", j)'
      <4>1. CASE TemplateKnown(j)
        BY <1>2, <4>1
      <4>2. ASSUME NEW k \in 1 .. Len(cronBus), k < i + 1, On(k, "WorkflowSubmitted", j)
            PROVE  \/ TemplateKnown(j)'
                   \/ \E m \in 1 .. Len(cronBus') : m < i /\ On(m, "WorkflowSubmitted", j)'
        <5>1. k - 1 < i
          BY <1>0, <4>2
        <5> QED
          BY <1>3, <4>2, <5>1
      <4> QED
        BY <2>1, <2>4, <3>3, <4>1, <4>2 DEF EventFits
    <3> QED
      BY <3>1, <3>2, <3>3
  <2> QED
    BY <2>2, <2>3, <2>4 DEF EventFits
<1>6. TemplatesFit'
  <2> SUFFICES ASSUME NEW j \in WorkflowJob
               PROVE  /\ call'[j] = "submitted" =>
                           \/ TemplateKnown(j)'
                           \/ \E k \in 1 .. Len(cronBus') : On(k, "WorkflowSubmitted", j)'
                      /\ j \in cronRows' => TemplateKnown(j)'
                      /\ lastRun'[j] = "no template" => j \in refused'
    BY DEF TemplatesFit
  <2>1. ASSUME call'[j] = "submitted"
        PROVE  \/ TemplateKnown(j)'
               \/ \E k \in 1 .. Len(cronBus') : On(k, "WorkflowSubmitted", j)'
    <3>1. CASE TemplateKnown(j)
      BY <1>2, <3>1
    <3>2. ASSUME NEW k \in 1 .. Len(cronBus), On(k, "WorkflowSubmitted", j)
          PROVE  \/ TemplateKnown(j)'
                 \/ \E m \in 1 .. Len(cronBus') : On(m, "WorkflowSubmitted", j)'
      BY <1>3, <3>2
    <3> QED
      BY <2>1, <3>1, <3>2 DEF TemplatesFit
  <2>2. ASSUME j \in cronRows' PROVE TemplateKnown(j)'
    <3>1. CASE j \in cronRows
      BY <1>2, <3>1 DEF TemplatesFit
    <3>2. CASE j = c /\ type = "CronJobScheduled"
      <4>1. EventFits(1, j) /\ On(1, "CronJobScheduled", j)
        BY <1>1, <3>2 DEF CronBusFits
      <4>2. ~\E k \in 1 .. Len(cronBus) : k < 1
        BY <1>0
      <4> QED
        BY <1>2, <4>1, <4>2 DEF EventFits
    <3> QED
      BY <2>2, <3>1, <3>2
  <2> QED
    BY <2>1, <2>2 DEF TemplatesFit, RunsFindTemplates
<1> QED
  BY <1>5, <1>6

LEMMA CronTypesNext ==
  ASSUME CronTypes, CronFits, CronBusFits, [CronNext]_cronVars
  PROVE  CronTypes'
<1> USE DEF Up
<1>0. /\ {"new", "parsed", "submitted", "done", "failed"} \subseteq Calls
      /\ {"WorkflowSubmitted", "CronJobScheduled", "WorkflowInstantiate", "AgentExecute"} \subseteq EventTypes
      /\ {"started", "dropped", "no template"} \subseteq Outcomes
  BY DEF Calls, EventTypes, Outcomes
<1>1. ASSUME NEW j \in Job, parseWorkflow(j) \/ GiveUpSending(j) PROVE CronTypes'
  <2>1. call' \in [Job -> Calls]
    <3>1. CASE parseWorkflow(j)
      BY <1>0, <3>1 DEF parseWorkflow, CronTypes
    <3>2. CASE GiveUpSending(j)
      BY <1>0, <3>2 DEF GiveUpSending, CronTypes
    <3> QED
      BY <1>1, <3>1, <3>2
  <2> QED
    BY <1>1, <2>1 DEF parseWorkflow, GiveUpSending, CronTypes
<1>2. ASSUME NEW j \in Job, NEW type \in EventTypes, Send(<<type, j>>)
      PROVE  cronBus' \in Seq(CronEvent) /\ Len(cronBus') <= CronBusSize
  BY <1>2, CronSent DEF CronEvent
<1>3. ASSUME NEW j \in Job, submitWorkflow(j) \/ submitCronJob(j) PROVE CronTypes'
  <2>1. cronBus' \in Seq(CronEvent) /\ Len(cronBus') <= CronBusSize
    BY <1>0, <1>2, <1>3 DEF submitWorkflow, submitCronJob
  <2>2. call' \in [Job -> Calls]
    BY <1>0, <1>3 DEF submitWorkflow, submitCronJob, CronTypes
  <2> QED
    BY <1>3, <2>1, <2>2 DEF submitWorkflow, submitCronJob, CronTypes
<1>4. ASSUME NEW j \in Job, NEW type, Handle(type, j)
      PROVE  cronBus' \in Seq(CronEvent) /\ Len(cronBus') <= CronBusSize
  BY <1>4, CronTaken
<1>5. ASSUME NEW j \in Job, handleWorkflowSubmitted(j) PROVE CronTypes'
  <2>1. cronBus' \in Seq(CronEvent) /\ Len(cronBus') <= CronBusSize
    BY <1>4, <1>5 DEF handleWorkflowSubmitted
  <2>2. j \in WorkflowJob
    BY <1>5, CronTaken DEF handleWorkflowSubmitted, CronBusFits, EventFits
  <2> QED
    BY <1>5, <2>1, <2>2 DEF handleWorkflowSubmitted, CronTypes
<1>6. ASSUME NEW j \in Job, handleCronJobScheduled(j) \/ CronJobNotSaved(j) PROVE CronTypes'
  <2>1. cronBus' \in Seq(CronEvent) /\ Len(cronBus') <= CronBusSize
    BY <1>4, <1>6 DEF handleCronJobScheduled, CronJobNotSaved
  <2> QED
    BY <1>6, <2>1 DEF handleCronJobScheduled, CronJobNotSaved, CronTypes
<1>7. ASSUME NEW j \in Job, RegisterDynamic(j) PROVE CronTypes'
  BY <1>7 DEF RegisterDynamic, Registered, CronTypes
<1>8. ASSUME NEW j \in Job, Fire(j) PROVE CronTypes'
  BY <1>8 DEF Fire, CronTypes
<1>9. ASSUME NEW j \in Job, onFire(j) PROVE CronTypes'
  <2>1. cronBus' \in Seq(CronEvent) /\ Len(cronBus') <= CronBusSize
    <3>1. (IF j \in WorkflowJob THEN "WorkflowInstantiate" ELSE "AgentExecute") \in EventTypes
      BY <1>0
    <3> QED
      BY <1>2, <1>9, <3>1 DEF onFire
  <2>2. firings' \in [Job -> 0 .. MaxFirings]
    BY <1>9 DEF onFire, CronTypes
  <2> QED
    BY <1>9, <2>1, <2>2 DEF onFire, CronTypes
<1>10. ASSUME NEW j \in Job, handleWorkflowInstantiate(j) \/ handleAgentExecute(j) PROVE CronTypes'
  <2>1. cronBus' \in Seq(CronEvent) /\ Len(cronBus') <= CronBusSize
    BY <1>4, <1>10 DEF handleWorkflowInstantiate, handleAgentExecute
  <2>2. lastRun' \in [Job -> Outcomes]
    BY <1>0, <1>10 DEF handleWorkflowInstantiate, handleAgentExecute, CronTypes
  <2> QED
    BY <1>10, <2>1, <2>2 DEF handleWorkflowInstantiate, handleAgentExecute, CronTypes
<1>11. CASE Crash
  <2>1. cronBus' \in Seq(CronEvent) /\ Len(cronBus') <= CronBusSize
    BY <1>11 DEF Crash
  <2>2. call' \in [Job -> Calls]
    BY <1>0, <1>11 DEF Crash, CronTypes
  <2>3. entries' \in [Job -> Nat] /\ firings' \in [Job -> 0 .. MaxFirings]
    BY <1>11 DEF Crash
  <2> QED
    BY <1>11, <2>1, <2>2, <2>3 DEF Crash, CronTypes
<1>12. CASE loadCronJobs
  <2>1. entries' \in [Job -> Nat]
    BY <1>12 DEF loadCronJobs, Registered, CronTypes
  <2> QED
    BY <1>12, <2>1 DEF loadCronJobs, CronTypes
<1>13. CASE JobsNotListed
  BY <1>13 DEF JobsNotListed, CronTypes
<1>14. CASE UNCHANGED cronVars
  BY <1>14 DEF cronVars, CronTypes
<1> QED
  BY <1>1, <1>3, <1>5, <1>6, <1>7, <1>8, <1>9, <1>10, <1>11, <1>12, <1>13, <1>14 DEF CronNext
LEMMA CronFitsNext ==
  ASSUME CronTypes, CronFits, CronBusFits, [CronNext]_cronVars
  PROVE  CronFits'
<1>0. \A k \in Job : JobFits(k)
  BY DEF CronFits
\* The process that runs goes on.
<1>1. ASSUME Up, running' = running, \A k \in Job : JobFits(k)' PROVE CronFits'
  BY <1>1 DEF CronFits, Up
<1>2. ASSUME NEW j \in Job, parseWorkflow(j) PROVE CronFits'
  <2>1. /\ Up /\ running' = running
        /\ \A k \in Job : call'[k] = call[k] \/ (k = j /\ call[k] = "new" /\ k \in WorkflowJob /\ call'[k] # "done")
    BY <1>2 DEF parseWorkflow, CronTypes
  <2>2. \A k \in Job : JobFits(k)'
    BY <1>0, <1>2, <2>1 DEF parseWorkflow, JobFits
  <2> QED
    BY <1>1, <2>1, <2>2
<1>3. ASSUME NEW j \in Job, submitWorkflow(j) \/ submitCronJob(j) PROVE CronFits'
  <2>1. /\ Up /\ running' = running
        /\ \A k \in Job : \/ call'[k] = call[k]
                          \/ k = j /\ call[k] = "parsed" /\ call'[k] = "submitted"
                          \/ k = j /\ call[k] # "done" /\ call'[k] = "done"
    BY <1>3 DEF submitWorkflow, submitCronJob, CronTypes
  <2>2. \A k \in Job : JobFits(k)'
    BY <1>0, <1>3, <2>1 DEF submitWorkflow, submitCronJob, JobFits
  <2> QED
    BY <1>1, <2>1, <2>2
<1>4. ASSUME NEW j \in Job, GiveUpSending(j) PROVE CronFits'
  <2>1. /\ Up /\ running' = running
        /\ \A k \in Job : call'[k] = call[k] \/ (k = j /\ call[k] # "done" /\ call'[k] = "failed")
    BY <1>4 DEF GiveUpSending, CronTypes
  <2>2. \A k \in Job : JobFits(k)'
    BY <1>0, <1>4, <2>1 DEF GiveUpSending, JobFits
  <2> QED
    BY <1>1, <2>1, <2>2
<1>5. ASSUME NEW j \in Job, handleWorkflowSubmitted(j) PROVE CronFits'
  BY <1>0, <1>1, <1>5 DEF handleWorkflowSubmitted, Handle, JobFits
<1>6. ASSUME NEW j \in Job, handleCronJobScheduled(j) PROVE CronFits'
  <2>1. call[j] = "done" /\ j \notin cronRows
    <3>1. 1 \in 1 .. Len(cronBus) /\ On(1, "CronJobScheduled", j)
      BY <1>6, CronTaken DEF handleCronJobScheduled
    <3> QED
      BY <3>1 DEF CronBusFits, EventFits
  <2>2. /\ Up /\ running' = running /\ saved = {} /\ saved' = {j} /\ cronRows' = cronRows \union {j}
        /\ UNCHANGED <<call, entries, firings>>
    BY <1>6 DEF handleCronJobScheduled, Handle
  <2>3. entries[j] = 0
    BY <1>0, <2>1 DEF JobFits, CronTypes
  <2>4. \A k \in Job : JobFits(k)'
    BY <1>0, <2>1, <2>2, <2>3 DEF JobFits
  <2> QED
    BY <1>1, <2>2, <2>4
<1>7. ASSUME NEW j \in Job, CronJobNotSaved(j) PROVE CronFits'
  BY <1>0, <1>1, <1>7 DEF CronJobNotSaved, Handle, JobFits
<1>8. ASSUME NEW j \in Job, RegisterDynamic(j) PROVE CronFits'
  <2>1. /\ Up /\ running' = running /\ saved = {j} /\ saved' = {} /\ UNCHANGED <<call, cronRows, firings>>
    BY <1>8 DEF RegisterDynamic
  <2>2. j \in cronRows /\ entries[j] = 0
    BY <1>0, <2>1 DEF JobFits
  <2>3. \A k \in Job \ {j} : entries'[k] = entries[k]
    BY <1>8 DEF RegisterDynamic, Registered, CronTypes
  <2>4. entries'[j] = (IF j \in BadSchedule THEN 0 ELSE 1)
    BY <1>8, <2>2 DEF RegisterDynamic, Registered, CronTypes
  <2>5. ASSUME NEW k \in Job PROVE JobFits(k)'
    <3>1. CASE k = j
      BY <1>0, <2>1, <2>2, <2>4, <3>1 DEF JobFits
    <3>2. CASE k # j
      BY <1>0, <2>1, <2>3, <3>2 DEF JobFits
    <3> QED
      BY <3>1, <3>2
  <2> QED
    BY <1>1, <2>1, <2>5
<1>9. ASSUME NEW j \in Job, Fire(j) PROVE CronFits'
  <2>1. /\ Up /\ running' = running /\ UNCHANGED <<call, cronRows, saved, entries>>
        /\ \A k \in Job \ {j} : firings'[k] = firings[k]
    BY <1>9 DEF Fire, CronTypes
  <2>2. j \in cronRows
    BY <1>0, <1>9 DEF Fire, JobFits
  <2>3. \A k \in Job : JobFits(k)'
    BY <1>0, <2>1, <2>2 DEF JobFits
  <2> QED
    BY <1>1, <2>1, <2>3
<1>10. ASSUME NEW j \in Job, onFire(j) PROVE CronFits'
  <2>1. /\ Up /\ running' = running /\ UNCHANGED <<call, cronRows, saved, entries>>
        /\ \A k \in Job \ {j} : firings'[k] = firings[k]
        /\ firings[j] > 0
    BY <1>10 DEF onFire, CronTypes
  <2>2. \A k \in Job : JobFits(k)'
    BY <1>0, <2>1 DEF JobFits
  <2> QED
    BY <1>1, <2>1, <2>2
<1>11. ASSUME NEW j \in Job, handleWorkflowInstantiate(j) \/ handleAgentExecute(j) PROVE CronFits'
  BY <1>0, <1>1, <1>11 DEF handleWorkflowInstantiate, handleAgentExecute, Handle, JobFits
<1>12. CASE Crash
  <2>1. running' = "no" /\ saved' = {} /\ Len(cronBus') = 0 /\ UNCHANGED cronRows
    BY <1>12 DEF Crash
  <2>2. \A k \in Job : entries'[k] = 0 /\ firings'[k] = 0
    BY <1>12 DEF Crash
  <2>3. \A k \in Job : call'[k] = call[k] \/ (call[k] \in {"parsed", "submitted"} /\ call'[k] = "failed")
    <3>1. call' = [k \in Job |-> IF call[k] \in {"parsed", "submitted"} THEN "failed" ELSE call[k]]
      BY <1>12 DEF Crash
    <3> QED
      BY <3>1
  <2>4. \A k \in Job : JobFits(k)'
    BY <1>0, <2>1, <2>2, <2>3 DEF JobFits
  <2> QED
    BY <2>1, <2>2, <2>4 DEF CronFits
<1>13. CASE loadCronJobs
  <2>1. running = "no" /\ running' = "yes" /\ UNCHANGED <<call, cronRows, saved, firings>>
    BY <1>13 DEF loadCronJobs, Up, CronTypes
  <2>2. saved = {} /\ \A k \in Job : entries[k] = 0
    BY <2>1 DEF CronFits
  <2>3. \A k \in Job : entries'[k] = (IF k \in cronRows /\ k \notin BadSchedule THEN 1 ELSE 0)
    BY <1>13, <2>2 DEF loadCronJobs, Registered, CronTypes
  <2>4. \A k \in Job : JobFits(k)'
    BY <1>0, <2>1, <2>2, <2>3 DEF JobFits
  <2> QED
    BY <2>1, <2>4 DEF CronFits
<1>14. CASE JobsNotListed
  <2>1. running = "no" /\ running' = "deaf" /\ UNCHANGED <<call, cronRows, saved, firings, entries>>
    BY <1>14 DEF JobsNotListed, Up, CronTypes
  <2>2. \A k \in Job : JobFits(k)'
    BY <1>0, <2>1 DEF JobFits
  <2> QED
    BY <2>1, <2>2 DEF CronFits
<1>15. CASE UNCHANGED cronVars
  BY <1>15 DEF cronVars, CronFits, JobFits
<1> QED
  BY <1>2, <1>3, <1>4, <1>5, <1>6, <1>7, <1>8, <1>9, <1>10, <1>11, <1>12, <1>13, <1>14, <1>15 DEF CronNext

LEMMA CronBusNext ==
  ASSUME CronTypes, CronFits, CronBusFits, TemplatesFit, [CronNext]_cronVars
  PROVE  CronBusFits' /\ TemplatesFit'
<1> DEFINE goal == CronBusFits' /\ TemplatesFit'
<1>0. {"WorkflowSubmitted", "CronJobScheduled", "WorkflowInstantiate", "AgentExecute"} \subseteq EventTypes
  BY DEF EventTypes
<1>1. ASSUME NEW j \in Job, parseWorkflow(j) \/ GiveUpSending(j) PROVE goal
  <2>1. CallsStay
    <3>1. \A k \in Job : call'[k] = call[k] \/ (call[k] # "done" /\ call'[k] \in {"parsed", "failed"})
      BY <1>1 DEF parseWorkflow, GiveUpSending, CronTypes
    <3> QED
      BY <3>1 DEF CallsStay
  <2> QED
    BY <1>1, <2>1, CronQuiet DEF parseWorkflow, GiveUpSending
<1>2. ASSUME NEW j \in Job, submitWorkflow(j) PROVE goal
  <2>1. SenderFits("WorkflowSubmitted", j)
    BY <1>2 DEF submitWorkflow, SenderFits, CronTypes
  <2> QED
    BY <1>0, <1>2, <2>1, CronSends DEF submitWorkflow
<1>3. ASSUME NEW j \in Job, submitCronJob(j) PROVE goal
  <2>1. SenderFits("CronJobScheduled", j)
    BY <1>3 DEF submitCronJob, SenderFits, CronTypes
  <2> QED
    BY <1>0, <1>3, <2>1, CronSends DEF submitCronJob
<1>4. ASSUME NEW j \in Job, handleWorkflowSubmitted(j) PROVE goal
  <2>1. TemplateKnown(j)' /\ RunsFindTemplates /\ templates \subseteq templates' /\ refused \subseteq refused'
    BY <1>4 DEF handleWorkflowSubmitted, TemplateKnown, RunsFindTemplates
  <2>2. UNCHANGED <<call, cronRows>> /\ Handle("WorkflowSubmitted", j)
    BY <1>4 DEF handleWorkflowSubmitted
  <2> QED
    BY <1>0, <2>1, <2>2, CronTakes
<1>5. ASSUME NEW j \in Job, handleCronJobScheduled(j) PROVE goal
  <2>1. RunsFindTemplates /\ UNCHANGED <<templates, refused>>
    BY <1>5 DEF handleCronJobScheduled, RunsFindTemplates
  <2>2. UNCHANGED call /\ cronRows' = cronRows \union {j} /\ Handle("CronJobScheduled", j)
    BY <1>5 DEF handleCronJobScheduled
  <2> QED
    BY <1>0, <2>1, <2>2, CronTakes
<1>6. ASSUME NEW j \in Job, CronJobNotSaved(j) PROVE goal
  <2>1. RunsFindTemplates /\ UNCHANGED <<templates, refused>>
    BY <1>6 DEF CronJobNotSaved, RunsFindTemplates
  <2>2. UNCHANGED <<call, cronRows>> /\ Handle("CronJobScheduled", j)
    BY <1>6 DEF CronJobNotSaved
  <2> QED
    BY <1>0, <2>1, <2>2, CronTakes
<1>7. ASSUME NEW j \in Job, RegisterDynamic(j) \/ Fire(j) PROVE goal
  <2>1. CallsStay /\ UNCHANGED <<cronBus, cronRows, templates, refused, lastRun>>
    BY <1>7 DEF RegisterDynamic, Fire, CallsStay
  <2> QED
    BY <2>1, CronQuiet
<1>8. ASSUME NEW j \in Job, onFire(j) PROVE goal
  <2>1. UNCHANGED <<call, cronRows, templates, refused, lastRun>>
    BY <1>8 DEF onFire
  <2>2. j \in cronRows
    BY <1>8 DEF onFire, CronFits, JobFits
  <2>3. CASE j \in WorkflowJob
    <3>1. SenderFits("WorkflowInstantiate", j) /\ Send(<<"WorkflowInstantiate", j>>)
      BY <1>8, <2>1, <2>2, <2>3 DEF onFire, SenderFits
    <3> QED
      BY <1>0, <2>1, <3>1, CronSends
  <2>4. CASE j \notin WorkflowJob
    <3>1. SenderFits("AgentExecute", j) /\ Send(<<"AgentExecute", j>>)
      BY <1>8, <2>1, <2>4 DEF onFire, SenderFits
    <3> QED
      BY <1>0, <2>1, <3>1, CronSends
  <2> QED
    BY <2>3, <2>4
<1>9. ASSUME NEW j \in Job, handleWorkflowInstantiate(j) PROVE goal
  <2>1. UNCHANGED <<call, cronRows, templates, refused>> /\ Handle("WorkflowInstantiate", j)
    BY <1>9 DEF handleWorkflowInstantiate
  <2>2. RunsFindTemplates
    <3>1. j \in cronRows /\ j \in WorkflowJob
      <4>1. 1 \in 1 .. Len(cronBus) /\ On(1, "WorkflowInstantiate", j)
        BY <2>1, CronTaken
      <4> QED
        BY <4>1 DEF CronBusFits, EventFits
    <3>2. j \in templates \/ j \in refused
      BY <3>1 DEF TemplatesFit, TemplateKnown
    <3>3. \A k \in Job : k # j => lastRun'[k] = lastRun[k]
      BY <1>9 DEF handleWorkflowInstantiate, CronTypes
    <3>4. lastRun'[j] = "no template" => j \notin templates
      BY <1>9 DEF handleWorkflowInstantiate, CronTypes
    <3> QED
      BY <2>1, <3>2, <3>3, <3>4 DEF RunsFindTemplates
  <2> QED
    BY <1>0, <2>1, <2>2, CronTakes
<1>10. ASSUME NEW j \in Job, handleAgentExecute(j) PROVE goal
  <2>1. UNCHANGED <<call, cronRows, templates, refused>> /\ Handle("AgentExecute", j)
    BY <1>10 DEF handleAgentExecute
  <2>2. RunsFindTemplates
    BY <1>10 DEF handleAgentExecute, CronTypes, RunsFindTemplates
  <2> QED
    BY <1>0, <2>1, <2>2, CronTakes
<1>11. CASE Crash
  <2>1. CronBusFits'
    <3>1. 1 .. Len(cronBus') = {}
      BY <1>11 DEF Crash
    <3> QED
      BY <3>1 DEF CronBusFits
  <2>2. TemplatesFit'
    <3>1. \A k \in Job : call'[k] # "submitted"
      BY <1>11 DEF Crash
    <3>2. UNCHANGED <<cronRows, templates, refused, lastRun>>
      BY <1>11 DEF Crash
    <3> QED
      BY <3>1, <3>2 DEF TemplatesFit, TemplateKnown
  <2> QED
    BY <2>1, <2>2
<1>12. CASE loadCronJobs \/ JobsNotListed
  <2>1. CallsStay /\ UNCHANGED <<cronBus, cronRows, templates, refused, lastRun>>
    BY <1>12 DEF loadCronJobs, JobsNotListed, CallsStay
  <2> QED
    BY <2>1, CronQuiet
<1>13. CASE UNCHANGED cronVars
  <2>1. CallsStay /\ UNCHANGED <<cronBus, cronRows, templates, refused, lastRun>>
    BY <1>13 DEF cronVars, CallsStay
  <2> QED
    BY <2>1, CronQuiet
<1> QED
  BY <1>1, <1>2, <1>3, <1>4, <1>5, <1>6, <1>7, <1>8, <1>9, <1>10, <1>11, <1>12, <1>13 DEF CronNext

LEMMA CronSafe == CronSpec => []CronInductive
<1>1. ASSUME CronInductive, [CronNext]_cronVars PROVE CronInductive'
  BY <1>1, CronTypesNext, CronFitsNext, CronBusNext DEF CronInductive
<1> QED
  BY <1>1, CronStarts, PTL DEF CronSpec

(* The state of the scheduler stays what the code's types allow: in        *)
(* particular at most one job is between its row and its entry, and no job *)
(* has two entries.                                                        *)
THEOREM CronTypeCorrect == CronSpec => []CronTypeOK
<1>1. CronInductive => CronTypeOK
  BY CronTypesOK DEF CronInductive
<1> QED
  BY <1>1, CronSafe, PTL

(* What is scheduled runs once per firing and finds its template, through  *)
(* a full bus, failing writes, crashes between any two steps and restarts, *)
(* for all numbers of jobs and every size of the bus.                      *)
THEOREM ScheduledWorkIsDone == CronSpec => []ScheduledWorkRuns
<1>1. CronInductive => JobsRunOnce
  BY DEF CronInductive, CronTypes, CronFits, JobFits, JobsRunOnce, Up
<1>2. CronInductive => TemplatesComeFirst
  BY DEF CronInductive, TemplatesFit, TemplateKnown, TemplatesComeFirst
<1> QED
  BY <1>1, <1>2, CronSafe, PTL DEF ScheduledWorkRuns
(*************************** Entities and relations ***************************)

Stages == {"new", "look up", "confirm", "write", "link", "relate", "done"}
Fact == [subject : Name, object : Name \union {Literal}]
Found == UNION {[names -> SUBSET EntityId] : names \in SUBSET Name}
Ids == UNION {[names -> EntityId] : names \in SUBSET Name}
IngestRecord == [at : Stages, names : SUBSET Name, facts : SUBSET Fact, candidates : Found, ids : Ids]

NexusTypes ==
  /\ entities \subseteq EntityId \X Name /\ aliases \subseteq EntityId \X Name
  /\ relations \subseteq [subject : EntityId, object : EntityId \union Name \union {Literal}]
  /\ linked \in [Ingest -> SUBSET EntityId]
  /\ ingest \in [Ingest -> IngestRecord]

Known == {e[1] : e \in entities}

NamesAreUnique == \A e, f \in entities : e[2] = f[2] => e = f

\* What the graph refers to is an entity.
GraphFits ==
  /\ \A r \in relations : r.subject \in Known
  /\ \A a \in aliases : a[1] \in Known
  /\ \A i \in Ingest : linked[i] \subseteq Known

\* What an ingest has found, picked and written is an entity: none ever goes.
RecordFits(r, known) ==
  /\ \A n \in DOMAIN r.candidates : r.candidates[n] \subseteq known
  /\ \A n \in DOMAIN r.ids : r.ids[n] \in known
  /\ r.at = "confirm" => DOMAIN r.candidates = r.names

IngestsFit == \A i \in Ingest : RecordFits(ingest[i], Known)

NexusInductive == NexusTypes /\ NamesAreUnique /\ GraphFits /\ IngestsFit

LEMMA FoundIs ==
  /\ \A f : f \in Found <=> DOMAIN f \subseteq Name /\ f \in [DOMAIN f -> SUBSET EntityId]
  /\ \A f : f \in Ids <=> DOMAIN f \subseteq Name /\ f \in [DOMAIN f -> EntityId]
BY DEF Found, Ids

LEMMA NothingFits == Nothing \in IngestRecord /\ \A known : RecordFits(Nothing, known)
<1>1. DOMAIN <<>> = {}
  OBVIOUS
<1>2. <<>> \in Found /\ <<>> \in Ids
  <2>1. <<>> \in [{} -> SUBSET EntityId] /\ <<>> \in [{} -> EntityId]
    BY <1>1
  <2> QED
    BY <1>1, <2>1, FoundIs
<1> QED
  BY <1>1, <1>2 DEF Nothing, IngestRecord, RecordFits, Stages

LEMMA FoundWith ==
  ASSUME NEW f \in Found, NEW n \in Name, NEW x \in SUBSET EntityId
  PROVE  /\ With(f, n, x) \in Found /\ DOMAIN With(f, n, x) = DOMAIN f \union {n}
         /\ With(f, n, x)[n] = x /\ \A m \in DOMAIN f \ {n} : With(f, n, x)[m] = f[m]
<1>1. DOMAIN f \union {n} \subseteq Name /\ f \in [DOMAIN f -> SUBSET EntityId]
  BY FoundIs
<1>2. /\ With(f, n, x) \in [DOMAIN f \union {n} -> SUBSET EntityId]
      /\ \A m \in DOMAIN f \union {n} : With(f, n, x)[m] = (IF m = n THEN x ELSE f[m])
  BY <1>1 DEF With
<1> QED
  BY <1>1, <1>2, FoundIs

LEMMA IdsWith ==
  ASSUME NEW f \in Ids, NEW n \in Name, NEW x \in EntityId
  PROVE  /\ With(f, n, x) \in Ids /\ DOMAIN With(f, n, x) = DOMAIN f \union {n}
         /\ With(f, n, x)[n] = x /\ \A m \in DOMAIN f \ {n} : With(f, n, x)[m] = f[m]
<1>1. DOMAIN f \union {n} \subseteq Name /\ f \in [DOMAIN f -> EntityId]
  BY FoundIs
<1>2. /\ With(f, n, x) \in [DOMAIN f \union {n} -> EntityId]
      /\ \A m \in DOMAIN f \union {n} : With(f, n, x)[m] = (IF m = n THEN x ELSE f[m])
  BY <1>1 DEF With
<1> QED
  BY <1>1, <1>2, FoundIs

LEMMA WithoutFits ==
  ASSUME NEW f \in Found, NEW n
  PROVE  /\ [m \in DOMAIN f \ {n} |-> f[m]] \in Found
         /\ DOMAIN [m \in DOMAIN f \ {n} |-> f[m]] = DOMAIN f \ {n}
         /\ \A m \in DOMAIN f \ {n} : [k \in DOMAIN f \ {n} |-> f[k]][m] = f[m]
<1>1. DOMAIN f \ {n} \subseteq Name /\ f \in [DOMAIN f -> SUBSET EntityId]
  BY FoundIs
<1>2. [m \in DOMAIN f \ {n} |-> f[m]] \in [DOMAIN f \ {n} -> SUBSET EntityId]
  BY <1>1
<1> QED
  BY <1>1, <1>2, FoundIs

\* An ingest goes on with what fits the entities that are there then.
LEMMA IngestGoes ==
  ASSUME NexusInductive, NEW i \in Ingest, NEW to \in IngestRecord, Goes(i, to),
         entities \subseteq entities', RecordFits(to, Known')
  PROVE  ingest' \in [Ingest -> IngestRecord] /\ IngestsFit'
<1>1. ingest' \in [Ingest -> IngestRecord]
  BY DEF Goes, NexusInductive, NexusTypes
<1>2. Known \subseteq Known'
  BY DEF Known
<1>3. \A k \in Ingest : ingest'[k] = to \/ ingest'[k] = ingest[k]
  BY DEF Goes, NexusInductive, NexusTypes
<1>4. \A k \in Ingest : RecordFits(ingest[k], Known')
  BY <1>2 DEF NexusInductive, IngestsFit, RecordFits
<1> QED
  BY <1>1, <1>3, <1>4 DEF IngestsFit

\* What refers to entities still does when there are more.
LEMMA GraphStays ==
  ASSUME NexusInductive, entities \subseteq entities', UNCHANGED <<aliases, relations, linked>>
  PROVE  GraphFits'
<1>1. Known \subseteq Known'
  BY DEF Known
<1> QED
  BY <1>1 DEF NexusInductive, GraphFits

\* A name without an entity gets one.
LEMMA EntityAdded ==
  ASSUME NexusInductive, NEW id \in EntityId, NEW n \in Name,
         FindSimilarEntities(n) = {} \/ <<id, n>> \in entities, entities' = entities \union {<<id, n>>}
  PROVE  entities' \subseteq EntityId \X Name /\ NamesAreUnique' /\ id \in Known' /\ entities \subseteq entities'
<1>1. entities' \subseteq EntityId \X Name /\ entities \subseteq entities'
  BY DEF NexusInductive, NexusTypes
<1>2. <<id, n>>[1] = id /\ <<id, n>>[2] = n
  OBVIOUS
<1>3. id \in Known'
  BY <1>2 DEF Known
<1>4. NamesAreUnique'
  <2>1. CASE <<id, n>> \in entities
    BY <2>1 DEF NexusInductive, NamesAreUnique
  <2>2. CASE FindSimilarEntities(n) = {}
    <3>1. \A e \in entities : e[2] # n
      BY <2>2 DEF FindSimilarEntities
    <3> QED
      BY <1>2, <3>1 DEF NexusInductive, NamesAreUnique
  <2> QED
    BY <2>1, <2>2
<1> QED
  BY <1>1, <1>3, <1>4

LEMMA NexusNextKeeps ==
  ASSUME NexusInductive, [NexusNext]_nexusVars
  PROVE  NexusInductive'
<1> USE DEF NexusInductive
<1>0. /\ {"new", "look up", "confirm", "write", "link", "relate", "done"} \subseteq Stages
      /\ \A k \in Ingest : ingest[k] \in IngestRecord /\ RecordFits(ingest[k], Known)
  BY DEF NexusTypes, Stages, IngestsFit
\* The ingest goes on without a write.
<1>1. ASSUME NEW i \in Ingest, NEW to \in IngestRecord, Goes(i, to), RecordFits(to, Known),
             UNCHANGED <<entities, aliases, relations, linked>>
      PROVE  NexusInductive'
  <2>1. Known' = Known
    BY <1>1 DEF Known
  <2>2. ingest' \in [Ingest -> IngestRecord] /\ IngestsFit'
    BY <1>1, <2>1, IngestGoes
  <2>3. GraphFits'
    BY <1>1, GraphStays
  <2>4. NamesAreUnique'
    BY <1>1 DEF NamesAreUnique
  <2> QED
    BY <1>1, <2>2, <2>3, <2>4 DEF NexusTypes
<1>2. ASSUME NEW i \in Ingest, fromSessionExtraction(i) \/ fromRememberInput(i) PROVE NexusInductive'
  <2>1. PICK names \in SUBSET Name, s \in Name, o \in Name \union {Literal} :
          Goes(i, [Nothing EXCEPT !.at = "look up", !.names = {normalizeEntityName(n) : n \in names},
                                  !.facts = {[subject |-> s, object |-> o]}])
    <3>1. CASE fromSessionExtraction(i)
      BY <3>1 DEF fromSessionExtraction
    <3>2. CASE fromRememberInput(i)
      <4>1. PICK s \in Name, o \in Name \union {Literal} :
              Goes(i, [Nothing EXCEPT !.at = "look up", !.names = {normalizeEntityName(s)},
                                      !.facts = {[subject |-> s, object |-> o]}])
        BY <3>2 DEF fromRememberInput
      <4>2. {normalizeEntityName(n) : n \in {s}} = {normalizeEntityName(s)}
        OBVIOUS
      <4>3. Goes(i, [Nothing EXCEPT !.at = "look up", !.names = {normalizeEntityName(n) : n \in {s}},
                                    !.facts = {[subject |-> s, object |-> o]}])
        BY <4>1, <4>2
      <4> QED
        BY <4>3
    <3> QED
      BY <1>2, <3>1, <3>2
  <2> DEFINE given == {normalizeEntityName(n) : n \in names}
  <2> DEFINE facts == {[subject |-> s, object |-> o]}
  <2> DEFINE to == [Nothing EXCEPT !.at = "look up", !.names = given, !.facts = facts]
  <2>2. given \subseteq Name /\ facts \subseteq Fact
    BY DEF normalizeEntityName, Fact
  <2>3. Goes(i, to)
    BY <2>1
  <2> HIDE DEF given, facts
  <2>4. to \in IngestRecord /\ RecordFits(to, Known)
    <3>1. to \in IngestRecord
      BY <1>0, <2>2, NothingFits DEF IngestRecord
    <3>2. to.candidates = Nothing.candidates /\ to.ids = Nothing.ids /\ to.at = "look up"
      BY NothingFits DEF IngestRecord
    <3> QED
      BY <3>1, <3>2, NothingFits DEF RecordFits
  <2> HIDE DEF to
  <2>5. UNCHANGED <<entities, aliases, relations, linked>>
    BY <1>2 DEF fromSessionExtraction, fromRememberInput
  <2> QED
    BY <1>1, <2>3, <2>4, <2>5
<1>3. ASSUME NEW i \in Ingest, LookUpEntity(i) PROVE NexusInductive'
  <2> DEFINE r == ingest[i]
  <2>1. UNCHANGED <<entities, aliases, relations, linked>> /\ r.at = "look up"
    BY <1>3 DEF LookUpEntity
  <2>2. CASE DOMAIN r.candidates = r.names
    <3> DEFINE to == [r EXCEPT !.at = "confirm"]
    <3>1. Goes(i, to)
      BY <1>3, <2>2 DEF LookUpEntity
    <3>2. to \in IngestRecord /\ to.candidates = r.candidates /\ to.ids = r.ids /\ to.names = r.names
      BY <1>0 DEF IngestRecord
    <3>3. RecordFits(to, Known)
      BY <1>0, <2>2, <3>2 DEF RecordFits
    <3> QED
      BY <1>1, <2>1, <3>1, <3>2, <3>3
  <2>3. CASE DOMAIN r.candidates # r.names
    <3>1. PICK n \in r.names \ DOMAIN r.candidates, alike \in Resembling :
            Goes(i, [r EXCEPT !.candidates = With(r.candidates, n, alike)])
      BY <1>3, <2>3 DEF LookUpEntity
    <3> DEFINE more == With(r.candidates, n, alike)
    <3> DEFINE to == [r EXCEPT !.candidates = more]
    <3>2. n \in Name /\ alike \subseteq Known /\ alike \in SUBSET EntityId /\ r.candidates \in Found
      <4>1. n \in Name /\ r.candidates \in Found
        BY <1>0, <3>1 DEF IngestRecord
      <4>2. alike \subseteq Known
        BY <3>1 DEF Resembling, Known
      <4>3. Known \subseteq EntityId
        BY DEF Known, NexusTypes
      <4> QED
        BY <4>1, <4>2, <4>3
    <3>3. /\ more \in Found /\ DOMAIN more = DOMAIN r.candidates \union {n}
          /\ more[n] = alike /\ \A m \in DOMAIN r.candidates \ {n} : more[m] = r.candidates[m]
      BY ONLY <3>2, FoundWith
    <3>4. Goes(i, to)
      BY <3>1
    <3> HIDE DEF more
    <3>5. to \in IngestRecord /\ to.candidates = more /\ to.ids = r.ids /\ to.at = "look up"
      BY <1>0, <2>1, <3>3 DEF IngestRecord
    <3>6. RecordFits(to, Known)
      BY <1>0, <3>2, <3>3, <3>5 DEF RecordFits
    <3> QED
      BY <1>1, <2>1, <3>4, <3>5, <3>6
  <2> QED
    BY <2>2, <2>3
<1>4. ASSUME NEW i \in Ingest, batchConfirmMatches(i) PROVE NexusInductive'
  <2> DEFINE r == ingest[i]
  <2>1. PICK picked \in parseBatchDedupResponse(i) : Goes(i, [r EXCEPT !.at = "write", !.candidates = picked])
    BY <1>4 DEF batchConfirmMatches
  <2> DEFINE to == [r EXCEPT !.at = "write", !.candidates = picked]
  <2>2. /\ picked \in [r.names -> SUBSET EntityId] /\ DOMAIN r.candidates = r.names /\ r.names \subseteq Name
        /\ \A n \in r.names : picked[n] \subseteq r.candidates[n]
    BY <1>0, <1>4, <2>1 DEF parseBatchDedupResponse, batchConfirmMatches, RecordFits, IngestRecord
  <2>3. picked \in Found
    BY <2>2, FoundIs
  <2>4. to \in IngestRecord /\ to.candidates = picked /\ to.ids = r.ids /\ to.at = "write"
    BY <1>0, <2>3 DEF IngestRecord
  <2>5. RecordFits(to, Known)
    BY <1>0, <2>2, <2>4 DEF RecordFits
  <2>6. UNCHANGED <<entities, aliases, relations, linked>>
    BY <1>4 DEF batchConfirmMatches
  <2> QED
    BY <1>1, <2>1, <2>4, <2>5, <2>6
\* A name is resolved, or given up.
<1>5. ASSUME NEW i \in Ingest, NEW n \in ToWrite(i)
      PROVE  ingest[i].at = "write" /\ n \in DOMAIN ingest[i].candidates /\ n \in Name
  BY <1>0, <1>5, FoundIs DEF ToWrite, IngestRecord
<1>6. ASSUME NEW i \in Ingest, NEW n \in ToWrite(i), NEW id \in EntityId, entities \subseteq entities', id \in Known',
             Resolved(i, n, id)
      PROVE  ingest' \in [Ingest -> IngestRecord] /\ IngestsFit'
  <2> DEFINE r == ingest[i]
  <2> DEFINE remaining == [m \in DOMAIN r.candidates \ {n} |-> r.candidates[m]]
  <2> DEFINE more == With(r.ids, n, id)
  <2> DEFINE to == [r EXCEPT !.candidates = remaining, !.ids = more]
  <2>1. Goes(i, to)
    BY <1>6 DEF Resolved
  <2>2. /\ remaining \in Found /\ DOMAIN remaining = DOMAIN r.candidates \ {n}
        /\ \A m \in DOMAIN r.candidates \ {n} : remaining[m] = r.candidates[m]
    BY <1>0, WithoutFits DEF IngestRecord
  <2> HIDE DEF remaining
  <2>3. r.at = "write" /\ n \in Name /\ Known \subseteq Known'
    BY <1>5, <1>6 DEF Known
  <2>6. /\ more \in Ids /\ DOMAIN more = DOMAIN r.ids \union {n}
        /\ more[n] = id /\ \A m \in DOMAIN r.ids \ {n} : more[m] = r.ids[m]
    <3>1. r.ids \in Ids
      BY <1>0 DEF IngestRecord
    <3> QED
      BY <2>3, <3>1, IdsWith
  <2> HIDE DEF more
  <2>4. to \in IngestRecord /\ to.candidates = remaining /\ to.ids = more /\ to.at = "write"
    BY <1>0, <2>2, <2>3, <2>6 DEF IngestRecord
  <2>5. RecordFits(to, Known')
    BY <1>0, <1>6, <2>2, <2>3, <2>4, <2>6 DEF RecordFits
  <2> HIDE DEF to
  <2> QED
    BY <1>6, <2>1, <2>4, <2>5, IngestGoes
<1>7. ASSUME NEW i \in Ingest, writeAlias(i) PROVE NexusInductive'
  <2>1. PICK n \in ToWrite(i) : \E id \in ingest[i].candidates[n] :
          /\ aliases' = IF i \in Remembered THEN aliases ELSE aliases \union {<<id, n>>}
          /\ Resolved(i, n, id)
    BY <1>7 DEF writeAlias
  <2>2. PICK id \in ingest[i].candidates[n] :
          /\ aliases' = IF i \in Remembered THEN aliases ELSE aliases \union {<<id, n>>}
          /\ Resolved(i, n, id)
    BY <2>1
  <2>3. UNCHANGED <<entities, relations, linked>> /\ Known' = Known
    BY <1>7 DEF writeAlias, Known
  <2>4. n \in Name /\ id \in Known /\ id \in EntityId
    <3>1. n \in Name /\ id \in Known
      BY <1>0, <1>5, <2>2 DEF RecordFits
    <3> QED
      BY <3>1 DEF Known, NexusTypes
  <2>5. ingest' \in [Ingest -> IngestRecord] /\ IngestsFit'
    BY <1>6, <2>2, <2>3, <2>4
  <2>6. aliases' \subseteq EntityId \X Name /\ \A a \in aliases' : a[1] \in Known'
    <3>1. aliases' \subseteq aliases \union {<<id, n>>} /\ <<id, n>> \in EntityId \X Name /\ <<id, n>>[1] = id
      BY <2>2, <2>4
    <3> QED
      BY <2>3, <2>4, <3>1 DEF NexusTypes, GraphFits
  <2>7. GraphFits' /\ NamesAreUnique'
    BY <2>3, <2>6 DEF GraphFits, NamesAreUnique
  <2> QED
    BY <2>3, <2>5, <2>6, <2>7 DEF NexusTypes
<1>8. ASSUME NEW i \in Ingest, WriteEntity(i) PROVE NexusInductive'
  <2>1. PICK n \in ToWrite(i) : UpsertEntity(i, n)
    BY <1>8 DEF WriteEntity
  <2>2. n \in Name
    BY <1>5
  <2> DEFINE known == FindSimilarEntities(n)
  <2> DEFINE id == IF known = {} THEN <<i, n>> ELSE CHOOSE k \in known : TRUE
  <2>3. entities' = entities \union {<<id, n>>} /\ aliases' = aliases \union {<<id, n>>} /\ Resolved(i, n, id)
    BY <2>1 DEF UpsertEntity
  <2>4. id \in EntityId /\ (known = {} \/ <<id, n>> \in entities)
    <3>1. CASE known = {}
      BY <2>2, <3>1 DEF EntityId
    <3>2. CASE known # {}
      <4>1. id \in known
        BY <3>2
      <4>2. PICK e \in entities : e[2] = n /\ id = e[1]
        BY <4>1 DEF FindSimilarEntities
      <4>3. e = <<id, n>> /\ id \in EntityId
        BY <4>2 DEF NexusTypes
      <4> QED
        BY <4>2, <4>3
    <3> QED
      BY <3>1, <3>2
  <2> HIDE DEF id
  <2>5. entities' \subseteq EntityId \X Name /\ NamesAreUnique' /\ id \in Known' /\ entities \subseteq entities'
    BY <2>2, <2>3, <2>4, EntityAdded
  <2>6. ingest' \in [Ingest -> IngestRecord] /\ IngestsFit'
    BY <1>6, <2>3, <2>4, <2>5
  <2>7. UNCHANGED <<relations, linked>> /\ Known \subseteq Known'
    BY <1>8, <2>5 DEF WriteEntity, Known
  <2>8. aliases' \subseteq EntityId \X Name /\ \A a \in aliases' : a[1] \in Known'
    <3>1. <<id, n>> \in EntityId \X Name /\ <<id, n>>[1] = id
      BY <2>2, <2>4
    <3> QED
      BY <2>3, <2>5, <2>7, <3>1 DEF NexusTypes, GraphFits
  <2>9. GraphFits'
    BY <2>7, <2>8 DEF GraphFits
  <2> QED
    BY <2>5, <2>6, <2>7, <2>8, <2>9 DEF NexusTypes
<1>9. ASSUME NEW i \in Ingest, WriteFails(i) PROVE NexusInductive'
  <2> DEFINE r == ingest[i]
  <2>1. PICK n \in ToWrite(i) :
          /\ \/ UNCHANGED entities
             \/ FindSimilarEntities(n) = {} /\ entities' = entities \union {<<<<i, n>>, n>>}
          /\ Goes(i, [r EXCEPT !.candidates = [m \in DOMAIN r.candidates \ {n} |-> r.candidates[m]]])
    BY <1>9 DEF WriteFails
  <2> DEFINE remaining == [m \in DOMAIN r.candidates \ {n} |-> r.candidates[m]]
  <2> DEFINE to == [r EXCEPT !.candidates = remaining]
  <2>2. Goes(i, to)
    BY <2>1
  <2>3. /\ remaining \in Found /\ DOMAIN remaining = DOMAIN r.candidates \ {n}
        /\ \A m \in DOMAIN r.candidates \ {n} : remaining[m] = r.candidates[m]
    BY <1>0, WithoutFits DEF IngestRecord
  <2> HIDE DEF remaining
  <2>4. n \in Name /\ r.at = "write"
    BY <1>5
  <2>5. entities' \subseteq EntityId \X Name /\ NamesAreUnique' /\ entities \subseteq entities'
    <3>1. CASE UNCHANGED entities
      BY <3>1 DEF NexusTypes, NamesAreUnique
    <3>2. CASE FindSimilarEntities(n) = {} /\ entities' = entities \union {<<<<i, n>>, n>>}
      <4>1. <<i, n>> \in EntityId
        BY <2>4 DEF EntityId
      <4> QED
        BY <2>4, <3>2, <4>1, EntityAdded
    <3> QED
      BY <2>1, <3>1, <3>2
  <2>6. Known \subseteq Known'
    BY <2>5 DEF Known
  <2>7. to \in IngestRecord /\ to.candidates = remaining /\ to.ids = r.ids /\ to.at = "write"
    BY <1>0, <2>3, <2>4 DEF IngestRecord
  <2>8. RecordFits(to, Known')
    BY <1>0, <2>3, <2>6, <2>7 DEF RecordFits
  <2> HIDE DEF to
  <2>9. ingest' \in [Ingest -> IngestRecord] /\ IngestsFit'
    BY <2>2, <2>5, <2>7, <2>8, IngestGoes
  <2>10. UNCHANGED <<aliases, relations, linked>>
    BY <1>9 DEF WriteFails
  <2>11. GraphFits'
    BY <2>5, <2>10, GraphStays
  <2> QED
    BY <2>5, <2>9, <2>10, <2>11 DEF NexusTypes
<1>10. ASSUME NEW i \in Ingest, LinkEpisodeEntities(i) PROVE NexusInductive'
  <2> DEFINE r == ingest[i]
  <2> DEFINE to == [r EXCEPT !.at = "relate"]
  <2> DEFINE links == IF i \in Remembered THEN {} ELSE {r.ids[n] : n \in DOMAIN r.ids}
  <2>1. Goes(i, to) /\ linked' = [linked EXCEPT ![i] = links] /\ UNCHANGED <<entities, aliases, relations>>
    BY <1>10 DEF LinkEpisodeEntities
  <2>2. links \subseteq Known /\ Known \subseteq EntityId
    <3>1. \A n \in DOMAIN r.ids : r.ids[n] \in Known
      BY <1>0 DEF RecordFits
    <3>2. Known \subseteq EntityId
      BY DEF Known, NexusTypes
    <3> QED
      BY <3>1, <3>2
  <2> HIDE DEF links
  <2>3. to \in IngestRecord /\ to.candidates = r.candidates /\ to.ids = r.ids /\ to.at = "relate"
    BY <1>0 DEF IngestRecord
  <2>4. Known' = Known
    BY <2>1 DEF Known
  <2>5. RecordFits(to, Known')
    <3>1. RecordFits(to, Known)
      BY <1>0, <2>3 DEF RecordFits
    <3> QED
      BY <2>4, <3>1
  <2> HIDE DEF to
  <2>6. ingest' \in [Ingest -> IngestRecord] /\ IngestsFit'
    BY <2>1, <2>3, <2>5, IngestGoes
  <2>7. linked' \in [Ingest -> SUBSET EntityId] /\ \A k \in Ingest : linked'[k] \subseteq Known
    BY <2>1, <2>2 DEF NexusTypes, GraphFits
  <2>8. GraphFits' /\ NamesAreUnique'
    BY <2>1, <2>4, <2>7 DEF GraphFits, NamesAreUnique
  <2> QED
    BY <2>1, <2>6, <2>7, <2>8 DEF NexusTypes
<1>11. ASSUME NEW i \in Ingest, ingestRelation(i) PROVE NexusInductive'
  <2> DEFINE r == ingest[i]
  <2> DEFINE to == [r EXCEPT !.at = "done"]
  <2> DEFINE kept == {f \in r.facts : f.subject \in DOMAIN r.ids}
  <2> DEFINE new == {[subject |-> r.ids[f.subject],
                      object |-> IF f.object \in DOMAIN r.ids THEN r.ids[f.object] ELSE f.object] : f \in kept}
  <2>1. Goes(i, to) /\ relations' = relations \union new /\ UNCHANGED <<entities, aliases, linked>>
    BY <1>11 DEF ingestRelation
  <2>2. Known' = Known /\ Known \subseteq EntityId
    BY <2>1 DEF Known, NexusTypes
  <2>3. ASSUME NEW x \in new
        PROVE  x \in [subject : EntityId, object : EntityId \union Name \union {Literal}] /\ x.subject \in Known
    <3>1. PICK f \in kept : x = [subject |-> r.ids[f.subject],
                                 object |-> IF f.object \in DOMAIN r.ids THEN r.ids[f.object] ELSE f.object]
      BY <2>3
    <3>2. f \in Fact /\ f.subject \in DOMAIN r.ids
      BY <1>0, <3>1 DEF IngestRecord
    <3>3. \A n \in DOMAIN r.ids : r.ids[n] \in Known
      BY <1>0 DEF RecordFits
    <3> QED
      BY <2>2, <3>1, <3>2, <3>3 DEF Fact
  <2> HIDE DEF new
  <2>4. to \in IngestRecord /\ to.candidates = r.candidates /\ to.ids = r.ids /\ to.at = "done"
    BY <1>0 DEF IngestRecord
  <2>5. RecordFits(to, Known')
    <3>1. RecordFits(to, Known)
      BY <1>0, <2>4 DEF RecordFits
    <3> QED
      BY <2>2, <3>1
  <2> HIDE DEF to
  <2>6. ingest' \in [Ingest -> IngestRecord] /\ IngestsFit'
    BY <2>1, <2>4, <2>5, IngestGoes
  <2>7. GraphFits' /\ NamesAreUnique'
    BY <2>1, <2>2, <2>3 DEF GraphFits, NamesAreUnique
  <2> QED
    BY <2>1, <2>3, <2>6, <2>7 DEF NexusTypes
<1>12. CASE UNCHANGED nexusVars
  BY <1>12 DEF nexusVars, NexusTypes, NamesAreUnique, GraphFits, IngestsFit, Known
<1> QED
  BY <1>2, <1>3, <1>4, <1>7, <1>8, <1>9, <1>10, <1>11, <1>12 DEF NexusNext

LEMMA NexusSafe == NexusSpec => []NexusInductive
<1>1. NexusInit => NexusInductive
  <2> SUFFICES ASSUME NexusInit PROVE NexusInductive
    OBVIOUS
  <2>1. \A i \in Ingest : ingest[i] = Nothing
    BY DEF NexusInit
  <2>2. NexusTypes
    BY NothingFits DEF NexusInit, NexusTypes
  <2>3. IngestsFit
    BY <2>1, NothingFits DEF IngestsFit
  <2>4. NamesAreUnique /\ GraphFits
    BY DEF NexusInit, NamesAreUnique, GraphFits
  <2> QED
    BY <2>2, <2>3, <2>4 DEF NexusInductive
<1> QED
  BY <1>1, NexusNextKeeps, PTL DEF NexusSpec

(* The tables of the graph, and what an ingest has in hand, keep their     *)
(* types.                                                                  *)
THEOREM NexusTypeCorrect == NexusSpec => []NexusTypeOK
<1>1. NexusInductive => NexusTypeOK
  <2> SUFFICES ASSUME NexusInductive PROVE NexusTypeOK
    OBVIOUS
  <2>1. \A i \in Ingest :
          /\ ingest[i].at \in {"new", "look up", "confirm", "write", "link", "relate", "done"}
          /\ ingest[i].names \subseteq Name
          /\ DOMAIN ingest[i].candidates \subseteq Name /\ DOMAIN ingest[i].ids \subseteq Name
    BY FoundIs DEF NexusInductive, NexusTypes, IngestRecord, Stages
  <2> QED
    BY <2>1 DEF NexusInductive, NexusTypes, NexusTypeOK
<1> QED
  BY <1>1, NexusSafe, PTL

(* However ingests that name the same things interleave, and whichever of  *)
(* their statements fail, a name has one entity and nothing in the graph   *)
(* refers to an entity that is not there, for all sets of ingests and      *)
(* names.                                                                  *)
THEOREM EntitiesAreShared == NexusSpec => []OneEntityPerName
<1>1. NexusInductive => OneEntityPerName
  <2> SUFFICES ASSUME NexusInductive PROVE OneEntityPerName
    OBVIOUS
  <2>1. \A e, f \in entities : e[2] = f[2] => e = f
    BY DEF NexusInductive, NamesAreUnique
  <2>2. /\ {r.subject : r \in relations} \subseteq Known /\ {a[1] : a \in aliases} \subseteq Known
        /\ UNION {linked[i] : i \in Ingest} \subseteq Known
    BY DEF NexusInductive, GraphFits
  <2>3. {r.subject : r \in relations} \union {a[1] : a \in aliases} \union UNION {linked[i] : i \in Ingest}
          \subseteq Known
    BY <2>2
  <2> QED
    BY <2>1, <2>3 DEF OneEntityPerName, Known
<1> QED
  BY <1>1, NexusSafe, PTL
(***************************** Projects and tasks *****************************)

ToolCalls == {Free, Refused} \union Creating \union Changing

\* A batch that is being created, and its answer, account for every item.
CallFits(c, made) ==
  c.op \in {"create", "insert", "counted"} =>
    /\ c.asked = c.failed + Cardinality(c.created) + Len(c.todo)
    /\ IsFiniteSet(c.created) /\ c.created \subseteq made
    /\ c.op \in {"create", "insert"} => c.todo \in Batch
    /\ c.op = "counted" => Len(c.todo) = 0

TaskTypes ==
  /\ projects \subseteq madeProjects /\ madeProjects \subseteq Project
  /\ madeTasks \subseteq TaskId
  /\ tasks \in [TaskId -> TaskRow \union {NoRow}]
  /\ toolCall \in [Agent -> ToolCalls]

CallsFit == \A a \in Agent : CallFits(toolCall[a], madeTasks)

TaskInductive == TaskTypes /\ TasksHaveTheirProject /\ CallsFit

LEMMA KindOfCall ==
  ASSUME NEW c \in ToolCalls
  PROVE  /\ c.op \in {"create", "insert", "counted"} => c \in Creating
         /\ c.op \in {"find project", "write"} => c \in Changing
<1>1. c = Free => c.op = "free"
  BY DEF Free
<1>2. c = Refused => c.op = "refused"
  BY DEF Refused
<1>3. c \in Creating => c.op \in {"create", "insert", "counted"}
  BY DEF Creating
<1>4. c \in Changing => c.op \in {"find project", "write"}
  BY DEF Changing
<1> QED
  BY <1>1, <1>2, <1>3, <1>4 DEF ToolCalls

LEMMA BatchIs ==
  ASSUME NEW b \in Batch
  PROVE  /\ Len(b) \in 1 .. 2 /\ Head(b) \in Item
         /\ Len(Tail(b)) = Len(b) - 1
         /\ Tail(b) \in Batch \union {<<>>}
         /\ Len(b) > 1 => Tail(b) \in Batch
<1>1. CASE \E x \in Item : b = <<x>>
  <2>1. PICK x \in Item : b = <<x>>
    BY <1>1
  <2>2. Tail(<<x>>) = <<>> /\ Head(<<x>>) = x /\ Len(<<x>>) = 1
    OBVIOUS
  <2>3. Len(<<>>) = 0
    OBVIOUS
  <2> QED
    BY <2>1, <2>2, <2>3
<1>2. CASE \E x, y \in Item : b = <<x, y>>
  <2>1. PICK x \in Item, y \in Item : b = <<x, y>>
    BY <1>2
  <2>2. Tail(<<x, y>>) = <<y>> /\ Head(<<x, y>>) = x /\ Len(<<x, y>>) = 2
    OBVIOUS
  <2>3. Len(<<y>>) = 1 /\ <<y>> \in Batch
    BY DEF Batch
  <2> QED
    BY <2>1, <2>2, <2>3
<1> QED
  BY <1>1, <1>2 DEF Batch

\* A tool goes on with a call that fits the tasks that were made till then.
LEMMA CallGoes ==
  ASSUME TaskInductive, NEW a \in Agent, NEW what \in ToolCalls, Becomes(a, what),
         madeTasks \subseteq madeTasks', CallFits(what, madeTasks')
  PROVE  toolCall' \in [Agent -> ToolCalls] /\ CallsFit'
<1>1. toolCall' \in [Agent -> ToolCalls]
  BY DEF Becomes, TaskInductive, TaskTypes
<1>2. \A k \in Agent : toolCall'[k] = what \/ toolCall'[k] = toolCall[k]
  BY DEF Becomes, TaskInductive, TaskTypes
<1>3. \A k \in Agent : CallFits(toolCall[k], madeTasks')
  BY DEF TaskInductive, CallsFit, CallFits
<1> QED
  BY <1>1, <1>2, <1>3 DEF CallsFit

LEMMA PlainCall ==
  ASSUME NEW made, NEW c, c \in {Free, Refused} \union Changing
  PROVE  c \in ToolCalls /\ CallFits(c, made)
<1>1. c \in ToolCalls
  BY DEF ToolCalls
<1>2. c.op \in {"free", "refused", "find project", "write"}
  <2>1. c = Free => c.op = "free"
    BY DEF Free
  <2>2. c = Refused => c.op = "refused"
    BY DEF Refused
  <2>3. c \in Changing => c.op \in {"find project", "write"}
    BY DEF Changing
  <2> QED
    BY <2>1, <2>2, <2>3
<1> QED
  BY <1>1, <1>2 DEF CallFits

\* One more item is created or has failed, one fewer is to be done.
LEMMA ItemIsCounted ==
  ASSUME NEW asked \in 1 .. 2, NEW misses \in Nat, NEW created \in Nat, NEW todo \in 1 .. 2,
         NEW failed2 \in Nat, NEW created2 \in Nat,
         asked = misses + created + todo, failed2 + created2 = misses + created + 1
  PROVE  failed2 \in 0 .. 2 /\ asked = failed2 + created2 + (todo - 1)
OBVIOUS

\* A batch after one of its items was created or has failed.
LEMMA ItemDone ==
  ASSUME TaskInductive, NEW a \in Agent, toolCall[a].op \in {"create", "insert"},
         NEW created \in SUBSET TaskId, NEW misses \in Nat,
         IsFiniteSet(created), created \subseteq madeTasks', madeTasks \subseteq madeTasks',
         misses + Cardinality(created) = toolCall[a].failed + Cardinality(toolCall[a].created) + 1,
         Becomes(a, [toolCall[a] EXCEPT !.created = created, !.failed = misses, !.todo = Tail(toolCall[a].todo),
                              !.op = IF Len(toolCall[a].todo) > 1 THEN "create" ELSE "counted"])
  PROVE  toolCall' \in [Agent -> ToolCalls] /\ CallsFit'
<1> DEFINE c == toolCall[a]
<1>0. c \in ToolCalls /\ CallFits(c, madeTasks)
  BY DEF TaskInductive, TaskTypes, CallsFit
<1>1. c \in Creating /\ c.todo \in Batch
  BY <1>0, KindOfCall DEF CallFits
<1>2. c.asked = c.failed + Cardinality(c.created) + Len(c.todo) /\ IsFiniteSet(c.created)
  BY <1>0 DEF CallFits
<1>3. /\ Len(c.todo) \in 1 .. 2 /\ Len(Tail(c.todo)) = Len(c.todo) - 1
      /\ Tail(c.todo) \in Batch \union {<<>>} /\ (Len(c.todo) > 1 => Tail(c.todo) \in Batch)
  BY <1>1, BatchIs
<1>5. c.failed \in Nat /\ c.asked \in 1 .. 2
  BY <1>1 DEF Creating
<1>6. Cardinality(c.created) \in Nat
  BY <1>2, FS_CardinalityType
<1> DEFINE op == IF Len(c.todo) > 1 THEN "create" ELSE "counted"
<1> DEFINE remaining == Tail(c.todo)
<1> DEFINE what == [c EXCEPT !.created = created, !.failed = misses, !.todo = remaining, !.op = op]
<1>11. Becomes(a, what)
  OBVIOUS
<1>12. /\ op \in {"create", "counted"} /\ (op = "create" => remaining \in Batch)
      /\ (op = "counted" => Len(remaining) = 0) /\ remaining \in Batch \union {<<>>}
  <2> HIDE DEF what
  <2> SUFFICES op = "counted" => Len(remaining) = 0
    BY <1>3
  <2>1. op = "counted" => ~(Len(c.todo) > 1)
    OBVIOUS
  <2>3. \A n \in 1 .. 2 : ~(n > 1) => n - 1 = 0
    OBVIOUS
  <2>2. ~(Len(c.todo) > 1) => Len(c.todo) - 1 = 0
    BY Zenon, <1>3, <2>3
  <2> QED
    BY Zenon, <1>3, <2>1, <2>2
<1>13. Len(remaining) = Len(c.todo) - 1
  BY <1>3
<1> HIDE DEF op, remaining
<1>14. Cardinality(created) \in Nat
  BY FS_CardinalityType
<1>15. misses \in 0 .. 2 /\ c.asked = misses + Cardinality(created) + Len(remaining)
  <2> DEFINE asked == c.asked
  <2> DEFINE had == c.failed
  <2> DEFINE n == Cardinality(c.created)
  <2> DEFINE m == Cardinality(created)
  <2> DEFINE todo == Len(c.todo)
  <2>1. /\ asked \in 1 .. 2 /\ had \in Nat /\ n \in Nat /\ m \in Nat /\ todo \in 1 .. 2
        /\ asked = had + n + todo /\ misses + m = had + n + 1
    BY <1>2, <1>3, <1>5, <1>6, <1>14
  <2> HIDE DEF asked, had, n, m, todo
  <2>2. misses \in 0 .. 2 /\ asked = misses + m + (todo - 1)
    BY <2>1, ItemIsCounted
  <2> QED
    BY <1>13, <2>2 DEF asked, m, todo
<1>16. what \in Creating
  BY <1>1, <1>12, <1>15 DEF Creating
<1>17. /\ what.op = op /\ what.todo = remaining /\ what.created = created
      /\ what.failed = misses /\ what.asked = c.asked
  BY <1>1 DEF Creating
<1>18. what \in ToolCalls
  BY <1>16 DEF ToolCalls
<1> HIDE DEF what
<1>19. CallFits(what, madeTasks')
  BY <1>12, <1>15, <1>17 DEF CallFits
<1> QED
  BY <1>11, <1>18, <1>19, CallGoes

\* A row that is written has its project: the rest of the tables stays.
LEMMA RowWritten ==
  ASSUME TaskInductive, NEW i \in TaskId, NEW row \in TaskRow, tasks' = [tasks EXCEPT ![i] = row],
         row.project \in projects, UNCHANGED projects
  PROVE  tasks' \in [TaskId -> TaskRow \union {NoRow}] /\ TasksHaveTheirProject'
<1>1. tasks' \in [TaskId -> TaskRow \union {NoRow}] /\ \A k \in TaskId : tasks'[k] = (IF k = i THEN row ELSE tasks[k])
  BY DEF TaskInductive, TaskTypes
<1> QED
  BY <1>1 DEF TaskInductive, TasksHaveTheirProject, TaskRows

LEMMA TaskNextKeeps ==
  ASSUME TaskInductive, [TaskNext]_taskVars
  PROVE  TaskInductive'
<1> USE DEF TaskInductive
<1>0. \A a \in Agent : toolCall[a] \in ToolCalls /\ CallFits(toolCall[a], madeTasks)
  BY DEF TaskTypes, CallsFit
\* The tables stay, or only projects are new.
<1>1. ASSUME NEW a \in Agent, NEW what \in ToolCalls, Becomes(a, what), CallFits(what, madeTasks),
             UNCHANGED <<projects, madeProjects, tasks, madeTasks>>
      PROVE  TaskInductive'
  <2>1. toolCall' \in [Agent -> ToolCalls] /\ CallsFit'
    BY <1>1, CallGoes
  <2> QED
    BY <1>1, <2>1 DEF TaskTypes, TasksHaveTheirProject, TaskRows
\* The tables change, and the call is over.
<1>2. ASSUME NEW a \in Agent, NEW what \in {Free, Refused}, Becomes(a, what), UNCHANGED madeTasks,
             projects' \subseteq madeProjects', madeProjects' \subseteq Project,
             tasks' \in [TaskId -> TaskRow \union {NoRow}], TasksHaveTheirProject'
      PROVE  TaskInductive'
  <2>1. what \in ToolCalls /\ CallFits(what, madeTasks')
    BY PlainCall
  <2>2. toolCall' \in [Agent -> ToolCalls] /\ CallsFit'
    BY <1>2, <2>1, CallGoes
  <2> QED
    BY <1>2, <2>2 DEF TaskTypes
<1>3. ASSUME NEW a \in Agent, createProject(a) PROVE TaskInductive'
  <2>1. /\ Becomes(a, Free) /\ UNCHANGED <<tasks, madeTasks>> /\ projects \subseteq projects'
        /\ projects' \subseteq madeProjects' /\ madeProjects' \subseteq Project
    BY <1>3 DEF createProject, TaskTypes
  <2>2. TasksHaveTheirProject' /\ tasks' \in [TaskId -> TaskRow \union {NoRow}]
    BY <2>1 DEF TasksHaveTheirProject, TaskRows, TaskTypes
  <2> QED
    BY <1>2, <2>1, <2>2
<1>4. ASSUME NEW a \in Agent, deleteProject(a) PROVE TaskInductive'
  <2>1. PICK p \in madeProjects :
          \/ ProjectCanGo(p) /\ projects' = projects \ {p} /\ Becomes(a, Free)
          \/ ~ProjectCanGo(p) /\ UNCHANGED projects /\ Becomes(a, Refused)
    BY <1>4 DEF deleteProject
  <2>2. UNCHANGED <<madeProjects, tasks, madeTasks>>
    BY <1>4 DEF deleteProject
  <2>3. projects' \subseteq madeProjects' /\ madeProjects' \subseteq Project /\ tasks' \in [TaskId -> TaskRow \union {NoRow}]
    BY <2>1, <2>2 DEF TaskTypes
  <2>4. TasksHaveTheirProject'
    BY <2>1, <2>2 DEF TasksHaveTheirProject, TaskRows, ProjectCanGo
  <2> QED
    BY <1>2, <2>1, <2>2, <2>3, <2>4
<1>5. ASSUME NEW a \in Agent, createTasks(a) PROVE TaskInductive'
  <2>1. PICK batch \in Batch :
          Becomes(a, [op |-> "create", todo |-> batch, created |-> {}, failed |-> 0, asked |-> Len(batch)])
    BY <1>5 DEF createTasks
  <2> DEFINE what == [op |-> "create", todo |-> batch, created |-> {}, failed |-> 0, asked |-> Len(batch)]
  <2>2. Len(batch) \in 1 .. 2
    BY BatchIs
  <2>3. what \in ToolCalls
    BY <2>2 DEF ToolCalls, Creating
  <2>4. Cardinality({}) = 0 /\ IsFiniteSet({})
    BY FS_EmptySet
  <2>5. CallFits(what, madeTasks)
    BY <2>2, <2>4 DEF CallFits
  <2> HIDE DEF what
  <2>6. UNCHANGED <<projects, madeProjects, tasks, madeTasks>>
    BY <1>5 DEF createTasks
  <2> QED
    BY <1>1, <2>1, <2>3, <2>5, <2>6 DEF what
\* An item that failed is counted.
<1>17. ASSUME NEW a \in Agent, toolCall[a].op \in {"create", "insert"},
              UNCHANGED <<projects, madeProjects, tasks, madeTasks>>,
              AfterOne(a, [toolCall[a] EXCEPT !.failed = toolCall[a].failed + 1])
       PROVE  TaskInductive'
  <2> DEFINE c == toolCall[a]
  <2>1. c \in Creating
    BY <1>0, <1>17, KindOfCall
  <2>2. IsFiniteSet(c.created) /\ c.created \subseteq madeTasks
    BY <1>0, <1>17 DEF CallFits
  <2>3. c.failed \in Nat /\ c.created \subseteq TaskId
    BY <2>1 DEF Creating
  <2>4. Cardinality(c.created) \in Nat
    BY <2>2, FS_CardinalityType
  <2>5. Becomes(a, [c EXCEPT !.created = c.created, !.failed = c.failed + 1, !.todo = Tail(c.todo),
                             !.op = IF Len(c.todo) > 1 THEN "create" ELSE "counted"])
    BY <1>17, <2>1 DEF AfterOne, Creating
  <2>6. c.failed + 1 \in Nat /\ c.failed + 1 + Cardinality(c.created) = c.failed + Cardinality(c.created) + 1
    BY <2>3, <2>4
  <2>7. toolCall' \in [Agent -> ToolCalls] /\ CallsFit'
    BY <1>17, <2>2, <2>3, <2>5, <2>6, ItemDone
  <2> QED
    BY <1>17, <2>7 DEF TaskTypes, TasksHaveTheirProject, TaskRows
<1>6. ASSUME NEW a \in Agent, createTask(a) PROVE TaskInductive'
  <2> DEFINE c == toolCall[a]
  <2>1. c \in Creating /\ c.op = "create" /\ CallFits(c, madeTasks) /\ c.todo \in Batch
    BY <1>0, <1>6, KindOfCall DEF createTask, CallFits
  <2>2. UNCHANGED <<projects, madeProjects, tasks, madeTasks>>
    BY <1>6 DEF createTask
  <2>3. CASE Accepts(Head(c.todo))
    <3> DEFINE what == [c EXCEPT !.op = "insert"]
    <3>1. Becomes(a, what)
      BY <1>6, <2>3 DEF createTask
    <3>2. /\ what.op = "insert" /\ what.todo = c.todo /\ what.created = c.created
          /\ what.failed = c.failed /\ what.asked = c.asked /\ what \in Creating
      BY <2>1 DEF Creating
    <3> HIDE DEF what
    <3>3. what \in ToolCalls /\ CallFits(what, madeTasks)
      BY <2>1, <3>2 DEF ToolCalls, CallFits
    <3> QED
      BY <1>1, <2>2, <3>1, <3>3
  <2>4. CASE ~Accepts(Head(c.todo))
    <3>1. AfterOne(a, [c EXCEPT !.failed = c.failed + 1])
      BY <1>6, <2>4 DEF createTask
    <3> QED
      BY <1>17, <2>1, <2>2, <3>1
  <2> QED
    BY <2>3, <2>4
<1>18. ASSUME NEW a \in Agent, InsertTask(a) PROVE TaskInductive'
  <2> DEFINE c == toolCall[a]
  <2> DEFINE row == [project |-> Head(c.todo).project, status |-> "todo", completed |-> FALSE]
  <2>1. c \in Creating /\ c.op = "insert" /\ c.todo \in Batch
    BY <1>0, <1>18, KindOfCall DEF InsertTask, CallFits
  <2>2. IsFiniteSet(c.created) /\ c.created \subseteq madeTasks
    BY <1>0, <2>1 DEF CallFits
  <2>3. Head(c.todo) \in Item
    BY <2>1, BatchIs
  <2>4. UNCHANGED <<projects, madeProjects>>
    BY <1>18 DEF InsertTask
  <2>5. c.failed \in Nat /\ c.created \subseteq TaskId
    BY <2>1 DEF Creating
  <2>6. Cardinality(c.created) \in Nat
    BY <2>2, FS_CardinalityType
  <2>8. CASE ForeignKeyHolds(row)
    <3>1. PICK i \in TaskId \ madeTasks :
            /\ tasks' = [tasks EXCEPT ![i] = row] /\ madeTasks' = madeTasks \union {i}
            /\ AfterOne(a, [c EXCEPT !.created = c.created \union {i}])
      BY <1>18, <2>8 DEF InsertTask
    <3>2. row \in TaskRow /\ row.project \in projects
      BY <2>3, <2>8 DEF TaskRow, Item, TaskStatus, ForeignKeyHolds
    <3> HIDE DEF row
    <3>3. tasks' \in [TaskId -> TaskRow \union {NoRow}] /\ TasksHaveTheirProject'
      BY <2>4, <3>1, <3>2, RowWritten
    <3> DEFINE created == c.created \union {i}
    <3>4. Cardinality(created) = Cardinality(c.created) + 1 /\ IsFiniteSet(created)
      BY <2>2, <3>1, FS_AddElement
    <3>5. Becomes(a, [c EXCEPT !.created = created, !.failed = c.failed, !.todo = Tail(c.todo),
                               !.op = IF Len(c.todo) > 1 THEN "create" ELSE "counted"])
      BY <2>1, <3>1 DEF AfterOne, Creating
    <3>6. created \subseteq madeTasks' /\ created \in SUBSET TaskId /\ madeTasks \subseteq madeTasks'
      BY <2>2, <2>5, <3>1
    <3> HIDE DEF created
    <3>7. c.failed + Cardinality(created) = c.failed + Cardinality(c.created) + 1
      BY <2>5, <2>6, <3>4
    <3>8. toolCall' \in [Agent -> ToolCalls] /\ CallsFit'
      BY <2>1, <2>5, <3>4, <3>5, <3>6, <3>7, ItemDone
    <3>9. madeTasks' \subseteq TaskId
      BY <3>1 DEF TaskTypes
    <3> QED
      BY <2>4, <3>3, <3>8, <3>9 DEF TaskTypes
  <2>9. CASE ~ForeignKeyHolds(row)
    <3>1. UNCHANGED <<tasks, madeTasks>> /\ AfterOne(a, [c EXCEPT !.failed = c.failed + 1])
      BY <1>18, <2>9 DEF InsertTask
    <3> QED
      BY <1>17, <2>1, <2>4, <3>1
  <2> QED
    BY <2>8, <2>9
\* A row is read, changed and kept for the write.
<1>7. ASSUME NEW a \in Agent, NEW i \in madeTasks, NEW op \in {"find project", "write"}, NEW row,
             i \in TaskRows => row \in TaskRow, ReadTask(a, i, op, row)
      PROVE  TaskInductive'
  <2> DEFINE what == IF i \in TaskRows THEN [op |-> op, id |-> i, row |-> row] ELSE Free
  <2>1. Becomes(a, what) /\ UNCHANGED <<projects, madeProjects, tasks, madeTasks>>
    BY <1>7 DEF ReadTask
  <2>2. what \in {Free, Refused} \union Changing
    BY <1>7 DEF Changing, TaskTypes
  <2> HIDE DEF what
  <2>3. what \in ToolCalls /\ CallFits(what, madeTasks)
    BY <2>2, PlainCall
  <2> QED
    BY <1>1, <2>1, <2>3
<1>8. \A i \in TaskRows : tasks[i] \in TaskRow
  BY DEF TaskTypes, TaskRows
<1>9. ASSUME NEW a \in Agent, updateTask(a) PROVE TaskInductive'
  <2>1. PICK i \in madeTasks, s \in TaskStatus, p \in madeProjects :
          ReadTask(a, i, "write", [tasks[i] EXCEPT !.status = s, !.project = p])
    BY <1>9 DEF updateTask
  <2>2. i \in TaskRows => [tasks[i] EXCEPT !.status = s, !.project = p] \in TaskRow
    BY <1>8 DEF TaskRow, TaskTypes
  <2> QED
    BY <1>7, <2>1, <2>2
<1>10. ASSUME NEW a \in Agent, setPriority(a) PROVE TaskInductive'
  BY <1>7, <1>8, <1>10 DEF setPriority
<1>11. ASSUME NEW a \in Agent, MoveToProject(a) PROVE TaskInductive'
  <2>1. PICK i \in madeTasks, p \in madeProjects \union {Unassigned} :
          ReadTask(a, i, "find project", [tasks[i] EXCEPT !.project = p])
    BY <1>11 DEF MoveToProject
  <2>2. i \in TaskRows => [tasks[i] EXCEPT !.project = p] \in TaskRow
    BY <1>8 DEF TaskRow, TaskTypes
  <2> QED
    BY <1>7, <2>1, <2>2
<1>12. ASSUME NEW a \in Agent, FindProject(a) PROVE TaskInductive'
  <2> DEFINE c == toolCall[a]
  <2> DEFINE what == IF c.row.project \in projects \union {Unassigned} THEN [c EXCEPT !.op = "write"] ELSE Free
  <2>1. c \in Changing
    BY <1>0, <1>12, KindOfCall DEF FindProject
  <2>2. Becomes(a, what) /\ UNCHANGED <<projects, madeProjects, tasks, madeTasks>>
    BY <1>12 DEF FindProject
  <2>3. what \in {Free, Refused} \union Changing
    BY <2>1 DEF Changing
  <2> HIDE DEF what
  <2>4. what \in ToolCalls /\ CallFits(what, madeTasks)
    BY <2>3, PlainCall
  <2> QED
    BY <1>1, <2>2, <2>4
<1>13. ASSUME NEW a \in Agent, WriteTask(a) PROVE TaskInductive'
  <2> DEFINE c == toolCall[a]
  <2>1. c \in Changing /\ UpdateTask(c.id, c.row) /\ Becomes(a, Free) /\ UNCHANGED <<projects, madeProjects, madeTasks>>
    BY <1>0, <1>13, KindOfCall DEF WriteTask
  <2>2. c.id \in TaskId /\ c.row \in TaskRow
    BY <2>1 DEF Changing
  <2>3. tasks' \in [TaskId -> TaskRow \union {NoRow}] /\ TasksHaveTheirProject'
    <3>1. CASE c.id \in TaskRows /\ ForeignKeyHolds(c.row)
      BY <2>1, <2>2, <3>1, RowWritten DEF UpdateTask, ForeignKeyHolds
    <3>2. CASE ~(c.id \in TaskRows /\ ForeignKeyHolds(c.row))
      BY <2>1, <3>2 DEF UpdateTask, TaskTypes, TasksHaveTheirProject, TaskRows
    <3> QED
      BY <3>1, <3>2
  <2> QED
    BY <1>2, <2>1, <2>3 DEF TaskTypes
<1>14. ASSUME NEW a \in Agent, completeTask(a) PROVE TaskInductive'
  <2>1. PICK i \in madeTasks : CompleteTask(i)
    BY <1>14 DEF completeTask
  <2>2. Becomes(a, Free) /\ UNCHANGED <<projects, madeProjects, madeTasks>>
    BY <1>14 DEF completeTask
  <2>3. i \in TaskRows =>
          /\ [tasks[i] EXCEPT !.status = "done", !.completed = TRUE] \in TaskRow
          /\ [tasks[i] EXCEPT !.status = "done", !.completed = TRUE].project = tasks[i].project
    BY <1>8 DEF TaskRow, TaskStatus
  <2>4. \A k \in TaskId : \/ tasks'[k] = tasks[k]
                          \/ k \in TaskRows /\ tasks'[k] \in TaskRow /\ tasks'[k].project = tasks[k].project
    BY <2>1, <2>3 DEF CompleteTask
  <2>5. tasks' \in [TaskId -> TaskRow \union {NoRow}]
    BY <2>1, <2>3 DEF CompleteTask, TaskTypes
  <2>6. TasksHaveTheirProject'
    BY <2>2, <2>4 DEF TasksHaveTheirProject, TaskRows
  <2> QED
    BY <1>2, <2>2, <2>5, <2>6 DEF TaskTypes
<1>15. ASSUME NEW a \in Agent, deleteTask(a) PROVE TaskInductive'
  <2>1. PICK i \in madeTasks : tasks' = [tasks EXCEPT ![i] = NoRow]
    BY <1>15 DEF deleteTask
  <2>2. Becomes(a, Free) /\ UNCHANGED <<projects, madeProjects, madeTasks>>
    BY <1>15 DEF deleteTask
  <2>3. /\ tasks' \in [TaskId -> TaskRow \union {NoRow}]
        /\ \A k \in TaskId : tasks'[k] = NoRow \/ tasks'[k] = tasks[k]
    BY <2>1 DEF TaskTypes
  <2>4. TasksHaveTheirProject'
    BY <2>2, <2>3 DEF TasksHaveTheirProject, TaskRows
  <2> QED
    BY <1>2, <2>2, <2>3, <2>4 DEF TaskTypes
<1>16. CASE UNCHANGED taskVars
  BY <1>16 DEF taskVars, TaskTypes, TasksHaveTheirProject, TaskRows, CallsFit
<1> QED
  BY <1>3, <1>4, <1>5, <1>6, <1>18, <1>9, <1>10, <1>11, <1>12, <1>13, <1>14, <1>15, <1>16 DEF TaskNext

LEMMA TaskSafe == TaskSpec => []TaskInductive
<1>1. TaskInit => TaskInductive
  <2> SUFFICES ASSUME TaskInit PROVE TaskInductive
    OBVIOUS
  <2>1. \A a \in Agent : toolCall[a] = Free
    BY DEF TaskInit
  <2>2. TaskTypes
    BY DEF TaskInit, TaskTypes, ToolCalls
  <2>3. CallsFit
    BY <2>1, PlainCall DEF CallsFit
  <2>4. TasksHaveTheirProject
    BY DEF TaskInit, TasksHaveTheirProject, TaskRows
  <2> QED
    BY <2>2, <2>3, <2>4 DEF TaskInductive
<1> QED
  BY <1>1, TaskNextKeeps, PTL DEF TaskSpec

(* The tables, and what a tool is in the middle of, keep their types.      *)
THEOREM TaskTypeCorrect == TaskSpec => []TaskTypeOK
<1>1. TaskInductive => TaskTypeOK
  BY DEF TaskInductive, TaskTypes, TaskTypeOK, ToolCalls
<1> QED
  BY <1>1, TaskSafe, PTL

(* A task's project is there, and the answer of a batch accounts for all   *)
(* that was asked, however many agents read, write and delete between one  *)
(* another's statements, for all sets of agents, tasks and projects.       *)
THEOREM TasksStaySound == TaskSpec => []TasksAreSound
<1>1. TaskInductive => BatchesAreAccounted
  <2> SUFFICES ASSUME TaskInductive, NEW a \in Agent, toolCall[a].op = "counted"
               PROVE  /\ toolCall[a].asked = toolCall[a].failed + Cardinality(toolCall[a].created)
                      /\ toolCall[a].created \subseteq madeTasks
    BY DEF BatchesAreAccounted
  <2> DEFINE c == toolCall[a]
  <2>1. c \in Creating /\ CallFits(c, madeTasks)
    BY KindOfCall DEF TaskInductive, TaskTypes, CallsFit
  <2>2. c.failed \in Nat /\ Cardinality(c.created) \in Nat
    BY <2>1, FS_CardinalityType DEF Creating, CallFits
  <2>3. c.asked = c.failed + Cardinality(c.created) + Len(c.todo) /\ Len(c.todo) = 0 /\ c.created \subseteq madeTasks
    BY <2>1 DEF CallFits
  <2> QED
    BY <2>2, <2>3
<1> QED
  BY <1>1, TaskSafe, PTL DEF TaskInductive, TasksAreSound
-----------------------------------------------------------------------------
USE CliAssumption

Files == [FileKind -> 0 .. MaxFiles]

CallState ==
  [at : {"idle", "failed"}]
    \cup [at : {"running", "draining"}, left : Int, cancelled : BOOLEAN]
    \cup [at : {"answered"}, killed : BOOLEAN, scanned : BOOLEAN, files : Files]

AliveState == [is : {"running", "exited", "killed"}, held : BOOLEAN, loose : BOOLEAN, files : Files, late : BOOLEAN]

ChildState ==
  [is : {"none"}]
    \cup [is : {"refused"}, held : {FALSE}]
    \cup AliveState

CliTypes ==
  /\ cliCall \in [CliCall -> CallState]
  /\ child \in [CliCall -> ChildState]
  /\ \A t \in DOMAIN skill.commands : skill.commands[t].timeout \in Int

\* What an answer lists, when it lists anything.
Listed(s, k) ==
  s.scanned => s.files["shared"] = k.files["shared"] /\ s.files["loose"] <= k.files["loose"]

\* No child before the call, and none that lives on when the call has ended.
ChildFollows(c) ==
  /\ cliCall[c].at = "idle" => child[c].is = "none"
  /\ cliCall[c].at \in Ended =>
       /\ child[c].is # "running"
       /\ child[c].is \notin {"none", "refused"} => ~child[c].held
       /\ cliCall[c].at = "answered" => Listed(cliCall[c], child[c])

CliInductive == CliTypes /\ \A c \in CliCall : ChildFollows(c)

\* A call that is under way has a time, a child that has been has an output.
LEMMA KindOfCliCall ==
  ASSUME NEW s \in CallState
  PROVE  /\ s.at \in {"idle", "failed", "running", "draining", "answered"}
         /\ s.at \in {"running", "draining"} => s \in [at : {"running", "draining"}, left : Int, cancelled : BOOLEAN]
<1>1. CASE s \in [at : {"idle", "failed"}]
  BY <1>1
<1>2. CASE s \in [at : {"running", "draining"}, left : Int, cancelled : BOOLEAN]
  BY <1>2
<1>3. CASE s \in [at : {"answered"}, killed : BOOLEAN, scanned : BOOLEAN, files : Files]
  BY <1>3
<1> QED
  BY <1>1, <1>2, <1>3 DEF CallState

LEMMA KindOfChild ==
  ASSUME NEW s \in ChildState
  PROVE  /\ s.is \in {"none", "refused", "running", "exited", "killed"}
         /\ s.is \in {"running", "exited", "killed"} => s \in AliveState
<1>1. CASE s \in [is : {"none"}]
  BY <1>1
<1>2. CASE s \in [is : {"refused"}, held : {FALSE}]
  BY <1>2
<1>3. CASE s \in AliveState
  BY <1>3 DEF AliveState
<1> QED
  BY <1>1, <1>2, <1>3 DEF ChildState, AliveState

LEMMA FilesOfAnswer ==
  ASSUME NEW s \in CallState, s.at = "answered"
  PROVE  s.files["loose"] \in Int
<1>1. s \in [at : {"answered"}, killed : BOOLEAN, scanned : BOOLEAN, files : Files]
  BY DEF CallState
<1> QED
  BY <1>1 DEF Files, FileKind

\* A step of one call: the call and its child go to states that fit.
LEMMA CallStep ==
  ASSUME CliInductive, NEW c \in CliCall,
         NEW s \in CallState, NEW k \in ChildState,
         cliCall' = [cliCall EXCEPT ![c] = s], child' = [child EXCEPT ![c] = k],
         UNCHANGED skill,
         s.at = "idle" => k.is = "none",
         s.at \in Ended =>
           /\ k.is # "running"
           /\ k.is \notin {"none", "refused"} => ~k.held
           /\ s.at = "answered" => Listed(s, k)
  PROVE  CliInductive'
<1>1. CliTypes'
  BY DEF CliInductive, CliTypes
<1>2. \A d \in CliCall \ {c} : cliCall'[d] = cliCall[d] /\ child'[d] = child[d]
  BY DEF CliInductive, CliTypes
<1>3. cliCall'[c] = s /\ child'[c] = k
  BY DEF CliInductive, CliTypes
<1>4. ASSUME NEW d \in CliCall PROVE ChildFollows(d)'
  <2>1. CASE d = c
    BY <1>3, <2>1 DEF ChildFollows
  <2>2. CASE d # c
    BY <1>2, <2>2 DEF CliInductive, ChildFollows
  <2> QED
    BY <2>1, <2>2
<1> QED
  BY <1>1, <1>4 DEF CliInductive

LEMMA CliStarts == CliInit => CliInductive
<1> SUFFICES ASSUME CliInit PROVE CliInductive
  OBVIOUS
<1>1. [at |-> "idle"] \in CallState /\ [is |-> "none"] \in ChildState
  BY DEF CallState, ChildState
<1>2. DOMAIN skill.commands = {}
  BY DEF CliInit
<1>3. CliTypes
  BY <1>1, <1>2 DEF CliInit, CliTypes
<1> QED
  BY <1>3 DEF CliInit, CliInductive, ChildFollows, Ended

LEMMA CommandsHaveTimes == \A t \in DOMAIN Commands : Commands[t].timeout \in Int
<1> SUFFICES ASSUME NEW t \in DOMAIN Commands PROVE Commands[t].timeout \in Int
  OBVIOUS
<1>1. t \in Tool /\ Commands[t] = Entry(t)
  BY DEF Commands
<1>2. Declared[t] \in [command : BOOLEAN, access : STRING, timeout : Int]
  BY <1>1
<1>3. Entry(t).timeout \in Int
  BY <1>2 DEF Entry
<1> QED
  BY <1>1, <1>3

LEMMA BuildingFits == CliInductive /\ NewCLISkill => CliInductive'
BY CommandsHaveTimes DEF CliInductive, CliTypes, NewCLISkill, ChildFollows

LEMMA ExecutingFits ==
  ASSUME CliInductive, NEW c \in CliCall, NEW t \in Tool, ExecuteTool(c, t)
  PROVE  CliInductive'
<1>1. cliCall[c].at = "idle" /\ child[c].is = "none" /\ child[c] \in ChildState
  BY DEF ExecuteTool, CliInductive, CliTypes, ChildFollows
<1>2. child' = [child EXCEPT ![c] = child[c]] /\ UNCHANGED skill
  BY DEF ExecuteTool, CliInductive, CliTypes
<1>3. CASE t \notin DOMAIN skill.commands \/ ~inRoot
  <2> DEFINE s == [at |-> "failed"]
  <2>1. cliCall' = [cliCall EXCEPT ![c] = s]
    BY <1>3 DEF ExecuteTool, Fail
  <2>2. s \in CallState /\ s.at = "failed"
    BY DEF CallState
  <2> QED
    BY <1>1, <1>2, <2>1, <2>2, CallStep DEF Ended
<1>4. CASE ~(t \notin DOMAIN skill.commands \/ ~inRoot)
  <2> DEFINE l == resolveTimeout(skill.commands[t].timeout)
             s == [at |-> "running", left |-> l, cancelled |-> FALSE]
  <2>1. l \in Int
    BY <1>4 DEF resolveTimeout, CliInductive, CliTypes
  <2>2. cliCall' = [cliCall EXCEPT ![c] = s]
    BY <1>4 DEF ExecuteTool
  <2>3. s \in CallState /\ s.at = "running"
    BY <2>1 DEF CallState
  <2> HIDE DEF s
  <2> QED
    BY <1>1, <1>2, <2>2, <2>3, CallStep DEF Ended
<1> QED
  BY <1>3, <1>4

\* The steps of the child.
LEMMA ChildFits ==
  ASSUME CliInductive, NEW c \in CliCall,
         StartCommand(c) \/ Works(c) \/ Detaches(c) \/ Exits(c) \/ LetsGo(c) \/ Killed(c)
  PROVE  CliInductive'
<1>0. /\ cliCall[c] \in CallState /\ child[c] \in ChildState /\ ChildFollows(c)
      /\ cliCall' = [cliCall EXCEPT ![c] = cliCall[c]] /\ UNCHANGED skill
      /\ child \in [CliCall -> ChildState]
  BY DEF CliInductive, CliTypes, StartCommand, Works, Detaches, Exits, LetsGo, Killed
<1>1. cliCall[c].at \in {"idle", "failed", "running", "draining", "answered"}
  BY <1>0, KindOfCliCall
<1>2. CASE StartCommand(c)
  <2> DEFINE k1 == [is |-> "refused", held |-> FALSE]
             k2 == [is |-> "running", held |-> TRUE, loose |-> FALSE, files |-> NoFiles, late |-> FALSE]
  <2>1. k1 \in ChildState /\ k2 \in ChildState
    <3>1. NoFiles \in Files
      BY DEF NoFiles, Files
    <3> QED
      BY <3>1 DEF ChildState, AliveState
  <2>2. child' = [child EXCEPT ![c] = k1] \/ child' = [child EXCEPT ![c] = k2]
    BY <1>2 DEF StartCommand
  <2> HIDE DEF k1, k2
  <2>3. cliCall[c].at \notin Ended /\ cliCall[c].at # "idle"
    BY <1>2 DEF StartCommand, Running, Ended
  <2> QED
    BY <1>0, <2>1, <2>2, <2>3, CallStep
<1>3. ASSUME Alive(c) PROVE child[c] \in AliveState
  BY <1>0, <1>3, KindOfChild DEF Alive
<1>4. CASE Works(c)
  <2>1. PICK kind \in FileKind :
          /\ Alive(c) /\ (kind = "shared" => Sharing(c))
          /\ child[c].files[kind] < MaxFiles
          /\ child' = [child EXCEPT ![c].files[kind] = @ + 1]
    BY <1>4 DEF Works
  <2> DEFINE old == child[c]
             files == [old.files EXCEPT ![kind] = @ + 1]
             k == [old EXCEPT !.files = files]
  <2>2. child' = [child EXCEPT ![c] = k]
    BY <2>1
  <2>3. old \in AliveState
    BY <1>3, <2>1
  <2> HIDE DEF old
  <2>4. old.files \in Files /\ old.files[kind] < MaxFiles
    BY <2>1, <2>3 DEF AliveState, old
  <2>5. files \in Files /\ (kind # "shared" => files["shared"] = old.files["shared"])
        /\ old.files["loose"] <= files["loose"] /\ old.files["loose"] \in Int /\ files["loose"] \in Int
    BY <2>4 DEF Files, FileKind
  <2> HIDE DEF files
  <2>6. k \in ChildState /\ k.is = old.is /\ k.held = old.held /\ k.files = files
    BY <2>3, <2>5 DEF ChildState, AliveState
  <2> HIDE DEF k
  <2>7. CASE cliCall[c].at \in Ended
    <3>1. kind # "shared"
      BY <1>0, <2>1, <2>7 DEF ChildFollows, Sharing, Alive
    <3>2. cliCall[c].at = "answered" => Listed(cliCall[c], k)
      <4>1. ASSUME cliCall[c].at = "answered", cliCall[c].scanned
            PROVE  cliCall[c].files["shared"] = k.files["shared"] /\ cliCall[c].files["loose"] <= k.files["loose"]
        <5>1. /\ cliCall[c].files["shared"] = old.files["shared"]
              /\ cliCall[c].files["loose"] <= old.files["loose"] /\ cliCall[c].files["loose"] \in Int
          BY <1>0, <2>7, <4>1, FilesOfAnswer DEF ChildFollows, Listed, old
        <5> QED
          BY <2>5, <2>6, <3>1, <5>1
      <4> QED
        BY <4>1 DEF Listed
    <3>3. k.is # "running" /\ (k.is \notin {"none", "refused"} => ~k.held) /\ cliCall[c].at # "idle"
      BY <1>0, <2>6, <2>7 DEF ChildFollows, Ended, old
    <3> QED
      BY <1>0, <2>2, <2>6, <3>2, <3>3, CallStep
  <2>8. CASE cliCall[c].at \notin Ended
    <3>1. cliCall[c].at # "idle"
      BY <1>0, <2>1 DEF ChildFollows, Alive
    <3> QED
      BY <1>0, <2>2, <2>6, <2>8, <3>1, CallStep
  <2> QED
    BY <2>7, <2>8
<1>8. CASE Detaches(c)
  <2> DEFINE k == [child[c] EXCEPT !.loose = TRUE]
  <2>1. child' = [child EXCEPT ![c] = k]
    BY <1>8 DEF Detaches
  <2>2. k \in ChildState
    BY <1>3, <1>8 DEF Detaches, ChildState, AliveState
  <2>4. cliCall[c].at \notin Ended /\ cliCall[c].at # "idle"
    BY <1>0, <1>8, <1>1 DEF Detaches, Alive, Sharing, ChildFollows, Ended
  <2> HIDE DEF k
  <2> QED
    BY <1>0, <2>1, <2>2, <2>4, CallStep
<1>5. CASE Exits(c)
  <2>1. PICK held \in BOOLEAN, late \in BOOLEAN :
          child' = [child EXCEPT ![c].is = "exited", ![c].held = held, ![c].late = late]
    BY <1>5 DEF Exits
  <2> DEFINE k == [child[c] EXCEPT !.is = "exited", !.held = held, !.late = late]
  <2>2. child' = [child EXCEPT ![c] = k]
    BY <1>0, <2>1
  <2>3. k \in ChildState
    BY <1>3, <1>5 DEF Exits, Alive, ChildState, AliveState
  <2>4. cliCall[c].at \notin Ended /\ cliCall[c].at # "idle"
    BY <1>0, <1>5, <1>1 DEF Exits, ChildFollows, Ended
  <2> HIDE DEF k
  <2> QED
    BY <1>0, <2>2, <2>3, <2>4, CallStep
<1>6. CASE LetsGo(c)
  <2> DEFINE k == [child[c] EXCEPT !.held = FALSE]
  <2>1. child' = [child EXCEPT ![c] = k]
    BY <1>6 DEF LetsGo
  <2>2. k \in ChildState
    BY <1>3, <1>6 DEF LetsGo, Alive, ChildState, AliveState
  <2>4. cliCall[c].at \notin Ended /\ cliCall[c].at # "idle"
    BY <1>0, <1>6, <1>1 DEF LetsGo, ChildFollows, Ended
  <2> HIDE DEF k
  <2> QED
    BY <1>0, <2>1, <2>2, <2>4, CallStep
<1>7. CASE Killed(c)
  <2>1. PICK held \in BOOLEAN : child' = [child EXCEPT ![c].is = "killed", ![c].held = held]
    BY <1>7 DEF Killed
  <2> DEFINE k == [child[c] EXCEPT !.is = "killed", !.held = held]
  <2>2. child' = [child EXCEPT ![c] = k]
    BY <1>0, <2>1
  <2>3. k \in ChildState
    BY <1>3, <1>7 DEF Killed, Alive, ChildState, AliveState
  <2>4. cliCall[c].at \notin Ended /\ cliCall[c].at # "idle"
    BY <1>7 DEF Killed, Running, Ended
  <2> HIDE DEF k
  <2> QED
    BY <1>0, <2>2, <2>3, <2>4, CallStep
<1> QED
  BY <1>2, <1>4, <1>5, <1>6, <1>7, <1>8

\* The end of a call, and the time it has.
LEMMA ReturningFits ==
  ASSUME CliInductive, NEW c \in CliCall,
         runIsolated(c) \/ TimePasses(c) \/ Cancelled(c)
  PROVE  CliInductive'
<1>0. /\ cliCall[c] \in CallState /\ child[c] \in ChildState /\ ChildFollows(c)
      /\ cliCall \in [CliCall -> CallState] /\ child \in [CliCall -> ChildState]
  BY DEF CliInductive, CliTypes
<1>1. child' = [child EXCEPT ![c] = child[c]] /\ UNCHANGED skill
  BY <1>0 DEF runIsolated, SeesTheContext, Drains, Reports, TimePasses, Cancelled
<1>2. ASSUME cliCall[c].at \in {"running", "draining"}
      PROVE  cliCall[c] \in [at : {"running", "draining"}, left : Int, cancelled : BOOLEAN]
  BY <1>0, <1>2, KindOfCliCall
<1>3. ASSUME RunReturns(c), NEW s \in CallState, s.at \in Ended,
             s.at = "answered" => Listed(s, child[c]),
             cliCall' = [cliCall EXCEPT ![c] = s]
      PROVE  CliInductive'
  BY <1>0, <1>1, <1>3, CallStep DEF RunReturns, Ended
<1>4. ASSUME RunReturns(c), Fail(c) PROVE CliInductive'
  <2> DEFINE s == [at |-> "failed"]
  <2>1. s \in CallState /\ s.at = "failed" /\ s.at \in Ended
    BY DEF CallState, Ended
  <2>2. cliCall' = [cliCall EXCEPT ![c] = s]
    BY <1>4 DEF Fail
  <2> HIDE DEF s
  <2> QED
    BY <1>3, <1>4, <2>1, <2>2
<1>5. CASE Reports(c)
  <2>1. CASE ~isExitError(c)
    BY <1>4, <1>5, <2>1 DEF Reports, Answer
  <2>2. CASE isExitError(c)
    <3>1. PICK scanned \in BOOLEAN :
            cliCall' = [cliCall EXCEPT ![c] = [at |-> "answered", killed |-> child[c].is = "killed", scanned |-> scanned,
                                               files |-> IF scanned THEN scanOutputDir(c) ELSE NoFiles]]
      BY <1>5, <2>2 DEF Reports, Answer
    <3> DEFINE files == IF scanned THEN scanOutputDir(c) ELSE NoFiles
               s == [at |-> "answered", killed |-> child[c].is = "killed", scanned |-> scanned, files |-> files]
    <3>2. child[c] \in AliveState
      BY <1>0, <1>5, <2>2, KindOfChild DEF Reports, RunReturns, isExitError
    <3>3. child[c].files \in Files
      BY <3>2 DEF AliveState
    <3>4. /\ files \in Files
          /\ scanned => /\ files["shared"] = child[c].files["shared"]
                        /\ files["loose"] <= child[c].files["loose"]
      BY <3>3 DEF scanOutputDir, NoFiles, Files, FileKind
    <3> HIDE DEF files
    <3>5. s \in CallState /\ s.at = "answered" /\ s.at \in Ended /\ Listed(s, child[c])
      BY <3>4 DEF CallState, Ended, Listed
    <3>6. cliCall' = [cliCall EXCEPT ![c] = s]
      BY <3>1 DEF files
    <3> HIDE DEF s
    <3> QED
      BY <1>3, <1>5, <3>5, <3>6 DEF Reports
  <2> QED
    BY <2>1, <2>2
<1>6. CASE Drains(c)
  BY <1>4, <1>6 DEF Drains
<1>7. ASSUME NEW s \in CallState, s.at \in {"running", "draining"},
             cliCall' = [cliCall EXCEPT ![c] = s]
      PROVE  CliInductive'
  BY <1>0, <1>1, <1>7, CallStep DEF Ended
<1>8. CASE SeesTheContext(c)
  <2> DEFINE s == [cliCall[c] EXCEPT !.at = "draining"]
  <2>1. s \in CallState /\ s.at = "draining"
    BY <1>2, <1>8 DEF SeesTheContext, CallState
  <2>2. cliCall' = [cliCall EXCEPT ![c] = s]
    BY <1>8 DEF SeesTheContext
  <2> HIDE DEF s
  <2> QED
    BY <1>7, <2>1, <2>2
<1>9. CASE TimePasses(c)
  <2> DEFINE s == [cliCall[c] EXCEPT !.left = @ - 1]
  <2>1. s \in CallState /\ s.at \in {"running", "draining"}
    BY <1>2, <1>9 DEF TimePasses, Running, CallState
  <2>2. cliCall' = [cliCall EXCEPT ![c] = s]
    BY <1>9 DEF TimePasses
  <2> HIDE DEF s
  <2> QED
    BY <1>7, <2>1, <2>2
<1>10. CASE Cancelled(c)
  <2> DEFINE s == [cliCall[c] EXCEPT !.cancelled = TRUE]
  <2>1. s \in CallState /\ s.at \in {"running", "draining"}
    BY <1>2, <1>10 DEF Cancelled, Running, CallState
  <2>2. cliCall' = [cliCall EXCEPT ![c] = s]
    BY <1>10 DEF Cancelled
  <2> HIDE DEF s
  <2> QED
    BY <1>7, <2>1, <2>2
<1> QED
  BY <1>5, <1>6, <1>8, <1>9, <1>10 DEF runIsolated

LEMMA CliGoesOn == CliInductive /\ [CliNext]_cliVars => CliInductive'
<1> SUFFICES ASSUME CliInductive, [CliNext]_cliVars PROVE CliInductive'
  OBVIOUS
<1>1. CASE UNCHANGED cliVars
  BY <1>1 DEF cliVars, CliInductive, CliTypes, ChildFollows
<1>2. CASE CliNext
  BY <1>2, BuildingFits, ExecutingFits, ChildFits, ReturningFits DEF CliNext
<1> QED
  BY <1>1, <1>2

\* When a call of a command has ended, its child does not run any more, nobody
\* holds its output, and an answer whose directory could be scanned lists all the
\* files that they left in it, whatever those that had let go of it wrote meanwhile.
THEOREM AnswersStayFinal == CliSpec => []AnswersAreFinal
<1>1. CliInductive => AnswersAreFinal
  BY DEF CliInductive, ChildFollows, AnswersAreFinal, Listed
<1> QED
  BY <1>1, CliStarts, CliGoesOn, PTL DEF CliSpec
-----------------------------------------------------------------------------
USE SessionMemoryAssumption

\* The natural numbers are well founded: a set of them has a smallest.
LEMMA SmallestBelow ==
  ASSUME NEW R, IsWellFoundedOn(R, Nat), \A x, y \in Nat : <<y, x>> \in R <=> y < x,
         NEW T \in SUBSET Nat, T # {}
  PROVE  \E x \in T : \A y \in T : x <= y
<1>1. \E x \in T : \A y \in T : ~(<<y, x>> \in R)
  BY WFMin
<1>2. \A x, y \in T : ~(<<y, x>> \in R) => x <= y
  OBVIOUS
<1> QED
  BY <1>1, <1>2

LEMMA Smallest ==
  ASSUME NEW T \in SUBSET Nat, T # {}
  PROVE  \E x \in T : \A y \in T : x <= y
<1> DEFINE R == OpToRel(<, Nat)
<1>1. IsWellFoundedOn(R, Nat)
  BY NatLessThanWellFounded
<1>2. \A x, y \in Nat : <<y, x>> \in R <=> y < x
  BY DEF OpToRel
<1> HIDE DEF R
<1> QED
  BY <1>1, <1>2, SmallestBelow

LEMMA Greatest ==
  ASSUME NEW T \in SUBSET Quarter, T # {}
  PROVE  \E x \in T : \A y \in T : y <= x
<1> DEFINE back == {LastQuarter - t : t \in T}
<1>1. back \in SUBSET Nat /\ back # {}
  <2>1. \A t \in T : LastQuarter - t \in Nat
    BY DEF Quarter
  <2> QED
    BY <2>1
<1>2. PICK b \in back : \A c \in back : b <= c
  BY <1>1, Smallest
<1>3. PICK x \in T : b = LastQuarter - x
  OBVIOUS
<1>4. \A y \in T : LastQuarter - y \in back
  OBVIOUS
<1>5. \A y \in T : LastQuarter - x <= LastQuarter - y
  BY <1>2, <1>3, <1>4
<1> QED
  BY <1>5 DEF Quarter

LEMMA LastIsThere ==
  ASSUME NEW T \in SUBSET Quarter, T # {}
  PROVE  LastOf(T) \in T /\ \A u \in T : u <= LastOf(T)
BY Greatest DEF LastOf

LEMMA EarliestIsThere ==
  ASSUME NEW T \in SUBSET Quarter, T # {}
  PROVE  EarliestOf(T) \in T /\ \A u \in T : EarliestOf(T) <= u
<1>1. T \in SUBSET Nat
  BY DEF Quarter
<1> QED
  BY <1>1, Smallest DEF EarliestOf

\* A message in some episode, and the end of the last one.
StoredMessages == UNION {episodes[t] : t \in Quarter}
TheEnd == LastSessionEpisodeEndedAt

EndFits(end, ends) ==
  /\ end \in Quarter \cup {-1}
  /\ ends # {} => end \in ends
  /\ ends = {} => end = -1
  /\ \A m \in ends : m <= end

LEMMA EndIsThere ==
  ASSUME NEW ends \in SUBSET Quarter
  PROVE  EndFits(IF ends = {} THEN -1 ELSE LastOf(ends), ends)
BY LastIsThere DEF EndFits

MemoryTypes ==
  /\ quarter \in Quarter /\ said \subseteq 0 .. quarter
  /\ episodes \in [Quarter -> SUBSET Quarter]
  /\ left \in [SummaryRun -> SUBSET SUBSET Quarter]
  /\ \A r \in SummaryRun : {} \notin left[r]
  /\ overlapped \in BOOLEAN

\* An episode is kept under its first message, and has only what was said half
\* an hour ago.
EpisodesFit ==
  \A t \in Quarter : \A m \in episodes[t] : t <= m /\ m \in said /\ m < quarter - sessionGap

\* What a run has left is what was said after the last end, in parts that follow
\* each other, without gaps.
PartsFollow(parts) ==
  \A s, t \in parts : s # t => (\A x \in s, y \in t : x < y) \/ (\A x \in s, y \in t : y < x)

SessionFitsIn(s, parts) ==
  /\ s # {} /\ s \subseteq said
  /\ \A m \in s : TheEnd <= m /\ m < quarter - sessionGap
  /\ \A x \in s, m \in said : m <= x => m \in StoredMessages \/ \E t \in parts : m \in t

SessionsLeftFit ==
  \A r \in SummaryRun :
    PartsFollow(left[r]) /\ \A s \in left[r] : SessionFitsIn(s, left[r])

RunsAreAlone == \A r, q \in SummaryRun : left[r] # {} /\ left[q] # {} => r = q
AllStored == \A m \in said : m <= TheEnd => m \in StoredMessages

MemoryFits == EpisodesFit /\ SessionsLeftFit /\ RunsAreAlone /\ AllStored

MemoryInductive == MemoryTypes /\ (~overlapped => MemoryFits)

LEMMA MemoryStarts == SessionMemoryInit => MemoryInductive
<1> SUFFICES ASSUME SessionMemoryInit PROVE MemoryInductive
  OBVIOUS
<1>1. MemoryTypes
  <2>1. quarter \in Quarter /\ said \subseteq 0 .. quarter
    BY DEF SessionMemoryInit, Quarter
  <2>2. /\ episodes \in [Quarter -> SUBSET Quarter] /\ left \in [SummaryRun -> SUBSET SUBSET Quarter]
        /\ \A r \in SummaryRun : {} \notin left[r]
    BY DEF SessionMemoryInit
  <2> QED
    BY <2>1, <2>2 DEF SessionMemoryInit, MemoryTypes
<1>2. EpisodesFit /\ RunsAreAlone /\ AllStored
  BY DEF SessionMemoryInit, EpisodesFit, RunsAreAlone, AllStored
<1>3. SessionsLeftFit
  BY DEF SessionMemoryInit, SessionsLeftFit, PartsFollow
<1> QED
  BY <1>1, <1>2, <1>3 DEF MemoryInductive, MemoryFits

\* What is stored, and where it ends, when the invariant holds.
LEMMA StoredFits ==
  ASSUME MemoryTypes, MemoryFits
  PROVE  /\ StoredMessages \in SUBSET Quarter
         /\ EndFits(TheEnd, StoredMessages)
         /\ \A m \in StoredMessages : m \in said /\ m < quarter - sessionGap
         /\ TheEnd < quarter
<1>1. StoredMessages \in SUBSET Quarter
  BY DEF MemoryTypes, StoredMessages
<1>2. EndFits(TheEnd, StoredMessages)
  BY <1>1, EndIsThere DEF TheEnd, LastSessionEpisodeEndedAt, StoredMessages
<1>3. \A m \in StoredMessages : m \in said /\ m < quarter - sessionGap
  BY DEF MemoryTypes, MemoryFits, EpisodesFit, StoredMessages
<1>4. TheEnd < quarter
  BY <1>1, <1>2, <1>3 DEF EndFits, MemoryTypes, Quarter, sessionGap
<1> QED
  BY <1>1, <1>2, <1>3, <1>4

\* What is half an hour old stays so.
LEMMA SettledStays ==
  ASSUME NEW m \in Int, NEW earlier \in Int, NEW later \in Int, earlier <= later,
         m < earlier - sessionGap
  PROVE  m < later - sessionGap
BY DEF sessionGap

\* The episodes stay, time goes on, and nothing old is said.
LEMMA TimeGoesOn ==
  ASSUME MemoryInductive, quarter' \in Quarter, quarter <= quarter',
         UNCHANGED <<episodes, left, overlapped>>,
         said' = said \/ said' = said \union {quarter}
  PROVE  MemoryInductive'
<1>1. MemoryTypes
  BY DEF MemoryInductive
<1>2. MemoryTypes'
  <2>1. quarter \in Nat /\ quarter' \in Nat /\ said \subseteq 0 .. quarter
    BY <1>1 DEF MemoryTypes, Quarter
  <2>2. 0 .. quarter \subseteq 0 .. quarter' /\ quarter \in 0 .. quarter'
    BY <2>1
  <2>3. said' \subseteq 0 .. quarter'
    BY <2>1, <2>2
  <2> QED
    BY <1>1, <2>3 DEF MemoryTypes
<1>3. ASSUME ~overlapped' PROVE MemoryFits'
  <2>1. MemoryFits
    BY <1>3 DEF MemoryInductive
  <2>2. StoredMessages' = StoredMessages /\ TheEnd' = TheEnd
    BY DEF StoredMessages, TheEnd, LastSessionEpisodeEndedAt
  <2>3. TheEnd < quarter /\ TheEnd \in Int /\ quarter \in Int /\ quarter' \in Int
    BY <1>1, <2>1, StoredFits DEF EndFits, MemoryTypes, Quarter
  <2>4. \A m \in said' : m \in said \/ m = quarter
    OBVIOUS
  <2>5. EpisodesFit'
    <3>1. ASSUME NEW m \in Quarter, m < quarter - sessionGap PROVE m < quarter' - sessionGap
      <4>1. m \in Int /\ quarter \in Int /\ quarter' \in Int /\ quarter <= quarter'
        BY <2>3 DEF Quarter
      <4> QED
        BY <3>1, <4>1, SettledStays
    <3>2. \A t \in Quarter : episodes[t] \subseteq Quarter
      BY <1>1 DEF MemoryTypes
    <3>3. said \subseteq said'
      OBVIOUS
    <3> QED
      BY <2>1, <3>1, <3>2, <3>3 DEF MemoryFits, EpisodesFit
  <2>6. AllStored'
    BY <2>1, <2>2, <2>3, <2>4 DEF MemoryFits, AllStored
  <2>7. ASSUME NEW r \in SummaryRun, NEW s \in left[r] PROVE SessionFitsIn(s, left[r])'
    <3>1. SessionFitsIn(s, left[r]) /\ s \subseteq Quarter
      BY <1>1, <2>1 DEF MemoryFits, SessionsLeftFit, MemoryTypes
    <3>2. \A m \in s : m < quarter /\ m < quarter' - sessionGap
      <4> SUFFICES ASSUME NEW m \in s PROVE m < quarter /\ m < quarter' - sessionGap
        OBVIOUS
      <4>1. m \in Int /\ m < quarter - sessionGap
        BY <3>1 DEF SessionFitsIn, Quarter
      <4>2. m < quarter
        BY <2>3, <4>1 DEF sessionGap
      <4>3. m < quarter' - sessionGap
        BY <2>3, <4>1, SettledStays
      <4> QED
        BY <4>2, <4>3
    <3>3. \A x \in s, m \in said' : m <= x => m \in StoredMessages \/ \E t \in left[r] : m \in t
      <4> SUFFICES ASSUME NEW x \in s, NEW m \in said', m <= x
                   PROVE  m \in StoredMessages \/ \E t \in left[r] : m \in t
        OBVIOUS
      <4>1. x < quarter /\ x \in Int
        BY <3>1, <3>2 DEF Quarter
      <4>2. m \in said
        BY <2>3, <2>4, <4>1
      <4> QED
        BY <3>1, <4>2 DEF SessionFitsIn
    <3> QED
      BY <2>2, <3>1, <3>2, <3>3 DEF SessionFitsIn
  <2>8. SessionsLeftFit'
    BY <2>1, <2>7 DEF MemoryFits, SessionsLeftFit
  <2>9. RunsAreAlone'
    BY <2>1 DEF MemoryFits, RunsAreAlone
  <2> QED
    BY <2>5, <2>6, <2>8, <2>9 DEF MemoryFits
<1> QED
  BY <1>2, <1>3 DEF MemoryInductive

\* A run that ends leaves nothing, and what it has stored stays.
LEMMA RunsEnd ==
  ASSUME MemoryInductive, UNCHANGED <<quarter, said, episodes, overlapped>>,
         left' \in [SummaryRun -> SUBSET SUBSET Quarter],
         \A r \in SummaryRun : left'[r] = left[r] \/ left'[r] = {}
  PROVE  MemoryInductive'
<1>1. MemoryTypes'
  BY DEF MemoryInductive, MemoryTypes
<1>2. ASSUME ~overlapped' PROVE MemoryFits'
  <2>1. MemoryFits
    BY <1>2 DEF MemoryInductive
  <2>2. StoredMessages' = StoredMessages /\ TheEnd' = TheEnd
    BY DEF StoredMessages, TheEnd, LastSessionEpisodeEndedAt
  <2>3. EpisodesFit' /\ AllStored' /\ RunsAreAlone'
    BY <2>1, <2>2 DEF MemoryFits, EpisodesFit, AllStored, RunsAreAlone
  <2>4. ASSUME NEW r \in SummaryRun
        PROVE  (PartsFollow(left[r]) /\ \A s \in left[r] : SessionFitsIn(s, left[r]))'
    <3>1. CASE left'[r] = left[r]
      <4>1. PartsFollow(left[r]) /\ \A s \in left[r] : SessionFitsIn(s, left[r])
        BY <2>1 DEF MemoryFits, SessionsLeftFit
      <4>2. ASSUME NEW s \in left[r] PROVE SessionFitsIn(s, left[r])'
        BY <2>2, <3>1, <4>1 DEF SessionFitsIn
      <4> QED
        BY <3>1, <4>1, <4>2 DEF PartsFollow
    <3>2. CASE left'[r] = {}
      BY <3>2 DEF PartsFollow
    <3> QED
      BY <3>1, <3>2
  <2>5. SessionsLeftFit'
    BY <2>4 DEF SessionsLeftFit
  <2> QED
    BY <2>3, <2>5 DEF MemoryFits
<1> QED
  BY <1>1, <1>2 DEF MemoryInductive

\* The sessions of some messages: all of them, one after the other.
LEMMA GroupsCover ==
  ASSUME NEW W \in SUBSET Quarter
  PROVE  /\ \A s \in groupIntoSessions(W) : s # {} /\ s \subseteq W
         /\ \A m \in W : \E s \in groupIntoSessions(W) : m \in s
         /\ PartsFollow(groupIntoSessions(W))
<1> DEFINE starts == {m \in W : \A n \in W : n < m => m - n >= sessionGap}
           group(s) == {m \in W : s <= m /\ \A t \in starts : t <= s \/ m < t}
<1>1. groupIntoSessions(W) = {group(s) : s \in starts}
  BY DEF groupIntoSessions
<1>2. W \subseteq Int /\ starts \subseteq W
  BY DEF Quarter
<1>3. ASSUME NEW s \in starts PROVE s \in group(s) /\ group(s) \subseteq W
  BY <1>2
<1>4. ASSUME NEW m \in W PROVE \E s \in starts : m \in group(s)
  <2> DEFINE before == {t \in starts : t <= m}
  <2>1. before # {}
    <3>1. PICK e \in W : \A u \in W : e <= u
      <4>1. W \in SUBSET Nat /\ W # {}
        BY DEF Quarter
      <4> QED
        BY <4>1, Smallest
    <3>2. e \in starts
      BY <1>2, <3>1
    <3> QED
      BY <3>1, <3>2
  <2>2. PICK s \in before : \A t \in before : t <= s
    BY <1>2, <2>1, Greatest
  <2>3. \A t \in starts : t <= s \/ m < t
    BY <1>2, <2>2
  <2> QED
    BY <2>2, <2>3
<1>5. ASSUME NEW s \in starts, NEW t \in starts, s < t, NEW x \in group(s), NEW y \in group(t)
      PROVE  x < y
  BY <1>2, <1>5
<1>6. ASSUME NEW s \in starts, NEW t \in starts, group(s) # group(t)
      PROVE  (\A x \in group(s), y \in group(t) : x < y) \/ (\A x \in group(s), y \in group(t) : y < x)
  <2>1. s < t \/ t < s
    BY <1>2, <1>6
  <2> HIDE DEF group
  <2> QED
    BY <1>5, <2>1
<1> HIDE DEF group, starts
<1>7. PartsFollow(groupIntoSessions(W))
  BY <1>1, <1>6 DEF PartsFollow
<1> QED
  BY <1>1, <1>3, <1>4, <1>7

\* A run that finds what to do has all that was said since the last end.
LEMMA DetectKeeps ==
  ASSUME MemoryInductive, NEW r \in SummaryRun, detectUnprocessedWindow(r)
  PROVE  MemoryInductive'
<1> DEFINE cutoff == quarter - sessionGap
           window == GetMessagesBetween(TheEnd, cutoff)
           groups == groupIntoSessions(window)
<1>1. MemoryTypes
  BY DEF MemoryInductive
<1>2. CASE UNCHANGED <<left, overlapped>>
  BY <1>1, <1>2, RunsEnd DEF MemoryTypes, detectUnprocessedWindow
<1>3. CASE left' = [left EXCEPT ![r] = groups] /\ overlapped' = (overlapped \/ UnderWay # {})
  <2>1. window \in SUBSET Quarter
    <3>1. 0 .. quarter \subseteq Quarter
      BY <1>1 DEF MemoryTypes, Quarter
    <3> QED
      BY <1>1, <3>1 DEF MemoryTypes, GetMessagesBetween
  <2>2. UNCHANGED <<quarter, said, episodes>>
    BY DEF detectUnprocessedWindow
  <2>3. /\ \A s \in groups : s # {} /\ s \subseteq window
        /\ \A m \in window : \E s \in groups : m \in s
        /\ PartsFollow(groups)
    BY <2>1, GroupsCover
  <2>4. MemoryTypes'
    <3>1. groups \in SUBSET SUBSET Quarter
      BY <2>1, <2>3
    <3>2. left' \in [SummaryRun -> SUBSET SUBSET Quarter]
      BY <1>1, <1>3, <3>1 DEF MemoryTypes
    <3>3. \A q \in SummaryRun : {} \notin left'[q]
      BY <1>1, <1>3, <2>3 DEF MemoryTypes
    <3>4. overlapped' \in BOOLEAN
      BY <1>1, <1>3 DEF MemoryTypes
    <3> QED
      BY <1>1, <2>2, <3>2, <3>3, <3>4 DEF MemoryTypes
  <2>5. ASSUME ~overlapped' PROVE MemoryFits'
    <3>1. MemoryFits /\ UnderWay = {}
      BY <1>3, <2>5 DEF MemoryInductive
    <3>2. StoredMessages' = StoredMessages /\ TheEnd' = TheEnd
      BY <2>2 DEF StoredMessages, TheEnd, LastSessionEpisodeEndedAt
    <3>3. EpisodesFit' /\ AllStored'
      BY <2>2, <3>1, <3>2 DEF MemoryFits, EpisodesFit, AllStored
    <3>4. left'[r] = groups /\ \A q \in SummaryRun : q # r => left'[q] = {}
      BY <1>1, <1>3, <3>1 DEF MemoryTypes, UnderWay
    <3>5. TheEnd \in Int /\ cutoff \in Int /\ said \subseteq Int
      BY <1>1, <3>1, StoredFits DEF EndFits, MemoryTypes, Quarter, sessionGap
    <3>6. ASSUME NEW s \in groups PROVE SessionFitsIn(s, left[r])'
      <4>1. s # {} /\ s \subseteq said /\ \A m \in s : TheEnd <= m /\ m < cutoff
        BY <2>3, <3>6 DEF GetMessagesBetween
      <4>2. ASSUME NEW x \in s, NEW m \in said, m <= x
            PROVE  m \in StoredMessages \/ \E t \in groups : m \in t
        <5>1. m <= TheEnd => m \in StoredMessages
          BY <3>1 DEF MemoryFits, AllStored
        <5>2. TheEnd <= m => m \in window
          <6>1. x \in Int /\ m \in Int /\ x < cutoff
            BY <3>5, <4>1
          <6>2. m < cutoff
            BY ONLY <3>5, <4>2, <6>1
          <6> QED
            BY <6>2 DEF GetMessagesBetween
        <5>3. TheEnd <= m \/ m <= TheEnd
          BY <3>5
        <5> QED
          BY <2>3, <5>1, <5>2, <5>3
      <4> QED
        BY <2>2, <3>2, <3>4, <4>1, <4>2 DEF SessionFitsIn
    <3>7. SessionsLeftFit'
      BY <2>3, <3>4, <3>6 DEF SessionsLeftFit, PartsFollow
    <3>8. RunsAreAlone'
      BY <3>4 DEF RunsAreAlone
    <3> QED
      BY <3>3, <3>7, <3>8 DEF MemoryFits
  <2> QED
    BY <2>4, <2>5 DEF MemoryInductive
<1> QED
  BY <1>2, <1>3 DEF detectUnprocessedWindow, TheEnd

\* The session that comes next is the one that begins first.
LEMMA NextIsThere ==
  ASSUME MemoryTypes, NEW r \in SummaryRun, left[r] # {}
  PROVE  /\ NextSession(r) \in left[r]
         /\ \A t \in left[r] : EarliestOf(NextSession(r)) <= EarliestOf(t)
<1>1. left[r] \subseteq SUBSET Quarter /\ \A t \in left[r] : t # {}
  BY DEF MemoryTypes
<1>2. \A t \in left[r] : EarliestOf(t) \in t /\ EarliestOf(t) \in Nat
  BY <1>1, EarliestIsThere DEF Quarter
<1>3. \E s \in left[r] : \A t \in left[r] : EarliestOf(s) <= EarliestOf(t)
  <2> DEFINE firsts == {EarliestOf(t) : t \in left[r]}
  <2>1. firsts \in SUBSET Nat /\ firsts # {}
    BY <1>2
  <2>2. PICK x \in firsts : \A y \in firsts : x <= y
    BY <2>1, Smallest
  <2>3. PICK s \in left[r] : x = EarliestOf(s)
    OBVIOUS
  <2>4. \A t \in left[r] : EarliestOf(t) \in firsts
    OBVIOUS
  <2> QED
    BY <2>2, <2>3, <2>4
<1> QED
  BY <1>3 DEF NextSession

\* It lies before the ones that are left.
LEMMA NextIsFirst ==
  ASSUME MemoryTypes, MemoryFits, NEW r \in SummaryRun, left[r] # {},
         NEW t \in left[r], t # NextSession(r)
  PROVE  \A x \in NextSession(r), y \in t : x < y
<1>1. \A u \in left[r] : u \subseteq Quarter /\ u # {}
  BY DEF MemoryTypes
<1>2. NextSession(r) \in left[r] /\ EarliestOf(NextSession(r)) <= EarliestOf(t)
  BY NextIsThere
<1>3. EarliestOf(t) \in t /\ EarliestOf(NextSession(r)) \in NextSession(r)
  BY <1>1, <1>2, EarliestIsThere
<1>4. \/ \A x \in NextSession(r), y \in t : x < y
      \/ \A x \in NextSession(r), y \in t : y < x
  BY <1>2 DEF MemoryFits, SessionsLeftFit, PartsFollow
<1>5. ~(EarliestOf(t) < EarliestOf(NextSession(r)))
  BY <1>1, <1>2, <1>3 DEF Quarter
<1> QED
  BY <1>3, <1>4, <1>5

\* The episode takes the place of one that has nothing else: the end moves to
\* the session's, and what was stored stays.
LEMMA SummarizeKeeps ==
  ASSUME MemoryInductive, NEW r \in SummaryRun, SummarizeSession(r)
  PROVE  MemoryInductive'
<1> DEFINE s == NextSession(r)
           e == EarliestOf(s)
<1>1. MemoryTypes /\ UNCHANGED <<quarter, said, overlapped>> /\ left[r] # {}
  BY DEF MemoryInductive, SummarizeSession
<1>2. s \in left[r] /\ s \subseteq Quarter /\ s # {}
  BY <1>1, NextIsThere DEF MemoryTypes
<1>3. e \in s /\ e \in Quarter /\ \A u \in s : e <= u
  BY <1>2, EarliestIsThere
<1> HIDE DEF e
<1>4. /\ \A t \in Quarter : episodes'[t] = IF t = e THEN s ELSE episodes[t]
      /\ \A q \in SummaryRun : left'[q] = IF q = r THEN left[r] \ {s} ELSE left[q]
  BY <1>1 DEF SummarizeSession, MemoryTypes, e
<1>5. MemoryTypes'
  <2>1. left' \in [SummaryRun -> SUBSET SUBSET Quarter] /\ \A q \in SummaryRun : {} \notin left'[q]
    BY <1>1, <1>4 DEF MemoryTypes, SummarizeSession
  <2>2. episodes' \in [Quarter -> SUBSET Quarter]
    BY <1>1, <1>2 DEF MemoryTypes, SummarizeSession
  <2> QED
    BY <1>1, <2>1, <2>2 DEF MemoryTypes
<1>6. ASSUME ~overlapped' PROVE MemoryFits'
  <2>1. MemoryFits
    BY <1>1, <1>6 DEF MemoryInductive
  <2>2. SessionFitsIn(s, left[r]) /\ \A m \in s : m \in said /\ TheEnd <= m /\ m < quarter - sessionGap
    BY <1>2, <2>1 DEF MemoryFits, SessionsLeftFit, SessionFitsIn
  <2>3. /\ StoredMessages \in SUBSET Quarter
        /\ EndFits(TheEnd, StoredMessages)
    BY <1>1, <2>1, StoredFits
  <2>4. StoredMessages' = StoredMessages \cup s
    <3>1. episodes[e] \subseteq s
      <4> SUFFICES ASSUME NEW m \in episodes[e] PROVE m = e
        BY <1>3
      <4>1. e <= m /\ m \in StoredMessages
        BY <1>3, <2>1 DEF MemoryFits, EpisodesFit, StoredMessages
      <4>2. m <= TheEnd /\ TheEnd <= e
        BY <1>3, <2>2, <2>3, <4>1 DEF EndFits
      <4> QED
        BY <1>3, <2>3, <4>1, <4>2 DEF EndFits, Quarter
    <3> QED
      BY <1>3, <1>4, <3>1 DEF StoredMessages
  <2>5. EndFits(TheEnd, StoredMessages)'
    <3>1. StoredMessages' \in SUBSET Quarter
      BY <1>5 DEF StoredMessages, MemoryTypes
    <3>2. TheEnd' = IF StoredMessages' = {} THEN -1 ELSE LastOf(StoredMessages')
      BY DEF TheEnd, LastSessionEpisodeEndedAt, StoredMessages
    <3>3. EndFits(TheEnd', StoredMessages')
      BY <3>1, <3>2, EndIsThere
    <3> QED
      BY <3>3 DEF EndFits
  <2>6. TheEnd' \in s /\ \A m \in s : m <= TheEnd'
    <3>1. TheEnd' \in StoredMessages' /\ \A m \in StoredMessages' : m <= TheEnd'
      BY <1>3, <2>4, <2>5 DEF EndFits
    <3>2. TheEnd' \in StoredMessages => TheEnd' = e
      <4>1. e <= TheEnd' /\ TheEnd <= e
        BY <1>3, <2>2, <2>4, <3>1
      <4> QED
        BY <1>3, <2>3, <2>5, <4>1 DEF EndFits, Quarter
    <3> QED
      BY <1>3, <2>4, <3>1, <3>2
  <2>7. \A t \in left[r] : t # s => \A y \in t : TheEnd' < y
    BY <1>1, <2>1, <2>6, NextIsFirst
  <2>8. EpisodesFit'
    BY <1>1, <1>3, <1>4, <2>1, <2>2 DEF MemoryFits, EpisodesFit
  <2>9. AllStored'
    <3> SUFFICES ASSUME NEW m \in said, m <= TheEnd' PROVE m \in StoredMessages'
      BY <1>1 DEF AllStored
    <3>1. m \in StoredMessages \/ \E t \in left[r] : m \in t
      BY <2>2, <2>6 DEF SessionFitsIn
    <3>2. ASSUME NEW t \in left[r], m \in t PROVE t = s
      <4>1. m \in Int /\ TheEnd' \in Int
        BY <1>1, <2>5, <3>2 DEF MemoryTypes, EndFits, Quarter
      <4> QED
        BY <2>7, <3>2, <4>1
    <3> QED
      BY <2>4, <3>1, <3>2
  <2>10. ASSUME NEW t \in left'[r] PROVE SessionFitsIn(t, left[r])'
    <3>1. t \in left[r] /\ t # s
      BY <1>4
    <3>2. SessionFitsIn(t, left[r])
      BY <2>1, <3>1 DEF MemoryFits, SessionsLeftFit
    <3>3. \A m \in t : TheEnd' <= m
      <4>1. \A m \in t : m \in Int /\ TheEnd' \in Int /\ TheEnd' < m
        BY <1>1, <2>5, <2>7, <3>1 DEF MemoryTypes, EndFits, Quarter
      <4> QED
        BY <4>1
    <3>4. ASSUME NEW x \in t, NEW m \in said, m <= x
          PROVE  m \in StoredMessages' \/ \E u \in left'[r] : m \in u
      BY <1>4, <2>4, <3>2, <3>4 DEF SessionFitsIn
    <3> QED
      BY <1>1, <3>2, <3>3, <3>4 DEF SessionFitsIn
  <2>11. \A q \in SummaryRun : q # r => left'[q] = {}
    BY <1>1, <1>4, <2>1 DEF MemoryFits, RunsAreAlone
  <2>12. SessionsLeftFit'
    <3>1. PartsFollow(left'[r])
      BY <1>4, <2>1 DEF MemoryFits, SessionsLeftFit, PartsFollow
    <3>2. \A q \in SummaryRun : q # r => PartsFollow(left'[q])
      BY <2>11 DEF PartsFollow
    <3> QED
      BY <2>10, <2>11, <3>1, <3>2 DEF SessionsLeftFit, PartsFollow
  <2>13. RunsAreAlone'
    BY <2>11 DEF RunsAreAlone
  <2> QED
    BY <2>8, <2>9, <2>12, <2>13 DEF MemoryFits
<1> QED
  BY <1>5, <1>6 DEF MemoryInductive

LEMMA MemoryGoesOn == MemoryInductive /\ [SessionMemoryNext]_sessionVars => MemoryInductive'
<1> SUFFICES ASSUME MemoryInductive, [SessionMemoryNext]_sessionVars PROVE MemoryInductive'
  OBVIOUS
<1>1. MemoryTypes
  BY DEF MemoryInductive
<1>2. CASE Say
  BY <1>1, <1>2, TimeGoesOn DEF Say, MemoryTypes, Quarter
<1>3. CASE QuarterPasses
  BY <1>1, <1>3, TimeGoesOn DEF QuarterPasses, MemoryTypes, Quarter
<1>4. CASE StopMemory
  <2>1. left' \in [SummaryRun -> SUBSET SUBSET Quarter] /\ \A r \in SummaryRun : left'[r] = {}
    BY <1>4 DEF StopMemory
  <2> QED
    BY <1>4, <2>1, RunsEnd DEF StopMemory
<1>5. ASSUME NEW r \in SummaryRun, SummarizeFails(r) PROVE MemoryInductive'
  <2>1. /\ left' \in [SummaryRun -> SUBSET SUBSET Quarter]
        /\ \A q \in SummaryRun : left'[q] = left[q] \/ left'[q] = {}
    BY <1>1, <1>5 DEF SummarizeFails, MemoryTypes
  <2> QED
    BY <1>5, <2>1, RunsEnd DEF SummarizeFails
<1>6. CASE UNCHANGED sessionVars
  BY <1>1, <1>6, RunsEnd DEF sessionVars, MemoryTypes
<1> QED
  BY <1>2, <1>3, <1>4, <1>5, <1>6, DetectKeeps, SummarizeKeeps DEF SessionMemoryNext

\* NothingIsForgotten holds for any number of runs and any stretch of time:
\* what lies before the end of the last episode is in an episode, since a run
\* that is alone stores its sessions from the oldest to the newest, and each
\* next one begins after the end of the one before it.
THEOREM MemoryForgetsNothing == SessionMemorySpec => []NothingIsForgotten
<1>1. MemoryInductive => NothingIsForgotten
  <2> SUFFICES ASSUME MemoryInductive, ~overlapped, NEW m \in said, m <= LastSessionEpisodeEndedAt
               PROVE  \E t \in Quarter : m \in episodes[t]
    BY DEF NothingIsForgotten
  <2> QED
    BY DEF MemoryInductive, MemoryFits, AllStored, TheEnd, StoredMessages
<1> QED
  BY MemoryStarts, MemoryGoesOn, <1>1, PTL DEF SessionMemorySpec
-----------------------------------------------------------------------------
USE RecallAssumption

\* A text was made at some hour, of the sessions of the day before it; what ends
\* later does not belong to it.
TextFits(text) ==
  /\ text \in Text /\ text.made \in RecallHour /\ text.made <= hour
  /\ \A h \in text.of : text.made - RecentFor <= h
  /\ \A h \in summarized : text.made - RecentFor <= h /\ h < text.made => h \in text.of

\* A source that has answered has given its best, and of all that the best are kept.
SourcesFit ==
  \/ vector
  \/ awaited = {} /\ recalled = {}
  \/ \A source \in Source \ (awaited \union skipped \union {"nexus"}) :
       \E top \in Best(MaxPerSource, StoredRows(source)) : top \subseteq found

RecalledFits ==
  /\ stock \subseteq Memory /\ found \subseteq stock
  /\ IF awaited = {} /\ recalled # {} THEN recalled \in Best(MaxTotal, found) ELSE recalled = {}

PromptsFit ==
  /\ hour \in RecallHour /\ summarized \subseteq 0 .. hour
  /\ recent \in [Chat -> Text]
  /\ \A c \in Chat : recent[c] = NoText \/ TextFits(recent[c])
  /\ shown.text = NoText \/ (/\ TextFits(shown.text) /\ shown.at \in RecallHour
                             /\ shown.text.made <= shown.at /\ shown.at < shown.text.made + KeptFor)

RecallInductive ==
  /\ awaited \subseteq Source /\ vector \in BOOLEAN
  /\ SourcesFit /\ RecalledFits /\ PromptsFit

LEMMA RecallStarts == RecallInit => RecallInductive
<1> SUFFICES ASSUME RecallInit PROVE RecallInductive
  OBVIOUS
<1>1. SourcesFit /\ RecalledFits
  BY DEF RecallInit, SourcesFit, RecalledFits
<1>2. PromptsFit
  BY DEF RecallInit, PromptsFit, NoText, Text, RecallHour
<1> QED
  BY <1>1, <1>2 DEF RecallInit, RecallInductive

\* A source answers, or fails.
LEMMA AnswerKeeps ==
  ASSUME RecallInductive, NEW source \in awaited, NEW rows, Answered(source, rows),
         rows \subseteq stock,
         \/ skipped' = skipped \union {source}
         \/ skipped' = skipped /\ rows \in Search(source)
  PROVE  SourcesFit' /\ RecalledFits' /\ awaited' \subseteq Source /\ vector' \in BOOLEAN
<1>1. /\ awaited' = awaited \ {source} /\ found' = found \union rows
      /\ UNCHANGED <<stock, vector>> /\ source \in Source
      /\ recalled' \in IF awaited' = {} THEN Best(MaxTotal, found') ELSE {{}}
  BY DEF Answered, RecallInductive
<1>2. RecalledFits'
  <2>1. stock' \subseteq Memory /\ found' \subseteq stock'
    BY <1>1 DEF RecallInductive, RecalledFits
  <2>2. awaited' = {} => recalled' \in Best(MaxTotal, found')
    BY <1>1
  <2>3. awaited' # {} => recalled' = {}
    BY <1>1
  <2>4. IF awaited' = {} /\ recalled' # {} THEN recalled' \in Best(MaxTotal, found') ELSE recalled' = {}
    BY <2>2, <2>3
  <2> QED
    BY <2>1, <2>4 DEF RecalledFits, Best, AsMany
<1>3. SourcesFit'
  <2> SUFFICES ASSUME ~vector, NEW other \in Source \ (awaited' \union skipped' \union {"nexus"})
               PROVE  \E top \in Best(MaxPerSource, StoredRows(other)) : top \subseteq found'
    BY <1>1 DEF SourcesFit, Best, AsMany, StoredRows
  <2>1. CASE other = source
    <3>1. other \in {"episodes", "praxis"} /\ rows \in Search(source)
      BY <2>1 DEF Source
    <3>2. rows \in Best(MaxPerSource, StoredRows(other))
      BY <2>1, <3>1 DEF Search, SearchEpisodes, searchEpisodesByFilter, SearchPatterns, getAllPatternsCapped
    <3> QED
      BY <1>1, <3>2
  <2>2. CASE other # source
    <3>1. other \in Source \ (awaited \union skipped \union {"nexus"})
      BY <1>1, <2>2
    <3> QED
      BY <1>1, <3>1 DEF RecallInductive, SourcesFit
  <2> QED
    BY <2>1, <2>2
<1> QED
  BY <1>1, <1>2, <1>3 DEF RecallInductive

LEMMA FoundIsStored ==
  ASSUME RecallInductive, NEW source \in Source, NEW rows \in Search(source)
  PROVE  rows \subseteq stock
<1>1. \A n \in Nat, s \in Source : \A top \in Best(n, StoredRows(s)) : top \subseteq stock
  BY DEF Best, StoredRows
<1>2. \A s \in Source : \A top \in searchByVector(StoredRows(s)) : top \subseteq stock
  BY DEF searchByVector, StoredRows
<1>3. \A top \in SearchNexus : top \subseteq stock
  BY DEF SearchNexus, StoredRows
<1>4. /\ \A top \in SearchEpisodes : top \subseteq stock
      /\ \A top \in SearchPatterns : top \subseteq stock
  BY <1>1, <1>2 DEF SearchEpisodes, searchEpisodesByFilter, SearchPatterns, getAllPatternsCapped,
     searchPatternsByVector, Source
<1> QED
  BY <1>3, <1>4 DEF Search

\* Texts stay right as time goes on and sessions end.
LEMMA TextsStay ==
  ASSUME PromptsFit, hour' \in RecallHour, hour <= hour',
         summarized' = summarized \/ summarized' = summarized \union {hour},
         NEW text, TextFits(text)
  PROVE  TextFits(text)'
<1>1. hour \in Int /\ hour' \in Int /\ text.made \in Int /\ text.made <= hour
  BY DEF PromptsFit, TextFits, RecallHour
<1>2. \A h \in summarized' : h \in summarized \/ h = hour
  OBVIOUS
<1>3. ASSUME NEW h \in summarized', text.made - RecentFor <= h, h < text.made PROVE h \in text.of
  BY <1>1, <1>2, <1>3 DEF TextFits
<1>4. text.made <= hour'
  BY <1>1
<1> QED
  BY <1>3, <1>4 DEF TextFits

LEMMA PromptsStay ==
  ASSUME PromptsFit, hour' \in RecallHour, hour <= hour',
         summarized' = summarized \/ summarized' = summarized \union {hour},
         UNCHANGED <<recent, shown>>
  PROVE  PromptsFit'
<1>1. hour \in Nat /\ hour' \in Nat /\ summarized \subseteq 0 .. hour
  BY DEF PromptsFit, RecallHour
<1>2. summarized' \subseteq 0 .. hour'
  <2>1. 0 .. hour \subseteq 0 .. hour' /\ hour \in 0 .. hour'
    BY <1>1
  <2> QED
    BY <1>1, <2>1
<1>3. \A text : TextFits(text) => TextFits(text)'
  BY TextsStay
<1> QED
  BY <1>2, <1>3 DEF PromptsFit

LEMMA PromptKeeps ==
  ASSUME PromptsFit, NEW c \in Chat, GetRecentMemoryForLLM(c)
  PROVE  PromptsFit'
<1> DEFINE text == IF hour < recent[c].made + KeptFor THEN recent[c] ELSE [made |-> hour, of |-> RecallRecent]
<1>1. /\ recent' = [recent EXCEPT ![c] = text] /\ shown' = [text |-> text, at |-> hour]
      /\ UNCHANGED <<hour, summarized>>
  BY DEF GetRecentMemoryForLLM
<1>2. TextFits(text) /\ text.made <= hour /\ hour < text.made + KeptFor
  <2>1. CASE hour < recent[c].made + KeptFor
    <3>1. recent[c] # NoText
      BY <2>1 DEF NoText, PromptsFit, RecallHour
    <3>2. TextFits(recent[c])
      BY <3>1 DEF PromptsFit
    <3> QED
      BY <2>1, <3>2 DEF TextFits
  <2>2. CASE ~(hour < recent[c].made + KeptFor)
    <3> DEFINE new == [made |-> hour, of |-> RecallRecent]
    <3>1. text = new
      BY <2>2
    <3>2. hour \in Int /\ summarized \subseteq Int /\ summarized \subseteq RecallHour
      BY DEF PromptsFit, RecallHour
    <3>3. new \in Text
      BY <3>2 DEF RecallRecent, PromptsFit, Text
    <3>4. TextFits(new)
      BY <3>2, <3>3 DEF TextFits, RecallRecent, PromptsFit
    <3>5. hour < hour + KeptFor
      BY <3>2
    <3> QED
      BY <3>1, <3>4, <3>5 DEF TextFits
  <2> QED
    BY <2>1, <2>2
<1>3. PICK x : x = text
  OBVIOUS
<1> HIDE DEF text
<1>4. TextFits(x)' /\ \A t : TextFits(t) => TextFits(t)'
  BY <1>1, <1>2, <1>3 DEF TextFits
<1>5. recent' \in [Chat -> Text] /\ \A d \in Chat : recent'[d] = IF d = c THEN x ELSE recent[d]
  BY <1>1, <1>2, <1>3 DEF PromptsFit, TextFits
<1>6. shown'.text = x /\ shown'.at = hour
  BY <1>1, <1>3
<1>7. \A d \in Chat : recent'[d] = NoText \/ TextFits(recent[d])'
  <2> SUFFICES ASSUME NEW d \in Chat, recent'[d] # NoText PROVE TextFits(recent[d])'
    OBVIOUS
  <2>1. CASE d = c
    BY <1>4, <1>5, <2>1 DEF TextFits
  <2>2. CASE d # c
    <3>1. TextFits(recent[d]) /\ recent'[d] = recent[d]
      BY <1>5, <2>2 DEF PromptsFit
    <3> QED
      BY <1>1, <3>1 DEF TextFits
  <2> QED
    BY <2>1, <2>2
<1>8. /\ TextFits(shown.text)' /\ shown'.at \in RecallHour
      /\ shown'.text.made <= shown'.at /\ shown'.at < shown'.text.made + KeptFor
  BY <1>2, <1>3, <1>4, <1>6 DEF TextFits, PromptsFit
<1> QED
  BY <1>1, <1>5, <1>7, <1>8 DEF PromptsFit

LEMMA RecallGoesOn ==
  RecallInductive /\ [RecallNext \/ PromptNext]_recallVars => RecallInductive'
<1> SUFFICES ASSUME RecallInductive, [RecallNext \/ PromptNext]_recallVars PROVE RecallInductive'
  OBVIOUS
<1>1. ASSUME UNCHANGED <<stock, vector, awaited, skipped, found, recalled>>
      PROVE  SourcesFit' /\ RecalledFits' /\ awaited' \subseteq Source /\ vector' \in BOOLEAN
  <2>1. SourcesFit'
    BY <1>1 DEF RecallInductive, SourcesFit, Best, AsMany, StoredRows
  <2>2. RecalledFits'
    BY <1>1 DEF RecallInductive, RecalledFits, Best, AsMany
  <2> QED
    BY <1>1, <2>1, <2>2 DEF RecallInductive
<1>2. hour \in RecallHour /\ hour <= hour /\ PromptsFit
  BY DEF RecallInductive, PromptsFit, RecallHour
<1>3. ASSUME UNCHANGED <<hour, summarized, recent, shown>> PROVE PromptsFit'
  BY <1>2, <1>3, PromptsStay
<1>4. CASE AskSources
  BY <1>3, <1>4 DEF AskSources, RecallInductive, SourcesFit, RecalledFits
<1>5. ASSUME NEW source \in awaited, NEW rows \in Search(source), Answered(source, rows), UNCHANGED skipped
      PROVE  RecallInductive'
  <2>1. rows \subseteq stock
    BY <1>5, FoundIsStored DEF RecallInductive
  <2>2. SourcesFit' /\ RecalledFits' /\ awaited' \subseteq Source /\ vector' \in BOOLEAN
    BY <1>5, <2>1, AnswerKeeps
  <2> QED
    BY <1>3, <1>5, <2>2 DEF Answered, RecallInductive
<1>6. ASSUME NEW source \in awaited, Answered(source, {}), skipped' = skipped \union {source}
      PROVE  RecallInductive'
  <2>1. SourcesFit' /\ RecalledFits' /\ awaited' \subseteq Source /\ vector' \in BOOLEAN
    BY <1>6, AnswerKeeps
  <2> QED
    BY <1>3, <1>6, <2>1 DEF Answered, RecallInductive
<1>7. CASE HourPasses
  <2>1. hour' \in RecallHour /\ hour <= hour'
    BY <1>2, <1>7 DEF HourPasses, RecallHour
  <2> QED
    BY <1>1, <1>2, <1>7, <2>1, PromptsStay DEF HourPasses, RecallInductive
<1>8. CASE SessionSummarized
  BY <1>1, <1>2, <1>8, PromptsStay DEF SessionSummarized, RecallInductive
<1>9. ASSUME NEW c \in Chat, GetRecentMemoryForLLM(c) PROVE RecallInductive'
  BY <1>1, <1>2, <1>9, PromptKeeps DEF GetRecentMemoryForLLM, RecallInductive
<1>10. CASE UNCHANGED recallVars
  BY <1>1, <1>3, <1>10 DEF recallVars, RecallInductive
<1> QED
  BY <1>4, <1>5, <1>6, <1>7, <1>8, <1>9, <1>10 DEF RecallNext, PromptNext, SourceAnswers, SourceFails

\* Rows that a source was cut to are enough for the cut of all.
LEMMA CutIsEnough ==
  ASSUME RecallInductive, NEW m \in stock, m \notin recalled, NEW r \in recalled,
         recalled \in Best(MaxTotal, found),
         NEW top \in Best(MaxPerSource, StoredRows(m.source)), top \subseteq found
  PROVE  m.score <= r.score
<1> DEFINE rows == StoredRows(m.source)
<1>1. /\ IsFiniteSet(stock) /\ IsFiniteSet(rows) /\ IsFiniteSet(found)
      /\ stock \subseteq Memory /\ found \subseteq stock /\ rows \subseteq stock /\ m \in rows
  BY FS_Subset DEF RecallInductive, RecalledFits, StoredRows
<1>2. top \subseteq rows /\ Cardinality(top) = AsMany(MaxPerSource, rows)
      /\ \A t \in top, q \in rows \ top : q.score <= t.score
  BY DEF Best
<1>3. recalled \subseteq found /\ Cardinality(recalled) = AsMany(MaxTotal, found)
      /\ \A t \in recalled, q \in found \ recalled : q.score <= t.score
  BY DEF Best
<1>4. /\ IsFiniteSet(top) /\ IsFiniteSet(recalled)
      /\ Cardinality(top) \in Nat /\ Cardinality(recalled) \in Nat
      /\ Cardinality(rows) \in Nat /\ Cardinality(found) \in Nat
  BY <1>1, <1>2, <1>3, FS_Subset, FS_CardinalityType
<1>5. \A q \in stock : q.score \in Nat
  BY <1>1
<1>6. CASE m \in top
  BY <1>3, <1>6
<1>7. CASE m \notin top
  <2>1. Cardinality(top) # Cardinality(rows)
    BY <1>1, <1>2, <1>7, FS_Subset
  <2>2. Cardinality(top) = MaxPerSource
    BY <1>2, <2>1 DEF AsMany
  <2>3. Cardinality(recalled) <= Cardinality(top)
    BY <1>3, <1>4, <2>2 DEF AsMany
  <2>4. CASE top \subseteq recalled
    <3>1. Cardinality(top) <= Cardinality(recalled) /\ (Cardinality(recalled) = Cardinality(top) => recalled = top)
      BY <1>4, <2>4, FS_Subset
    <3>2. recalled = top
      BY <1>4, <2>3, <3>1
    <3> QED
      BY <1>1, <1>2, <1>7, <3>2
  <2>5. ASSUME NEW t \in top, t \notin recalled PROVE m.score <= r.score
    <3>1. m.score <= t.score /\ t.score <= r.score
      BY <1>1, <1>2, <1>3, <1>7, <2>5
    <3>2. m.score \in Int /\ t.score \in Int /\ r.score \in Int
      BY <1>1, <1>2, <1>3, <1>5, <2>5
    <3> QED
      BY <3>1, <3>2
  <2> QED
    BY <2>4, <2>5
<1> QED
  BY <1>6, <1>7

\* What an agent is reminded of is right for any store, any number of rows that
\* are asked for and kept, and any hours that texts and episodes are fresh for:
\* a row that a source held back for its score is outdone by as many rows as the
\* recall gives back, and a text is told by the hour it was made in.
THEOREM MemoriesStayRight == RecallSpec => []MemoriesAreRight
<1>1. RecallInductive => BestAreRecalled
  <2> SUFFICES ASSUME RecallInductive, awaited = {}, ~vector, recalled # {}, NEW m \in stock \ recalled,
                      m.source \notin skipped \union {"nexus"}, NEW r \in recalled
               PROVE  m.score <= r.score
    BY DEF BestAreRecalled
  <2>1. m.source \in Source \ (awaited \union skipped \union {"nexus"})
    BY DEF RecallInductive, RecalledFits
  <2>2. PICK top \in Best(MaxPerSource, StoredRows(m.source)) : top \subseteq found
    BY <2>1 DEF RecallInductive, SourcesFit
  <2> QED
    BY <2>2, CutIsEnough DEF RecallInductive, RecalledFits
<1>2. RecallInductive => PromptsAreRecent
  <2> SUFFICES ASSUME RecallInductive PROVE PromptsAreRecent
    OBVIOUS
  <2>1. CASE shown.text = NoText
    BY <2>1 DEF PromptsAreRecent, NoText
  <2>2. CASE shown.text # NoText
    <3> DEFINE text == shown.text
    <3>1. /\ TextFits(text) /\ text.made \in Int /\ shown.at \in Int /\ text.of \subseteq Int /\ summarized \subseteq Int
          /\ text.made <= shown.at /\ shown.at < text.made + KeptFor
      BY <2>2 DEF RecallInductive, PromptsFit, TextFits, Text, RecallHour
    <3> HIDE DEF text
    <3>2. ASSUME NEW h \in summarized, shown.at - RecentFor <= h, h <= shown.at - KeptFor PROVE h \in text.of
      <4>1. text.made - RecentFor <= h /\ h < text.made
        BY <3>1, <3>2
      <4> QED
        BY <3>1, <4>1 DEF TextFits
    <3>3. ASSUME NEW h \in text.of PROVE shown.at - h < RecentFor + KeptFor
      BY <3>1, <3>3 DEF TextFits
    <3> QED
      BY <3>2, <3>3 DEF PromptsAreRecent, text
  <2> QED
    BY <2>1, <2>2
<1>3. RecallInductive => MemoriesAreRight
  BY <1>1, <1>2 DEF MemoriesAreRight
<1> QED
  BY RecallStarts, RecallGoesOn, <1>3, PTL DEF RecallSpec
-----------------------------------------------------------------------------
HIDE RecallAssumption
HIDE SessionMemoryAssumption
HIDE CliAssumption
HIDE NexusAssumption
HIDE TaskAssumption
HIDE CronAssumption
USE ConfigAssumption

What == {"on", "off", "keep", "llm", "name", "access", "content"}
FileWrite == [file : File, what : What, form : {"good", "fenced"}]
FileState == [form : {"good", "fenced", "empty", "absent"}, on : BOOLEAN]
CommandName == {"none", "set", "enable", "disable", "convert", "retry"}

ConfigTypes ==
  /\ file \in [File -> FileState]
  /\ command \in [name : CommandName, of : SUBSET File, strict : BOOLEAN, todo : Seq(FileWrite)]
  /\ byHand \subseteq Resource /\ cutShort \subseteq Council

Claims(d) == file[d].form = "good" /\ file[d].on

\* A claimed part that is there and not switched off by hand is enabled.
Staffed(d) ==
  Claims(d) => \A r \in PartsOf(d) \ byHand : file[r].form = "good" => file[r].on

\* The writes that are left end with the council's own file; what is still off of
\* its parts comes before.
EnablingFits(c, todo) ==
  /\ todo # <<>> /\ todo[Len(todo)].file = c
  /\ \A i \in 1 .. Len(todo) : todo[i].what = "on"
  /\ \A i \in 1 .. (Len(todo) - 1) : todo[i].file \in Resource
  /\ \A r \in PartsOf(c) \ byHand : file[r].form = "good" /\ ~file[r].on =>
       \E i \in 1 .. (Len(todo) - 1) : todo[i].file = r

\* None of them switches off what another council claims.
DisablingFits(c, todo) ==
  /\ todo # <<>> /\ todo[Len(todo)].file = c /\ todo[Len(todo)].what = "off"
  /\ \A i \in 1 .. (Len(todo) - 1) :
       /\ todo[i].file \in Resource /\ todo[i].what \in {"off", "keep"}
       /\ todo[i].what = "off" => \A d \in Council \ {c} : Claims(d) => todo[i].file \notin PartsOf(d)

OthersFit(name, todo) ==
  \A i \in 1 .. Len(todo) : /\ todo[i].file \in Resource /\ (todo[i].what = "off" => name = "set")
                            /\ todo[i].what = "content" => todo[i].file \in Skill

CommandFits ==
  /\ command.name = "none" => command.todo = <<>>
  /\ command.name = "enable" => \E c \in Council : command.of = {c} /\ EnablingFits(c, command.todo)
  /\ command.name = "disable" => \E c \in Council : command.of = {c} /\ DisablingFits(c, command.todo)
  /\ command.name \in {"set", "convert", "retry"} => OthersFit(command.name, command.todo)
  /\ command.name \in {"convert", "retry"} => command.of \subseteq Skill

CouncilsFit ==
  \A d \in Council \ cutShort : Staffed(d) \/ (command.name = "disable" /\ command.of = {d})

\* Only a converted skill is anything but YAML.
AgentsFit == \A a \in AgentFile : file[a].form # "fenced"

ConfigInductive == ConfigTypes /\ CommandFits /\ CouncilsFit

LEMMA IdleFits == Idle \in [name : CommandName, of : SUBSET File, strict : BOOLEAN, todo : Seq(FileWrite)]
BY DEF Idle, CommandName

LEMMA ConfigStarts == ConfigInit => ConfigInductive
<1> SUFFICES ASSUME ConfigInit PROVE ConfigInductive
  OBVIOUS
<1>1. ConfigTypes
  <2>1. file \in [File -> FileState]
    BY DEF ConfigInit, FileState
  <2> QED
    BY <2>1, IdleFits DEF ConfigInit, ConfigTypes
<1>2. \A d \in Council : ~Claims(d)
  BY DEF ConfigInit, Claims, File
<1>3. CommandFits /\ CouncilsFit
  BY <1>2 DEF ConfigInit, CommandFits, CouncilsFit, Staffed, Idle
<1> QED
  BY <1>1, <1>3 DEF ConfigInductive

(* ------------------------------- the parts ------------------------------- *)

LEMMA PartsAreResources ==
  ASSUME NEW c \in Council
  PROVE  /\ Parts(c) \in Seq(Resource) /\ PartsOf(c) \subseteq Resource
         /\ PartsOf(c) = {Parts(c)[i] : i \in 1 .. Len(Parts(c))}
<1>1. Uses[c].agents \in Seq(Resource) /\ Uses[c].skills \in Seq(Resource) /\ Uses[c].connectors \in Seq(Resource)
  <2>1. Seq(AgentFile) \subseteq Seq(Resource) /\ Seq(Skill) \subseteq Seq(Resource) /\ Seq(Connector) \subseteq Seq(Resource)
    BY SeqMonotonic DEF Resource
  <2> QED
    BY <2>1
<1>2. Parts(c) \in Seq(Resource)
  BY <1>1, ConcatProperties DEF Parts
<1>3. DOMAIN Parts(c) = 1 .. Len(Parts(c)) /\ \A i \in 1 .. Len(Parts(c)) : Parts(c)[i] \in Resource
  BY <1>2, LenProperties
<1> QED
  BY <1>2, <1>3 DEF PartsOf

\* A write for every part of a council, and the one of its own file after them.
Planned(plan, c, on) == plan \o SetAll(<<c>>, on)

PlanFits(plan, c, on, todo) ==
  /\ todo \in Seq(FileWrite) /\ Len(todo) = Len(Parts(c)) + 1
  /\ todo[Len(todo)] = WriteTo(c, Setting(on))
  /\ \A i \in 1 .. (Len(todo) - 1) : todo[i] = plan[i] /\ todo[i].file = Parts(c)[i]

LEMMA SingleSeq ==
  ASSUME NEW S, NEW w \in S, NEW one, one = <<w>>
  PROVE  one \in Seq(S) /\ Len(one) = 1 /\ one[1] = w
OBVIOUS

LEMMA PlannedFits ==
  ASSUME NEW c \in Council, NEW plan \in Seq(FileWrite), Len(plan) = Len(Parts(c)),
         \A i \in 1 .. Len(Parts(c)) : plan[i].file = Parts(c)[i], NEW on \in BOOLEAN
  PROVE  PlanFits(plan, c, on, Planned(plan, c, on))
<1> DEFINE own == SetAll(<<c>>, on)
           todo == Planned(plan, c, on)
<1>1. Len(Parts(c)) \in Nat
  BY PartsAreResources, LenProperties
<1>2. todo = plan \o own
  BY DEF Planned
<1>3. own = <<WriteTo(c, Setting(on))>> /\ WriteTo(c, Setting(on)) \in FileWrite
  BY DEF SetAll, WriteTo, Setting, FileWrite, What, File
<1>4. own \in Seq(FileWrite) /\ Len(own) = 1 /\ own[1] = WriteTo(c, Setting(on))
  BY <1>3, SingleSeq
<1> HIDE DEF own, todo
<1>5. todo \in Seq(FileWrite) /\ Len(todo) = Len(plan) + Len(own)
      /\ \A i \in 1 .. Len(plan) + Len(own) : todo[i] = IF i <= Len(plan) THEN plan[i] ELSE own[i - Len(plan)]
  <2>1. own \in Seq(FileWrite)
    BY <1>4
  <2>2. /\ plan \o own \in Seq(FileWrite) /\ Len(plan \o own) = Len(plan) + Len(own)
        /\ \A i \in 1 .. Len(plan) + Len(own) :
             (plan \o own)[i] = IF i <= Len(plan) THEN plan[i] ELSE own[i - Len(plan)]
    BY <2>1, ConcatProperties, Zenon
  <2> QED
    BY <1>2, <2>2, Zenon
<1>6. todo[Len(todo)] = own[1] /\ Len(todo) = Len(Parts(c)) + 1
  BY <1>1, <1>4, <1>5
<1>7. \A i \in 1 .. (Len(todo) - 1) : todo[i] = plan[i] /\ i \in 1 .. Len(Parts(c))
  BY <1>1, <1>4, <1>5
<1>8. PlanFits(plan, c, on, todo)
  BY <1>4, <1>5, <1>6, <1>7 DEF PlanFits
<1> QED
  BY <1>8 DEF todo

(* ------------------------------ the commands ----------------------------- *)

\* A command begins when none runs.
LEMMA BeginKeeps ==
  ASSUME ConfigInductive, NEW name \in CommandName \ {"none"}, NEW of \in SUBSET File, NEW strict \in BOOLEAN,
         NEW todo \in Seq(FileWrite), Begin(name, of, strict, todo), Same,
         name = "enable" => \E c \in Council : of = {c} /\ EnablingFits(c, todo),
         name = "disable" => \E c \in Council : of = {c} /\ DisablingFits(c, todo),
         name \in {"set", "convert", "retry"} => OthersFit(name, todo),
         name \in {"convert", "retry"} => of \subseteq Skill
  PROVE  ConfigInductive'
<1>1. /\ command = Idle /\ UNCHANGED <<file, byHand, cutShort>>
      /\ command' = [name |-> name, of |-> of, strict |-> strict, todo |-> todo]
  BY DEF Begin, Same
<1>2. ConfigTypes'
  BY <1>1 DEF ConfigInductive, ConfigTypes
<1>3. command'.name = name /\ command'.of = of /\ command'.todo = todo
  BY <1>1
<1>4. \A c, t : /\ EnablingFits(c, t) => EnablingFits(c, t)'
                /\ DisablingFits(c, t) => DisablingFits(c, t)'
  BY <1>1 DEF EnablingFits, DisablingFits, Claims
<1>5. CommandFits'
  <2>1. name = "enable" => \E c \in Council : of = {c} /\ EnablingFits(c, todo)'
    BY <1>4
  <2>2. name = "disable" => \E c \in Council : of = {c} /\ DisablingFits(c, todo)'
    BY <1>4
  <2> QED
    BY <1>1, <1>3, <2>1, <2>2 DEF CommandFits, EnablingFits, DisablingFits, Claims, OthersFit
<1>6. CouncilsFit'
  BY <1>1 DEF ConfigInductive, CouncilsFit, Staffed, Claims, Idle
<1> QED
  BY <1>2, <1>5, <1>6 DEF ConfigInductive

LEMMA WriteFits ==
  ASSUME NEW f \in Resource, NEW what \in What
  PROVE  WriteTo(f, what) \in FileWrite /\ WriteTo(f, what).file \in Resource /\ WriteTo(f, what).what = what
BY DEF WriteTo, FileWrite, File

LEMMA SingleFits ==
  ASSUME NEW w \in FileWrite, w.file \in Resource, w.what # "content"
  PROVE  <<w>> \in Seq(FileWrite) /\ OthersFit("set", <<w>>)
BY DEF OthersFit

LEMMA TwoFit ==
  ASSUME NEW v \in FileWrite, NEW w \in FileWrite, v.file \in Resource, w.file \in Resource,
         v.what # "content", w.what # "content"
  PROVE  <<v, w>> \in Seq(FileWrite) /\ OthersFit("set", <<v, w>>)
<1>1. Len(<<v, w>>) = 2 /\ \A i \in 1 .. 2 : i = 1 \/ i = 2
  OBVIOUS
<1> QED
  BY <1>1 DEF OthersFit

LEMMA ThreeFit ==
  ASSUME NEW u \in FileWrite, NEW v \in FileWrite, NEW w \in FileWrite,
         u.file \in Resource, v.file \in Resource, w.file \in Resource,
         u.what # "content", v.what # "content", w.what # "content"
  PROVE  <<u, v, w>> \in Seq(FileWrite) /\ OthersFit("set", <<u, v, w>>)
<1>1. Len(<<u, v, w>>) = 3 /\ \A i \in 1 .. 3 : i = 1 \/ i = 2 \/ i = 3
  OBVIOUS
<1> QED
  BY <1>1 DEF OthersFit

LEMMA OneFits ==
  ASSUME NEW f \in Resource, NEW on \in BOOLEAN
  PROVE  SetAll(<<f>>, on) \in Seq(FileWrite) /\ OthersFit("set", SetAll(<<f>>, on))
<1>1. Setting(on) \in What \ {"content"}
  BY DEF Setting, What
<1>2. WriteTo(f, Setting(on)) \in FileWrite /\ WriteTo(f, Setting(on)).what # "content" /\ WriteTo(f, Setting(on)).file \in Resource
  BY <1>1, WriteFits
<1>3. SetAll(<<f>>, on) = <<WriteTo(f, Setting(on))>>
  BY DEF SetAll
<1> QED
  BY <1>2, <1>3, SingleFits

LEMMA SettingKeeps ==
  ASSUME ConfigInductive, NEW strict \in BOOLEAN, NEW todo \in Seq(FileWrite), OthersFit("set", todo),
         Begin("set", {}, strict, todo), Same
  PROVE  ConfigInductive'
<1>1. "set" \in CommandName \ {"none"} /\ {} \in SUBSET File
  BY DEF CommandName
<1> QED
  BY <1>1, BeginKeeps

LEMMA EnableKeeps ==
  ASSUME ConfigInductive, NEW c \in Council, EnableCouncil(c)
  PROVE  ConfigInductive'
<1> DEFINE plan == SetAll(Parts(c), TRUE)
           todo == Planned(plan, c, TRUE)
<1>1. Parts(c) \in Seq(Resource) /\ PartsOf(c) = {Parts(c)[i] : i \in 1 .. Len(Parts(c))}
  BY PartsAreResources
<1>2. DOMAIN Parts(c) = 1 .. Len(Parts(c)) /\ Len(Parts(c)) \in Nat
      /\ \A i \in 1 .. Len(Parts(c)) : Parts(c)[i] \in Resource
  BY <1>1, LenProperties
<1>3. ASSUME NEW f \in Resource
      PROVE  WriteTo(f, "on") \in FileWrite /\ WriteTo(f, "on").file = f /\ WriteTo(f, "on").what = "on"
  BY WriteFits DEF WriteTo, What
<1>4. plan = [i \in 1 .. Len(Parts(c)) |-> WriteTo(Parts(c)[i], "on")]
  BY <1>2 DEF SetAll, Setting
<1> HIDE DEF plan
<1>5. /\ plan \in Seq(FileWrite) /\ Len(plan) = Len(Parts(c))
      /\ \A i \in 1 .. Len(Parts(c)) : plan[i].file = Parts(c)[i] /\ plan[i].what = "on"
  BY <1>2, <1>3, <1>4
<1>6. Begin("enable", {c}, FALSE, todo) /\ Same
  BY DEF EnableCouncil, Planned, plan
<1>7. PlanFits(plan, c, TRUE, todo)
  BY <1>5, PlannedFits
<1> HIDE DEF todo
<1>8. EnablingFits(c, todo)
  <2>1. Len(todo) - 1 = Len(Parts(c)) /\ \A i \in 1 .. Len(todo) : i = Len(todo) \/ i \in 1 .. (Len(todo) - 1)
    BY <1>2, <1>7 DEF PlanFits
  <2>2. todo # <<>> /\ todo[Len(todo)].file = c /\ todo[Len(todo)].what = "on"
    BY <1>2, <1>7 DEF PlanFits, WriteTo, Setting
  <2>3. \A i \in 1 .. Len(todo) : todo[i].what = "on"
    BY <1>5, <1>7, <2>1, <2>2 DEF PlanFits
  <2>4. \A i \in 1 .. (Len(todo) - 1) : todo[i].file \in Resource
    BY <1>2, <1>7, <2>1 DEF PlanFits
  <2>5. \A r \in PartsOf(c) : \E i \in 1 .. (Len(todo) - 1) : todo[i].file = r
    BY <1>1, <1>7, <2>1 DEF PlanFits
  <2> QED
    BY <2>2, <2>3, <2>4, <2>5 DEF EnablingFits
<1>9. "enable" \in CommandName \ {"none"} /\ {c} \in SUBSET File /\ todo \in Seq(FileWrite)
  BY <1>7 DEF CommandName, File, PlanFits
<1> QED
  BY <1>6, <1>8, <1>9, BeginKeeps

LEMMA DisableKeeps ==
  ASSUME ConfigInductive, NEW c \in Council, DisableCouncil(c)
  PROVE  ConfigInductive'
<1> DEFINE Change(r) == IF r \in protectedResources(c) THEN "keep" ELSE Setting(FALSE)
           plan == [i \in DOMAIN Parts(c) |-> WriteTo(Parts(c)[i], Change(Parts(c)[i]))]
           todo == Planned(plan, c, FALSE)
<1>1. Parts(c) \in Seq(Resource)
  BY PartsAreResources
<1>2. DOMAIN Parts(c) = 1 .. Len(Parts(c)) /\ Len(Parts(c)) \in Nat
      /\ \A i \in 1 .. Len(Parts(c)) : Parts(c)[i] \in Resource
  BY <1>1, LenProperties
<1>3. \A r : Change(r) \in {"off", "keep"} /\ (Change(r) = "off" => r \notin protectedResources(c))
  BY DEF Setting
<1>4. Begin("disable", {c}, FALSE, todo) /\ Same
  BY DEF DisableCouncil, Planned
<1> HIDE DEF Change
<1>5. ASSUME NEW f \in Resource
      PROVE  /\ WriteTo(f, Change(f)) \in FileWrite /\ WriteTo(f, Change(f)).file = f
             /\ WriteTo(f, Change(f)).what = Change(f)
  <2>1. Change(f) \in What
    BY <1>3 DEF What
  <2> QED
    BY <2>1, WriteFits DEF WriteTo
<1>6. /\ plan \in Seq(FileWrite) /\ Len(plan) = Len(Parts(c))
      /\ \A i \in 1 .. Len(Parts(c)) : plan[i].file = Parts(c)[i] /\ plan[i].what = Change(Parts(c)[i])
  BY <1>2, <1>5
<1> HIDE DEF plan
<1>7. PlanFits(plan, c, FALSE, todo)
  BY <1>6, PlannedFits
<1> HIDE DEF todo
<1>8. DisablingFits(c, todo)
  <2>1. Len(todo) - 1 = Len(Parts(c))
    BY <1>2, <1>7 DEF PlanFits
  <2>2. todo # <<>> /\ todo[Len(todo)].file = c /\ todo[Len(todo)].what = "off"
    BY <1>2, <1>7 DEF PlanFits, WriteTo, Setting
  <2>3. ASSUME NEW i \in 1 .. (Len(todo) - 1)
        PROVE  /\ todo[i].file \in Resource /\ todo[i].what \in {"off", "keep"}
               /\ todo[i].what = "off" => \A d \in Council \ {c} : Claims(d) => todo[i].file \notin PartsOf(d)
    <3>1. i \in 1 .. Len(Parts(c))
      BY <2>1
    <3>2. todo[i].file = Parts(c)[i] /\ todo[i].what = Change(Parts(c)[i])
      BY <1>6, <1>7, <3>1 DEF PlanFits
    <3>3. \A d \in Council \ {c} : Claims(d) => PartsOf(d) \subseteq protectedResources(c)
      BY DEF Claims, protectedResources, LoadDir
    <3> QED
      BY <1>2, <1>3, <3>1, <3>2, <3>3
  <2> QED
    BY <2>2, <2>3 DEF DisablingFits
<1>9. "disable" \in CommandName \ {"none"} /\ {c} \in SUBSET File /\ todo \in Seq(FileWrite)
  BY <1>7 DEF CommandName, File, PlanFits
<1> QED
  BY <1>4, <1>8, <1>9, BeginKeeps

(* ------------------------------- the writes ------------------------------ *)

LEMMA HeadFits ==
  ASSUME NEW S, NEW todo \in Seq(S), todo # <<>>
  PROVE  /\ Head(todo) = todo[1] /\ Head(todo) \in S /\ Tail(todo) \in Seq(S)
         /\ Len(todo) \in Nat /\ 1 <= Len(todo) /\ Len(Tail(todo)) = Len(todo) - 1
         /\ \A i \in 1 .. Len(Tail(todo)) : Tail(todo)[i] = todo[i + 1]
         /\ Tail(todo) = <<>> <=> Len(todo) = 1
<1>1. Len(todo) \in Nat /\ Len(todo) # 0
  BY EmptySeq, LenProperties
<1>2. /\ Head(todo) \in S /\ Tail(todo) \in Seq(S) /\ Len(Tail(todo)) = Len(todo) - 1
      /\ \A i \in 1 .. Len(Tail(todo)) : Tail(todo)[i] = todo[i + 1]
  BY HeadTailProperties
<1>3. Head(todo) = todo[1]
  BY <1>1
<1>4. Tail(todo) = <<>> <=> Len(Tail(todo)) = 0
  BY <1>2, EmptySeq
<1> QED
  BY <1>1, <1>2, <1>3, <1>4

\* What is left of a disabling, of another command.
LEMMA DisablingTail ==
  ASSUME NEW c \in Council, NEW todo \in Seq(FileWrite), DisablingFits(c, todo), Tail(todo) # <<>>
  PROVE  DisablingFits(c, Tail(todo))
<1> DEFINE rest == Tail(todo)
<1>1. /\ Len(todo) \in Nat /\ Len(rest) = Len(todo) - 1 /\ Len(todo) # 1 /\ 1 <= Len(todo)
      /\ \A i \in 1 .. Len(rest) : rest[i] = todo[i + 1]
  BY HeadFits DEF DisablingFits
<1>2. rest[Len(rest)] = todo[Len(todo)]
  BY <1>1
<1>3. \A i \in 1 .. (Len(rest) - 1) : rest[i] = todo[i + 1] /\ i + 1 \in 1 .. (Len(todo) - 1)
  BY <1>1
<1> HIDE DEF rest
<1>4. rest # <<>>
  BY DEF rest
<1>5. DisablingFits(c, rest)
  BY <1>2, <1>3, <1>4 DEF DisablingFits
<1> QED
  BY <1>5 DEF rest

LEMMA OthersTail ==
  ASSUME NEW name, NEW todo \in Seq(FileWrite), todo # <<>>, OthersFit(name, todo)
  PROVE  OthersFit(name, Tail(todo))
<1>1. \A i \in 1 .. Len(Tail(todo)) : Tail(todo)[i] = todo[i + 1] /\ i + 1 \in 1 .. Len(todo)
  BY HeadFits
<1> QED
  BY <1>1 DEF OthersFit

\* A council stays staffed when its own file stays, and none of its parts is
\* switched off, but by hand.
LEMMA StaysStaffed ==
  ASSUME ConfigInductive, NEW d \in Council, Staffed(d), file'[d] = file[d],
         \A r \in PartsOf(d) : \/ r \in byHand' \/ file'[r].form # "good" \/ file'[r].on
                               \/ file'[r] = file[r] /\ (r \in byHand => r \in byHand')
  PROVE  Staffed(d)'
<1> SUFFICES ASSUME Claims(d), NEW r \in PartsOf(d), r \notin byHand', file'[r].form = "good", ~file'[r].on
             PROVE  FALSE
  BY DEF Staffed, Claims, PartsOf, Parts
<1>1. file'[r] = file[r] /\ r \notin byHand
  OBVIOUS
<1> QED
  BY <1>1 DEF Staffed, Claims

\* What a write that is made changes.
LEMMA WriteChanges ==
  ASSUME ConfigInductive, WriteFile
  PROVE  /\ command.todo # <<>> /\ Head(command.todo) \in FileWrite /\ Outcome(Head(command.todo)) = "done"
         /\ \A f \in File : file'[f] = IF f = Head(command.todo).file THEN Written(Head(command.todo)) ELSE file[f]
         /\ Written(Head(command.todo)) \in FileState
         /\ ConfigTypes'
<1> DEFINE w == Head(command.todo)
<1>1. command.todo # <<>> /\ command.todo \in Seq(FileWrite) /\ w \in FileWrite /\ Tail(command.todo) \in Seq(FileWrite)
  BY HeadFits DEF ConfigInductive, ConfigTypes, WriteFile
<1>2. Outcome(w) = "done" /\ file' = [file EXCEPT ![w.file] = Written(w)]
  BY DEF WriteFile
<1>3. w.file \in File /\ w.what \in What /\ w.form \in {"good", "fenced"}
  BY <1>1 DEF FileWrite
<1>4. Written(w) \in FileState
  BY <1>3 DEF Written, FileState, ConfigInductive, ConfigTypes, What
<1>5. file' \in [File -> FileState] /\ \A f \in File : file'[f] = IF f = w.file THEN Written(w) ELSE file[f]
  BY <1>2, <1>3, <1>4 DEF ConfigInductive, ConfigTypes
<1>6. command' \in [name : CommandName, of : SUBSET File, strict : BOOLEAN, todo : Seq(FileWrite)]
  <2>1. command' = Idle \/ command' = [command EXCEPT !.todo = Tail(command.todo)]
    BY DEF WriteFile
  <2> QED
    BY <1>1, <2>1, IdleFits DEF ConfigInductive, ConfigTypes
<1>7. cutShort' \subseteq Council
  BY DEF WriteFile, ConfigInductive, ConfigTypes
<1>8. byHand' \subseteq Resource
  <2>1. command.name = "set" => w.file \in Resource
    <3>1. 1 \in 1 .. Len(command.todo) /\ w = command.todo[1]
      BY <1>1, HeadFits
    <3> QED
      BY <3>1 DEF ConfigInductive, CommandFits, OthersFit
  <2> QED
    BY <2>1 DEF WriteFile, ConfigInductive, ConfigTypes
<1> QED
  BY <1>1, <1>2, <1>4, <1>5, <1>6, <1>7, <1>8 DEF ConfigTypes

LEMMA CommandMoves ==
  ASSUME ConfigInductive, NEW rest, rest = Tail(command.todo),
         command' = IF rest = <<>> THEN Idle ELSE [command EXCEPT !.todo = rest]
  PROVE  /\ rest = <<>> => command'.name = "none" /\ command'.todo = <<>>
         /\ rest # <<>> => command'.name = command.name /\ command'.of = command.of /\ command'.todo = rest
BY DEF ConfigInductive, ConfigTypes, Idle

\* A part is written: a council that has it stays staffed, unless it is one of
\* another council's that is switched off.
LEMMA PartWritten ==
  ASSUME ConfigInductive, WriteFile, Head(command.todo).file \in Resource,
         NEW d \in Council, Staffed(d),
         \/ Head(command.todo).what # "off" \/ command.name = "set"
         \/ Claims(d) => Head(command.todo).file \notin PartsOf(d)
  PROVE  Staffed(d)'
<1> DEFINE w == Head(command.todo)
<1>1. /\ w \in FileWrite /\ \A f \in File : file'[f] = IF f = w.file THEN Written(w) ELSE file[f]
      /\ w.file \in Resource
  BY WriteChanges
<1>2. file'[d] = file[d] /\ PartsOf(d) \subseteq File
  BY <1>1, PartsAreResources DEF File
<1>3. byHand' = IF w.what = "off" /\ command.name = "set" THEN byHand \union {w.file}
                ELSE IF w.what \in {"on", "content"} THEN byHand \ {w.file} ELSE byHand
  BY DEF WriteFile
<1>4. file[w.file] \in FileState /\ w.what \in What
  BY <1>1 DEF ConfigInductive, ConfigTypes, File, FileWrite
<1>5. w.what = "off" => command.name = "set" \/ (Claims(d) => w.file \notin PartsOf(d))
  OBVIOUS
<1> HIDE DEF w
<1>6. CASE ~Claims(d)
  BY <1>2, <1>6 DEF Staffed, Claims
<1>7. CASE Claims(d)
  <2> SUFFICES ASSUME NEW r \in PartsOf(d)
               PROVE  \/ r \in byHand' \/ file'[r].form # "good" \/ file'[r].on
                      \/ file'[r] = file[r] /\ (r \in byHand => r \in byHand')
    BY <1>2, StaysStaffed
  <2>1. CASE r # w.file
    BY <1>1, <1>2, <1>3, <2>1
  <2>2. CASE r = w.file
    <3>1. file'[r] = Written(w)
      BY <1>1, <1>2, <2>2
    <3>2. CASE w.what = "on"
      BY <1>4, <2>2, <3>1, <3>2 DEF Written, FileState
    <3>3. CASE w.what = "content"
      BY <3>1, <3>3 DEF Written
    <3>4. CASE w.what = "off"
      BY <1>3, <1>5, <1>7, <2>2, <3>4
    <3>5. CASE w.what \notin {"on", "content", "off"}
      BY <1>3, <2>2, <3>1, <3>5 DEF Written
    <3> QED
      BY <3>2, <3>3, <3>4, <3>5
  <2> QED
    BY <2>1, <2>2
<1> QED
  BY <1>6, <1>7

LEMMA OthersWrite ==
  ASSUME ConfigInductive, WriteFile, command.name \in {"set", "convert", "retry"}
  PROVE  ConfigInductive'
<1> DEFINE w == Head(command.todo)
           rest == Tail(command.todo)
<1>1. command.todo \in Seq(FileWrite) /\ command.todo # <<>> /\ OthersFit(command.name, command.todo)
  BY DEF ConfigInductive, ConfigTypes, CommandFits, WriteFile
<1>2. w.file \in Resource /\ (w.what = "off" => command.name = "set")
  <2>1. w = command.todo[1] /\ 1 \in 1 .. Len(command.todo)
    BY <1>1, HeadFits
  <2> QED
    BY <1>1, <2>1 DEF OthersFit
<1>3. CommandFits'
  <2>1. /\ rest = <<>> => command'.name = "none" /\ command'.todo = <<>>
        /\ rest # <<>> => command'.name = command.name /\ command'.of = command.of /\ command'.todo = rest
    BY CommandMoves DEF WriteFile
  <2>2. OthersFit(command.name, rest)
    BY <1>1, OthersTail
  <2> HIDE DEF rest
  <2>3. rest # <<>> => command'.name \in {"set", "convert", "retry"} /\ OthersFit(command'.name, command'.todo)
    BY <2>1, <2>2
  <2> QED
    BY <2>1, <2>3 DEF CommandFits, ConfigInductive, OthersFit
<1>4. cutShort' = cutShort
  BY <1>2 DEF WriteFile
<1>5. \A d \in Council \ cutShort' : Staffed(d)'
  <2> SUFFICES ASSUME NEW d \in Council \ cutShort PROVE Staffed(d)'
    BY <1>4
  <2>1. Staffed(d)
    BY DEF ConfigInductive, CouncilsFit
  <2> QED
    BY <1>2, <2>1, PartWritten
<1> QED
  BY <1>3, <1>5, WriteChanges DEF ConfigInductive, CouncilsFit

LEMMA EnablingWrites ==
  ASSUME ConfigInductive, WriteFile, command.name = "enable"
  PROVE  ConfigInductive'
<1> DEFINE todo == command.todo
           w == Head(todo)
           rest == Tail(todo)
<1>1. PICK c \in Council : command.of = {c} /\ EnablingFits(c, todo)
  BY DEF ConfigInductive, CommandFits
<1>2. todo \in Seq(FileWrite) /\ todo # <<>>
  BY DEF ConfigInductive, ConfigTypes, WriteFile
<1> HIDE DEF todo
<1>3. /\ w = todo[1] /\ Len(todo) \in Nat /\ 1 <= Len(todo) /\ Len(rest) = Len(todo) - 1
      /\ \A i \in 1 .. Len(rest) : rest[i] = todo[i + 1]
      /\ rest = <<>> <=> Len(todo) = 1
  BY <1>2, HeadFits
<1>4. w.what = "on"
  BY <1>1, <1>3 DEF EnablingFits
<1>5. byHand' = byHand \ {w.file} /\ cutShort' = IF w.file \in Council THEN cutShort \ {w.file} ELSE cutShort
  BY <1>4 DEF WriteFile, todo
<1>6. /\ \A f \in File : file'[f] = IF f = w.file THEN [file[w.file] EXCEPT !.on = TRUE] ELSE file[f]
      /\ ConfigTypes' /\ w.file \in File
  BY <1>4, WriteChanges DEF Written, FileWrite, todo
<1>7. /\ rest = <<>> => command'.name = "none" /\ command'.todo = <<>>
      /\ rest # <<>> => command'.name = command.name /\ command'.of = command.of /\ command'.todo = rest
  BY CommandMoves DEF WriteFile, todo
<1>8. \A d \in Council \ cutShort : Staffed(d)
  BY DEF ConfigInductive, CouncilsFit
<1>9. byHand \subseteq Resource /\ \A d \in Council : PartsOf(d) \subseteq Resource /\ d \notin Resource
  BY PartsAreResources DEF ConfigInductive, ConfigTypes
<1> HIDE DEF w, rest
<1>10. CASE rest = <<>>
  <2>1. w.file = c /\ \A r \in PartsOf(c) \ byHand : file[r].form = "good" => file[r].on
    <3>1. Len(todo) = 1 /\ 1 .. (Len(todo) - 1) = {}
      <4>1. Len(todo) = 1
        BY <1>3, <1>10
      <4>2. 1 .. 0 = {} /\ 1 - 1 = 0
        OBVIOUS
      <4> QED
        BY <4>1, <4>2
    <3>2. w.file = c
      BY <1>1, <1>3, <3>1 DEF EnablingFits
    <3>3. \A r \in PartsOf(c) \ byHand : ~(file[r].form = "good" /\ ~file[r].on)
      BY <1>1, <3>1 DEF EnablingFits
    <3> QED
      BY <3>2, <3>3
  <2>2. \A d \in Council : PartsOf(d) \subseteq File /\ \A r \in PartsOf(d) : file'[r] = file[r]
    BY <1>6, <1>9, <2>1 DEF File
  <2>3. byHand' = byHand
    BY <1>5, <1>9, <2>1
  <2>4. Staffed(c)'
    BY <2>1, <2>2, <2>3 DEF Staffed, PartsOf, Parts
  <2>5. ASSUME NEW d \in Council \ cutShort, d # c PROVE Staffed(d)'
    <3>1. file'[d] = file[d]
      BY <1>6, <2>1, <2>5 DEF File
    <3> QED
      BY <1>8, <2>2, <2>3, <3>1, StaysStaffed
  <2>6. CouncilsFit'
    BY <1>5, <2>1, <2>4, <2>5 DEF CouncilsFit
  <2>7. CommandFits'
    BY <1>7, <1>10 DEF CommandFits
  <2> QED
    BY <1>6, <2>6, <2>7 DEF ConfigInductive
<1>11. CASE rest # <<>>
  <2>1. w.file \in Resource
    BY <1>1, <1>3, <1>11 DEF EnablingFits
  <2>2. cutShort' = cutShort
    BY <1>5, <2>1
  <2>3. \A d \in Council \ cutShort : Staffed(d)'
    BY <1>4, <1>8, <2>1, PartWritten DEF w, todo
  <2>4. CouncilsFit'
    BY <2>2, <2>3 DEF CouncilsFit
  <2> PICK others : others = rest
    OBVIOUS
  <2>5. EnablingFits(c, others)'
    <3>1. Len(rest) \in Nat /\ 1 <= Len(rest) /\ rest[Len(rest)] = todo[Len(todo)]
      BY <1>3, <1>11
    <3>2. \A i \in 1 .. Len(rest) : rest[i].what = "on"
      BY <1>1, <1>3 DEF EnablingFits
    <3>3. \A i \in 1 .. (Len(rest) - 1) : rest[i].file \in Resource
      BY <1>1, <1>3 DEF EnablingFits
    <3>4. ASSUME NEW r \in PartsOf(c), r \notin byHand', file'[r].form = "good", ~file'[r].on
          PROVE  \E i \in 1 .. (Len(rest) - 1) : rest[i].file = r
      <4>1. r # w.file
        BY <1>6, <2>1, <3>4 DEF ConfigInductive, ConfigTypes, FileState
      <4>2. r \notin byHand /\ file'[r] = file[r]
        BY <1>5, <1>6, <1>9, <3>4, <4>1 DEF File
      <4>3. PICK i \in 1 .. (Len(todo) - 1) : todo[i].file = r
        BY <1>1, <3>4, <4>2 DEF EnablingFits
      <4>4. i # 1
        BY <1>3, <4>1, <4>3
      <4>5. i - 1 \in 1 .. (Len(rest) - 1) /\ rest[i - 1] = todo[i]
        BY <1>3, <4>3, <4>4
      <4> QED
        BY <4>3, <4>5
    <3> QED
      BY <1>1, <1>11, <3>1, <3>2, <3>3, <3>4 DEF EnablingFits
  <2>6. CommandFits'
    <3>1. \E d \in Council : command'.of = {d} /\ EnablingFits(d, others)'
      BY <1>1, <1>7, <1>11, <2>5
    <3>2. command'.name = "enable" /\ command'.todo = others
      BY <1>7, <1>11
    <3> QED
      BY <3>1, <3>2 DEF CommandFits, EnablingFits, Claims
  <2> QED
    BY <1>6, <2>4, <2>6 DEF ConfigInductive
<1> QED
  BY <1>10, <1>11

LEMMA DisablingWrites ==
  ASSUME ConfigInductive, WriteFile, command.name = "disable"
  PROVE  ConfigInductive'
<1> DEFINE todo == command.todo
           w == Head(todo)
           rest == Tail(todo)
<1>1. PICK c \in Council : command.of = {c} /\ DisablingFits(c, todo)
  BY DEF ConfigInductive, CommandFits
<1>2. todo \in Seq(FileWrite) /\ todo # <<>>
  BY DEF ConfigInductive, ConfigTypes, WriteFile
<1> HIDE DEF todo
<1>3. /\ w = todo[1] /\ Len(todo) \in Nat /\ 1 <= Len(todo) /\ Len(rest) = Len(todo) - 1
      /\ rest = <<>> <=> Len(todo) = 1
  BY <1>2, HeadFits
<1>4. w.what \in {"off", "keep"}
  <2>1. CASE Len(todo) = 1
    BY <1>1, <1>3, <2>1 DEF DisablingFits
  <2>2. CASE Len(todo) # 1
    <3>1. 1 \in 1 .. (Len(todo) - 1)
      BY <1>3, <2>2
    <3> QED
      BY <1>1, <1>3, <3>1 DEF DisablingFits
  <2> QED
    BY <2>1, <2>2
<1>5. byHand' = byHand /\ cutShort' = IF w.file \in Council THEN cutShort \ {w.file} ELSE cutShort
  BY <1>4 DEF WriteFile, todo
<1>6. /\ \A f \in File : file'[f] = IF f = w.file THEN Written(w) ELSE file[f]
      /\ ConfigTypes' /\ w.file \in File
  BY WriteChanges DEF FileWrite, todo
<1>7. /\ rest = <<>> => command'.name = "none" /\ command'.todo = <<>>
      /\ rest # <<>> => command'.name = command.name /\ command'.of = command.of /\ command'.todo = rest
  BY CommandMoves DEF WriteFile, todo
<1>8. \A d \in Council \ cutShort : Staffed(d) \/ d = c
  BY <1>1 DEF ConfigInductive, CouncilsFit
<1>9. \A d \in Council : PartsOf(d) \subseteq Resource /\ d \notin Resource
  BY PartsAreResources
<1> HIDE DEF w, rest
<1>10. CASE rest = <<>>
  <2>1. w.file = c /\ w.what = "off"
    <3>1. w = todo[Len(todo)]
      BY <1>3, <1>10
    <3> QED
      BY <1>1, <3>1 DEF DisablingFits
  <2>2. \A d \in Council : PartsOf(d) \subseteq File /\ \A r \in PartsOf(d) : file'[r] = file[r]
    BY <1>6, <1>9, <2>1 DEF File
  <2>3. ~Claims(c)'
    BY <1>6, <2>1 DEF Claims, Written, ConfigInductive, ConfigTypes, FileState
  <2>4. ASSUME NEW d \in Council \ cutShort, d # c PROVE Staffed(d)'
    <3>1. file'[d] = file[d]
      BY <1>6, <2>1, <2>4 DEF File
    <3> QED
      BY <1>5, <1>8, <2>2, <2>4, <3>1, StaysStaffed
  <2>5. CouncilsFit'
    BY <1>5, <2>1, <2>3, <2>4 DEF CouncilsFit, Staffed
  <2>6. CommandFits'
    BY <1>7, <1>10 DEF CommandFits
  <2> QED
    BY <1>6, <2>5, <2>6 DEF ConfigInductive
<1>11. CASE rest # <<>>
  <2>1. /\ w.file \in Resource
        /\ w.what = "off" => \A d \in Council \ {c} : Claims(d) => w.file \notin PartsOf(d)
    <3>1. 1 \in 1 .. (Len(todo) - 1)
      BY <1>3, <1>11
    <3> QED
      BY <1>1, <1>3, <3>1 DEF DisablingFits
  <2>2. cutShort' = cutShort
    BY <1>5, <2>1, <1>9
  <2>3. \A d \in Council \ cutShort : d # c => Staffed(d)'
    BY <1>8, <2>1, PartWritten DEF w, todo
  <2>4. command'.name = "disable" /\ command'.of = {c} /\ command'.todo = rest
    BY <1>1, <1>7, <1>11
  <2>5. CouncilsFit'
    BY <2>2, <2>3, <2>4 DEF CouncilsFit
  <2>6. \A d \in Council : Claims(d)' <=> Claims(d)
    BY <1>6, <1>9, <2>1 DEF Claims, File
  <2> PICK others : others = rest
    OBVIOUS
  <2>7. DisablingFits(c, others)
    BY <1>1, <1>2, <1>11, DisablingTail DEF rest
  <2>8. DisablingFits(c, others)'
    <3>1. \A i \in 1 .. (Len(others) - 1) : others[i].what = "off" =>
             \A d \in Council \ {c} : Claims(d)' => others[i].file \notin PartsOf(d)
      BY <2>6, <2>7 DEF DisablingFits
    <3> QED
      BY <2>7, <3>1 DEF DisablingFits
  <2>9. CommandFits'
    <3>1. \E d \in Council : command'.of = {d} /\ DisablingFits(d, others)'
      BY <2>4, <2>8
    <3>2. command'.todo = others
      BY <2>4
    <3> QED
      BY <2>4, <3>1, <3>2 DEF CommandFits, DisablingFits, Claims
  <2> QED
    BY <1>6, <2>5, <2>9 DEF ConfigInductive
<1> QED
  BY <1>10, <1>11

LEMMA WriteKeeps ==
  ASSUME ConfigInductive, WriteFile
  PROVE  ConfigInductive'
<1>1. command.name \in CommandName /\ command.name # "none"
  BY DEF ConfigInductive, ConfigTypes, CommandFits, WriteFile
<1> QED
  BY <1>1, OthersWrite, EnablingWrites, DisablingWrites DEF CommandName

(* ------------------------ failures and other steps ----------------------- *)

\* The command ends, or goes on, with the files as they are.
LEMMA FailureKeeps ==
  ASSUME ConfigInductive, FileWriteFails
  PROVE  ConfigInductive'
<1> DEFINE todo == command.todo
           w == Head(todo)
           rest == Tail(todo)
           ends == Outcome(w) = "panic" \/ command.strict \/ rest = <<>>
<1>1. /\ todo # <<>> /\ todo \in Seq(FileWrite) /\ UNCHANGED <<file, byHand>> /\ Outcome(w) # "done"
      /\ command' = IF ends THEN Idle ELSE [command EXCEPT !.todo = rest]
      /\ cutShort' = IF ends THEN Abandoned ELSE cutShort
  BY DEF FileWriteFails, ConfigInductive, ConfigTypes
<1> HIDE DEF todo
<1>2. /\ w = todo[1] /\ w \in FileWrite /\ rest \in Seq(FileWrite)
      /\ Len(todo) \in Nat /\ 1 <= Len(todo) /\ Len(rest) = Len(todo) - 1
      /\ \A i \in 1 .. Len(rest) : rest[i] = todo[i + 1]
      /\ rest = <<>> <=> Len(todo) = 1
  BY <1>1, HeadFits
<1> HIDE DEF w, rest
<1>3. \A d \in Council : Staffed(d)' <=> Staffed(d)
  BY <1>1 DEF Staffed, Claims, PartsOf, Parts
<1>4. ConfigTypes'
  <2>1. command' \in [name : CommandName, of : SUBSET File, strict : BOOLEAN, todo : Seq(FileWrite)]
    BY <1>1, <1>2, IdleFits DEF ConfigInductive, ConfigTypes
  <2>2. cutShort' \subseteq Council
    BY <1>1 DEF Abandoned, ConfigInductive, ConfigTypes, CommandFits
  <2> QED
    BY <1>1, <2>1, <2>2 DEF ConfigInductive, ConfigTypes
<1>5. CASE ends
  <2>1. command' = Idle /\ cutShort' = Abandoned
    BY <1>1, <1>5
  <2>2. CouncilsFit'
    BY <1>3, <2>1 DEF CouncilsFit, ConfigInductive, Abandoned
  <2>3. CommandFits'
    BY <2>1 DEF CommandFits, Idle
  <2> QED
    BY <1>4, <2>2, <2>3 DEF ConfigInductive
<1>6. CASE ~ends
  <2>1. /\ command' = [command EXCEPT !.todo = rest] /\ cutShort' = cutShort /\ rest # <<>>
        /\ command'.name = command.name /\ command'.of = command.of /\ command'.todo = rest
    BY <1>1, <1>6 DEF ConfigInductive, ConfigTypes
  <2>2. CouncilsFit'
    BY <1>3, <2>1 DEF CouncilsFit, ConfigInductive
  <2> PICK others : others = rest
    OBVIOUS
  <2>3. command.name = "disable" => \E c \in Council : command.of = {c} /\ DisablingFits(c, others)'
    <3> SUFFICES ASSUME NEW c \in Council, command.of = {c}, DisablingFits(c, todo) PROVE DisablingFits(c, others)'
      BY DEF ConfigInductive, CommandFits, todo
    <3>1. DisablingFits(c, others)
      BY <1>1, <2>1, DisablingTail DEF rest
    <3> QED
      BY <1>1, <3>1 DEF DisablingFits, Claims, PartsOf, Parts
  <2>4. command.name = "enable" => \E c \in Council : command.of = {c} /\ EnablingFits(c, others)'
    <3> SUFFICES ASSUME NEW c \in Council, command.of = {c}, EnablingFits(c, todo) PROVE EnablingFits(c, others)'
      BY DEF ConfigInductive, CommandFits, todo
    <3>1. Len(others) \in Nat /\ 1 <= Len(others) /\ others[Len(others)] = todo[Len(todo)] /\ others # <<>>
      BY <1>2, <2>1
    <3>2. w.what = "on" /\ w.file \in File
      BY <1>2 DEF EnablingFits, FileWrite
    <3>3. file[w.file].form = "good" => file[w.file].on
      BY <1>1, <3>2 DEF Outcome, SkillSetEnabled, YAMLWrite, ConfigInductive, ConfigTypes, FileState
    <3>4. \A i \in 1 .. Len(others) : others[i].what = "on"
      BY <1>2 DEF EnablingFits
    <3>5. \A i \in 1 .. (Len(others) - 1) : others[i].file \in Resource
      BY <1>2 DEF EnablingFits
    <3>6. ASSUME NEW r \in PartsOf(c) \ byHand, file[r].form = "good", ~file[r].on
          PROVE  \E i \in 1 .. (Len(others) - 1) : others[i].file = r
      <4>1. PICK i \in 1 .. (Len(todo) - 1) : todo[i].file = r
        BY <3>6 DEF EnablingFits
      <4>2. i # 1
        BY <1>2, <3>3, <3>6, <4>1
      <4>3. i - 1 \in 1 .. (Len(others) - 1) /\ others[i - 1] = todo[i]
        BY <1>2, <4>1, <4>2
      <4> QED
        BY <4>1, <4>3
    <3> QED
      BY <1>1, <3>1, <3>4, <3>5, <3>6 DEF EnablingFits, PartsOf, Parts
  <2>5. command.name \in {"set", "convert", "retry"} => OthersFit(command.name, others)
    BY <1>1, OthersTail DEF ConfigInductive, CommandFits, todo, rest
  <2>6. CommandFits'
    <3>1. command'.name = "disable" => \E c \in Council : command'.of = {c} /\ DisablingFits(c, others)'
      BY <2>1, <2>3
    <3>2. command'.name = "enable" => \E c \in Council : command'.of = {c} /\ EnablingFits(c, others)'
      BY <2>1, <2>4
    <3>3. command'.todo = others
      BY <2>1
    <3>4. command'.name # "none"
      BY <1>1, <2>1 DEF ConfigInductive, CommandFits, todo
    <3>5. command'.name \in {"set", "convert", "retry"} => OthersFit(command'.name, command'.todo)
      BY <2>1, <2>5
    <3>6. command'.name \in {"convert", "retry"} => command'.of \subseteq Skill
      BY <2>1 DEF ConfigInductive, CommandFits
    <3>7. command'.name = "disable" => \E c \in Council : command'.of = {c} /\ DisablingFits(c, command.todo)'
      BY <3>1, <3>3 DEF DisablingFits
    <3>8. command'.name = "enable" => \E c \in Council : command'.of = {c} /\ EnablingFits(c, command.todo)'
      BY <3>2, <3>3 DEF EnablingFits
    <3> QED
      BY <3>4, <3>5, <3>6, <3>7, <3>8 DEF CommandFits, OthersFit
  <2> QED
    BY <1>4, <2>2, <2>6 DEF ConfigInductive
<1> QED
  BY <1>5, <1>6

\* No command runs afterwards, and no council has lost a part.
LEMMA ConfigRests ==
  ASSUME ConfigTypes', command' = Idle, \A d \in Council \ cutShort' : Staffed(d)'
  PROVE  ConfigInductive'
BY DEF ConfigInductive, CommandFits, CouncilsFit, Idle

\* The interrupted write leaves an empty file, or the file as it was.
LEMMA InterruptKeeps ==
  ASSUME ConfigInductive, Interrupt
  PROVE  ConfigInductive'
<1> DEFINE empty == [form |-> "empty", on |-> FALSE]
<1>1. /\ command' = Idle /\ cutShort' = Abandoned /\ UNCHANGED byHand
      /\ file' = file \/ \E f : file' = [file EXCEPT ![f] = empty]
  BY DEF Interrupt
<1>2. file' \in [File -> FileState] /\ \A f \in File : file'[f] = file[f] \/ file'[f] = empty
  <2>1. file \in [File -> FileState] /\ empty \in FileState
    BY DEF ConfigInductive, ConfigTypes, FileState
  <2> HIDE DEF empty
  <2>2. CASE file' = file
    BY <2>1, <2>2
  <2>3. ASSUME NEW f, file' = [file EXCEPT ![f] = empty]
        PROVE  file' \in [File -> FileState] /\ \A g \in File : file'[g] = file[g] \/ file'[g] = empty
    BY <2>1, <2>3
  <2> QED
    BY <1>1, <2>2, <2>3
<1>3. cutShort' \subseteq Council /\ cutShort \subseteq cutShort'
      /\ (command.name = "disable" => command.of \subseteq cutShort')
  BY <1>1 DEF Abandoned, ConfigInductive, ConfigTypes, CommandFits
<1>4. ConfigTypes'
  BY <1>1, <1>2, <1>3, IdleFits DEF ConfigInductive, ConfigTypes
<1>5. ASSUME NEW d \in Council \ cutShort' PROVE Staffed(d)'
  <2>1. Staffed(d)
    BY <1>3 DEF ConfigInductive, CouncilsFit
  <2>2. PartsOf(d) \subseteq File /\ d \in File
    BY PartsAreResources DEF File
  <2>3. CASE file'[d] = empty
    BY <2>3 DEF Staffed, Claims
  <2>4. CASE file'[d] # empty
    <3>1. file'[d] = file[d]
      BY <1>2, <2>2, <2>4
    <3>2. \A r \in PartsOf(d) : file'[r].form # "good" \/ file'[r] = file[r]
      BY <1>2, <2>2
    <3> QED
      BY <1>1, <2>1, <3>1, <3>2, StaysStaffed
  <2> QED
    BY <2>3, <2>4
<1> QED
  BY <1>1, <1>4, <1>5, ConfigRests

LEMMA UserKeeps ==
  ASSUME ConfigInductive, NEW f \in Resource, UserEdits(f)
  PROVE  ConfigInductive'
<1>1. /\ command = Idle /\ UNCHANGED <<command, cutShort>> /\ byHand' = byHand \union {f}
      /\ \E state \in FileState : file' = [file EXCEPT ![f] = state]
  BY DEF UserEdits, FileState
<1>2. ConfigTypes' /\ \A g \in File \ {f} : file'[g] = file[g]
  BY <1>1 DEF ConfigInductive, ConfigTypes, File
<1>3. ASSUME NEW d \in Council \ cutShort' PROVE Staffed(d)'
  <2>1. Staffed(d)
    BY <1>1 DEF ConfigInductive, CouncilsFit, Idle
  <2>2. d # f /\ PartsOf(d) \subseteq File /\ d \in File
    BY PartsAreResources DEF File
  <2>3. file'[d] = file[d] /\ \A r \in PartsOf(d) : r \in byHand' \/ (file'[r] = file[r] /\ (r \in byHand => r \in byHand'))
    BY <1>1, <1>2, <2>2
  <2> QED
    BY <2>1, <2>3, StaysStaffed
<1> QED
  BY <1>1, <1>2, <1>3, ConfigRests

LEMMA ConvertKeeps ==
  ASSUME ConfigInductive, ConvertSKILL
  PROVE  ConfigInductive'
<1>1. UNCHANGED <<file, byHand, cutShort>> /\ command.name \in {"convert", "retry"} /\ command.todo = <<>>
      /\ command.of \subseteq Skill
  BY DEF ConvertSKILL, Same, ConfigInductive, CommandFits
<1>2. \A d \in Council \ cutShort' : Staffed(d)'
  BY <1>1 DEF ConfigInductive, CouncilsFit, Staffed, Claims, PartsOf, Parts
<1>3. CASE command' = Idle
  BY <1>1, <1>2, <1>3, ConfigRests, IdleFits DEF ConfigInductive, ConfigTypes
<1>4. CASE command' = [command EXCEPT !.name = "retry"]
  <2>1. /\ command' \in [name : CommandName, of : SUBSET File, strict : BOOLEAN, todo : Seq(FileWrite)]
        /\ command'.name = "retry" /\ command'.of = command.of /\ command'.todo = <<>>
    BY <1>1, <1>4 DEF ConfigInductive, ConfigTypes, CommandName
  <2> QED
    BY <1>1, <1>2, <2>1 DEF ConfigInductive, ConfigTypes, CommandFits, CouncilsFit, OthersFit
<1>5. ASSUME NEW s \in command.of, NEW form \in {"good", "fenced"},
             command' = [command EXCEPT !.name = "convert", !.todo = Saved(s, form)]
      PROVE  ConfigInductive'
  <2> DEFINE w == [file |-> s, what |-> "content", form |-> form]
  <2>1. Saved(s, form) = <<w>>
    BY DEF Saved, WriteTo
  <2>2. w \in FileWrite /\ w.file \in Resource /\ w.file \in Skill /\ w.what = "content"
    BY <1>1 DEF FileWrite, What, File, Resource
  <2> HIDE DEF w
  <2> DEFINE one == Saved(s, form)
  <2>3. one \in Seq(FileWrite) /\ Len(one) = 1 /\ one[1] = w
    BY <2>1, <2>2, SingleSeq
  <2>4. OthersFit("convert", one)
    BY <2>2, <2>3 DEF OthersFit
  <2>5. /\ command' \in [name : CommandName, of : SUBSET File, strict : BOOLEAN, todo : Seq(FileWrite)]
        /\ command'.name = "convert" /\ command'.of = command.of /\ command'.todo = one
    <3> HIDE DEF one
    <3> QED
      BY <1>5, <2>3 DEF ConfigInductive, ConfigTypes, CommandName, one
  <2> QED
    BY <1>1, <1>2, <2>4, <2>5 DEF ConfigInductive, ConfigTypes, CommandFits, CouncilsFit, OthersFit
<1> QED
  BY <1>3, <1>4, <1>5 DEF ConvertSKILL

LEMMA ConfigGoesOn == ConfigInductive /\ [ConfigNext]_configVars => ConfigInductive'
<1> SUFFICES ASSUME ConfigInductive, [ConfigNext]_configVars PROVE ConfigInductive'
  OBVIOUS
<1>1. ASSUME NEW f \in Resource, NEW on \in BOOLEAN, SetEnabled(f, on) PROVE ConfigInductive'
  BY <1>1, OneFits, SettingKeeps DEF SetEnabled
<1>2. ASSUME NEW f \in Resource, NEW on \in BOOLEAN, AgentEdit(f, on) PROVE ConfigInductive'
  <2> DEFINE todo == <<WriteTo(f, "llm"), WriteTo(f, Setting(on)), WriteTo(f, "name")>>
  <2>1. {"llm", Setting(on), "name"} \subseteq What \ {"content"}
    BY DEF Setting, What
  <2>2. todo \in Seq(FileWrite) /\ OthersFit("set", todo)
    BY <2>1, WriteFits, ThreeFit
  <2> QED
    BY <1>2, <2>2, SettingKeeps DEF AgentEdit
<1>3. ASSUME NEW f \in Resource, NEW on \in BOOLEAN, FileEdit(f, on) PROVE ConfigInductive'
  BY <1>3, OneFits, SettingKeeps DEF FileEdit
<1>4. ASSUME NEW f \in Resource, NEW on \in BOOLEAN, SkillEdit(f, on) PROVE ConfigInductive'
  <2>1. {"access", Setting(on)} \subseteq What \ {"content"}
    BY DEF Setting, What
  <2>2. /\ <<WriteTo(f, Setting(on)), WriteTo(f, "access")>> \in Seq(FileWrite)
        /\ OthersFit("set", <<WriteTo(f, Setting(on)), WriteTo(f, "access")>>)
    BY <2>1, WriteFits, TwoFit
  <2> QED
    BY <1>4, <2>2, SettingKeeps DEF SkillEdit
<1>5. ASSUME NEW on \in BOOLEAN, NEW s \in Skill, NEW t \in Skill, SkillsSetEnabled(<<s, t>>, on)
      PROVE  ConfigInductive'
  <2>1. Setting(on) \in What \ {"content"} /\ s \in Resource /\ t \in Resource
    BY DEF Setting, What, Resource
  <2>2. SetAll(<<s, t>>, on) = <<WriteTo(s, Setting(on)), WriteTo(t, Setting(on))>>
    BY DEF SetAll
  <2>3. ASSUME NEW f \in {s, t}
        PROVE  /\ WriteTo(f, Setting(on)) \in FileWrite /\ WriteTo(f, Setting(on)).file \in Resource
               /\ WriteTo(f, Setting(on)).what # "content"
    BY <2>1, WriteFits
  <2>4. /\ <<WriteTo(s, Setting(on)), WriteTo(t, Setting(on))>> \in Seq(FileWrite)
        /\ OthersFit("set", <<WriteTo(s, Setting(on)), WriteTo(t, Setting(on))>>)
    BY <2>3, TwoFit
  <2> QED
    BY <1>5, <2>2, <2>4, SettingKeeps DEF SkillsSetEnabled
<1>6. ASSUME NEW s \in Skill, Convert(s) PROVE ConfigInductive'
  <2>1. "convert" \in CommandName \ {"none"} /\ {s} \in SUBSET File /\ <<>> \in Seq(FileWrite)
    BY DEF CommandName, File, Resource
  <2>2. OthersFit("convert", <<>>)
    BY DEF OthersFit
  <2> QED
    BY <1>6, <2>1, <2>2, BeginKeeps DEF Convert
<1>7. CASE UNCHANGED configVars
  <2>1. UNCHANGED <<file, command, byHand, cutShort>>
    BY <1>7 DEF configVars
  <2>2. ConfigTypes'
    BY <2>1 DEF ConfigInductive, ConfigTypes
  <2>3. CouncilsFit'
    BY <2>1 DEF ConfigInductive, CouncilsFit, Staffed, Claims
  <2>4. CommandFits'
    BY <2>1 DEF ConfigInductive, CommandFits, EnablingFits, DisablingFits, OthersFit, Claims
  <2> QED
    BY <2>2, <2>3, <2>4 DEF ConfigInductive
<1> QED
  BY <1>1, <1>2, <1>3, <1>4, <1>5, <1>6, <1>7, EnableKeeps, DisableKeeps, ConvertKeeps, WriteKeeps,
     FailureKeeps, InterruptKeeps, UserKeeps DEF ConfigNext

\* Only a conversion writes what is not YAML, and only into a skill.
LEMMA AgentsStayYAML ==
  ASSUME ConfigInductive, AgentsFit, [ConfigNext]_configVars
  PROVE  AgentsFit'
<1> SUFFICES ASSUME NEW a \in AgentFile PROVE file'[a].form # "fenced"
  BY DEF AgentsFit
<1>1. file \in [File -> FileState] /\ a \in File /\ a \notin Skill /\ file[a].form # "fenced"
  BY DEF ConfigInductive, ConfigTypes, AgentsFit, File, Resource
<1>2. CASE WriteFile
  <2> DEFINE w == Head(command.todo)
  <2>1. command.todo # <<>> /\ command.todo \in Seq(FileWrite) /\ file' = [file EXCEPT ![w.file] = Written(w)]
        /\ command.name \in CommandName
    BY <1>2 DEF WriteFile, ConfigInductive, ConfigTypes
  <2>2. w = command.todo[1] /\ 1 \in 1 .. Len(command.todo) /\ w \in FileWrite
        /\ Len(command.todo) \in Nat
    BY <2>1, HeadFits
  <2>3. w.what = "content" => w.file \in Skill
    <3>1. CASE command.name \in {"set", "convert", "retry"}
      BY <2>2, <3>1 DEF ConfigInductive, CommandFits, OthersFit
    <3>2. CASE command.name = "enable"
      BY <2>2, <3>2 DEF ConfigInductive, CommandFits, EnablingFits
    <3>3. CASE command.name = "disable"
      <4>1. w.what \in {"off", "keep"}
        BY <2>2, <3>3 DEF ConfigInductive, CommandFits, DisablingFits
      <4> QED
        BY <4>1
    <3>4. command.name # "none"
      BY <2>1 DEF ConfigInductive, CommandFits
    <3> QED
      BY <2>1, <3>1, <3>2, <3>3, <3>4 DEF CommandName
  <2>4. CASE w.file # a
    BY <1>1, <2>1, <2>4
  <2>5. CASE w.file = a
    <3>1. w.what # "content"
      BY <1>1, <2>3, <2>5
    <3>2. Written(w).form = file[a].form
      BY <1>1, <2>5, <3>1 DEF Written, FileState
    <3> QED
      BY <1>1, <2>1, <2>5, <3>2
  <2> QED
    BY <2>4, <2>5
<1>3. CASE Interrupt
  <2> DEFINE empty == [form |-> "empty", on |-> FALSE]
  <2>1. file' = file \/ \E f : file' = [file EXCEPT ![f] = empty]
    BY <1>3 DEF Interrupt
  <2> QED
    BY <1>1, <2>1
<1>4. ASSUME NEW f \in Resource, UserEdits(f) PROVE file'[a].form # "fenced"
  <2>1. \E state \in {[form |-> "absent", on |-> FALSE], [form |-> "good", on |-> FALSE]} :
           file' = [file EXCEPT ![f] = state]
    BY <1>4 DEF UserEdits
  <2> QED
    BY <1>1, <2>1
<1>5. CASE UNCHANGED file
  BY <1>1, <1>5
<1>6. ASSUME NEW f \in Resource, NEW on \in BOOLEAN,
             SetEnabled(f, on) \/ AgentEdit(f, on) \/ FileEdit(f, on) \/ SkillEdit(f, on)
      PROVE  UNCHANGED file
  BY <1>6 DEF SetEnabled, AgentEdit, FileEdit, SkillEdit, Same
<1>7. ASSUME NEW fs, NEW on \in BOOLEAN, SkillsSetEnabled(fs, on) PROVE UNCHANGED file
  BY <1>7 DEF SkillsSetEnabled, Same
<1>8. ASSUME NEW c \in Council, EnableCouncil(c) \/ DisableCouncil(c) PROVE UNCHANGED file
  BY <1>8 DEF EnableCouncil, DisableCouncil, Same
<1>9. ASSUME NEW s \in Skill, Convert(s) PROVE UNCHANGED file
  BY <1>9 DEF Convert, Same
<1>10. CASE ConvertSKILL \/ FileWriteFails \/ UNCHANGED configVars
  BY <1>5, <1>10 DEF ConvertSKILL, FileWriteFails, Same, configVars
<1> QED
  BY <1>2, <1>3, <1>4, <1>5, <1>6, <1>7, <1>8, <1>9, <1>10 DEF ConfigNext

\* CouncilsAreStaffed holds for any files and councils, whatever they share, and
\* however often a command is cut short: what a running disabling still has to
\* switch off is claimed by no other council, and what a running enabling has
\* not switched on yet is among its writes.
THEOREM CouncilsStayStaffed == ConfigSpec => []CouncilsAreStaffed
<1>1. ConfigInit => AgentsFit
  BY DEF ConfigInit, AgentsFit, File, Resource
<1>2. ConfigInductive /\ AgentsFit => CouncilsAreStaffed
  <2> SUFFICES ASSUME ConfigInductive, AgentsFit, command = Idle, NEW c \in Council \ cutShort, Claims(c),
                      NEW r \in PartsOf(c) \ (byHand \union Emptied), CouncilInfo(c)[r].present
               PROVE  CouncilInfo(c)[r].enabled
    BY DEF CouncilsAreStaffed, Claims
  <2>1. Staffed(c)
    BY DEF ConfigInductive, CouncilsFit, Idle
  <2>2. r \in Resource /\ r \in File /\ file \in [File -> FileState]
    BY PartsAreResources DEF File, ConfigInductive, ConfigTypes
  <2>3. file[r].form = "good"
    <3>1. CASE r \in AgentFile
      <4>1. file[r].form \notin {"absent", "empty", "fenced"}
        BY <2>2, <3>1 DEF CouncilInfo, Emptied, AgentsFit
      <4> QED
        BY <2>2, <4>1 DEF FileState
    <3>2. CASE r \notin AgentFile
      BY <3>2 DEF CouncilInfo, LoadDir
    <3> QED
      BY <3>1, <3>2
  <2>4. file[r].on
    BY <2>1, <2>3 DEF Staffed
  <2> QED
    BY <2>2, <2>3, <2>4 DEF CouncilInfo, LoadDir
<1>3. ConfigInductive /\ AgentsFit /\ [ConfigNext]_configVars => AgentsFit'
  BY AgentsStayYAML
<1> QED
  BY ConfigStarts, ConfigGoesOn, <1>1, <1>2, <1>3, PTL DEF ConfigSpec
-----------------------------------------------------------------------------
HIDE ConfigAssumption

\* A clock shifted by some sixths is at its fourth when the other is at so many less.
LEMMA SixthsShift ==
  \A q \in Int, t \in Nat : ((t + q) % 6 = 4) = (t % 6 = (4 - q) % 6)
<1>1. /\ \A x \in Int : x % 6 \in 0..5
      /\ \A x \in Int : x = 6 * (x \div 6) + (x % 6)
  <2>1. \A x \in Int : x % 6 \in 0..5
    OBVIOUS
  <2>2. \A x \in Int : x = 6 * (x \div 6) + (x % 6)
    OBVIOUS
  <2> QED
    BY <2>1, <2>2
<1>2. \A a, b \in Int, r, s \in 0..5 : (\E c \in Int : (6 * a + r) - (6 * b + s) = 6 * c) <=> r = s
  <2> SUFFICES ASSUME NEW a \in Int, NEW b \in Int, NEW r \in 0..5, NEW s \in 0..5
               PROVE (\E c \in Int : (6 * a + r) - (6 * b + s) = 6 * c) <=> r = s
    OBVIOUS
  <2>1. ASSUME r = s PROVE \E c \in Int : (6 * a + r) - (6 * b + s) = 6 * c
    <3>1. (6 * a + r) - (6 * b + s) = 6 * (a - b)
      BY <2>1
    <3> QED
      BY <3>1
  <2>2. ASSUME NEW c \in Int, (6 * a + r) - (6 * b + s) = 6 * c PROVE r = s
    <3>1. a - b - c \in Int /\ 6 * (a - b - c) = s - r /\ s - r \in -5..5
      BY <2>2
    <3>2. \A d \in Int : 6 * d \in -5..5 => d = 0
      OBVIOUS
    <3>3. s - r = 0
      BY <3>1, <3>2
    <3> QED
      BY <3>3
  <2> QED
    BY <2>1, <2>2
<1>3. \A x, y \in Int : (\E c \in Int : x - y = 6 * c) <=> x % 6 = y % 6
  <2> SUFFICES ASSUME NEW x \in Int, NEW y \in Int PROVE (\E c \in Int : x - y = 6 * c) <=> x % 6 = y % 6
    OBVIOUS
  <2>1. x \div 6 \in Int /\ y \div 6 \in Int /\ x % 6 \in Int /\ y % 6 \in Int
    OBVIOUS
  <2>2. (\E c \in Int : (6 * (x \div 6) + (x % 6)) - (6 * (y \div 6) + (y % 6)) = 6 * c) <=> x % 6 = y % 6
    BY <1>1, <1>2, <2>1
  <2>3. x = 6 * (x \div 6) + (x % 6) /\ y = 6 * (y \div 6) + (y % 6)
    BY <1>1
  <2> QED
    BY Zenon, <2>2, <2>3
<1>4. \A q \in Int, t \in Nat : (t + q) - 4 = t - (4 - q) /\ 4 % 6 = 4 /\ 4 - q \in Int /\ t + q \in Int
  OBVIOUS
<1> SUFFICES ASSUME NEW q \in Int, NEW t \in Nat PROVE ((t + q) % 6 = 4) <=> (t % 6 = (4 - q) % 6)
  OBVIOUS
<1>5. (t + q) % 6 = 4 % 6 <=> \E c \in Int : (t + q) - 4 = 6 * c
  BY <1>3
<1>6. t % 6 = (4 - q) % 6 <=> \E c \in Int : t - (4 - q) = 6 * c
  BY <1>3
<1> QED
  BY <1>4, <1>5, <1>6

USE CalendarAssumption

Daily == {x \in stored : x.scope = "daily"}

\* A session of one day, that had its episode before the day's job.
InTime(e, day) == DayOf(e.start) = day /\ DayOf(e.end) = day /\ e.had = e.of

\* Such sessions of the day are in the day's episode.
DayIsKept(day, sessions, dailies) ==
  \A e \in sessions : InTime(e, day) =>
    \E x \in dailies : x.start = Midnight(day) /\ e.of \subseteq x.of

CalendarTypes ==
  /\ now \in Nat /\ zone.process \in Int
  /\ \A e \in Sessions : e.start \in Nat /\ e.end \in Nat

\* An episode of a day is made when its job comes, or later, when no session
\* is in time for it any more.
DailiesFit ==
  \A x \in Daily : \E day \in Nat :
    /\ x.start = Midnight(day) /\ x.end = Midnight(day + 1)
    /\ JobOf(day) <= now
    /\ DayIsKept(day, Sessions, Daily)

\* What the job and the catch-up have still to do.
DaysFit ==
  /\ <<"run", "daily">> \in pending => now % 6 = JobTime
  /\ online =>
       /\ \/ DayIsKept(DayOf(now) - 1, Sessions, Daily) \/ DayOf(now) - 1 \in missed
          \/ <<"catch up", "daily">> \in pending \/ <<"give up", "daily">> \in pending
       /\ now % 6 >= JobTime =>
            \/ DayIsKept(DayOf(now), Sessions, Daily) \/ DayOf(now) \in missed
            \/ <<"run", "daily">> \in pending

CalendarInductive == CalendarTypes /\ DailiesFit /\ DaysFit

LEMMA WholeNumbers == \A d \in Nat : d \in Int /\ d - 1 \in Int
OBVIOUS

LEMMA Sixths ==
  ASSUME NEW t \in Nat
  PROVE  /\ DayOf(t) \in Nat
         /\ t % 6 \in 0..5
         /\ t = 6 * DayOf(t) + (t % 6)
<1>1. t \div 6 \in Nat
  OBVIOUS
<1>2. t % 6 \in 0..5
  OBVIOUS
<1>3. t = 6 * (t \div 6) + (t % 6)
  OBVIOUS
<1> QED
  BY <1>1, <1>2, <1>3 DEF DayOf

\* The job comes at its time of every day.
LEMMA TheJobComes ==
  ASSUME zone.process \in Int
  PROVE  /\ JobTime \in 0..5
         /\ \A t \in Nat : (ProcessTime(t) % 6 = 4) = (t % 6 = JobTime)
<1> DEFINE p == zone.process
<1>1. \A q \in Int : (4 - q) % 6 \in 0..5
  OBVIOUS
<1>2. \A q \in Int, t \in Nat : ((t + q) % 6 = 4) = (t % 6 = (4 - q) % 6)
  BY SixthsShift
<1> QED
  BY <1>1, <1>2 DEF JobTime, ProcessTime

LEMMA TimesOfADay ==
  ASSUME NEW t \in Nat, zone.process \in Int
  PROVE  /\ Midnight(DayOf(t)) <= t /\ t < Midnight(DayOf(t) + 1)
         /\ (JobOf(DayOf(t)) <= t) = (t % 6 >= JobTime)
         /\ JobOf(DayOf(t) - 1) <= t
         /\ \A d \in Int : Midnight(d) <= t /\ t < Midnight(d + 1) => d = DayOf(t)
<1>1. \A a \in Nat, r, j \in 0..5 : t = 6 * a + r =>
        /\ 6 * a <= t /\ t < 6 * (a + 1)
        /\ (6 * a + j <= t) = (r >= j)
        /\ 6 * (a - 1) + j <= t
        /\ \A d \in Int : 6 * d <= t /\ t < 6 * (d + 1) => d = a
  <2> SUFFICES ASSUME NEW a \in Nat, NEW r \in 0..5, NEW j \in 0..5, t = 6 * a + r
               PROVE  /\ 6 * a <= t /\ t < 6 * (a + 1)
                      /\ (6 * a + j <= t) = (r >= j)
                      /\ 6 * (a - 1) + j <= t
                      /\ \A d \in Int : 6 * d <= t /\ t < 6 * (d + 1) => d = a
    OBVIOUS
  <2>1. 6 * a <= t /\ t < 6 * (a + 1)
    OBVIOUS
  <2>2. (6 * a + j <= t) = (r >= j)
    OBVIOUS
  <2>3. 6 * (a - 1) + j <= t
    OBVIOUS
  <2>4. ASSUME NEW d \in Int, 6 * d <= t, t < 6 * (d + 1) PROVE d = a
    <3>1. d < a + 1
      BY <2>1, <2>4
    <3>2. a < d + 1
      BY <2>1, <2>4
    <3> QED
      BY <3>1, <3>2
  <2> QED
    BY <2>1, <2>2, <2>3, <2>4
<1>3. JobTime \in 0..5
  BY TheJobComes
<1>2. ASSUME NEW a \in Nat, NEW r \in 0..5, t = 6 * a + r
      PROVE  /\ Midnight(a) <= t /\ t < Midnight(a + 1)
             /\ (JobOf(a) <= t) = (r >= JobTime)
             /\ JobOf(a - 1) <= t
             /\ \A d \in Int : Midnight(d) <= t /\ t < Midnight(d + 1) => d = a
  BY <1>1, <1>2, <1>3 DEF Midnight, JobOf
<1> QED
  BY Zenon, <1>2, Sixths

LEMMA NextTime ==
  ASSUME NEW t \in Nat
  PROVE  \/ DayOf(t + 1) = DayOf(t) /\ (t + 1) % 6 = (t % 6) + 1 /\ t % 6 \in 0..4
         \/ DayOf(t + 1) = DayOf(t) + 1 /\ (t + 1) % 6 = 0 /\ t % 6 = 5
<1> DEFINE Goal(a, b, r, s) == \/ b = a /\ s = r + 1 /\ r \in 0..4
                               \/ b = a + 1 /\ s = 0 /\ r = 5
<1>1. \A a, b \in Nat, r, s \in 0..5 : (6 * a + r) + 1 = 6 * b + s => Goal(a, b, r, s)
  <2> SUFFICES ASSUME NEW a \in Nat, NEW b \in Nat, NEW r \in 0..5, NEW s \in 0..5, (6 * a + r) + 1 = 6 * b + s
               PROVE  Goal(a, b, r, s)
    OBVIOUS
  <2>1. CASE r \in 0..4
    <3>1. a < b + 1 /\ b < a + 1
      BY <2>1
    <3>2. b = a
      BY <3>1
    <3>3. s = r + 1
      BY <2>1, <3>2
    <3> QED
      BY <2>1, <3>2, <3>3
  <2>2. CASE r = 5
    <3>1. b = a + 1 /\ s = 0
      BY <2>2
    <3> QED
      BY <2>2, <3>1
  <2>3. r \in 0..4 \/ r = 5
    OBVIOUS
  <2> QED
    BY <2>1, <2>2, <2>3
<1>2. /\ DayOf(t) \in Nat /\ t % 6 \in 0..5 /\ t = 6 * DayOf(t) + (t % 6)
      /\ DayOf(t + 1) \in Nat /\ (t + 1) % 6 \in 0..5 /\ t + 1 = 6 * DayOf(t + 1) + ((t + 1) % 6)
  <2>1. t + 1 \in Nat
    OBVIOUS
  <2> QED
    BY Zenon, <2>1, Sixths
<1>3. Goal(DayOf(t), DayOf(t + 1), t % 6, (t + 1) % 6)
  <2> HIDE DEF Goal
  <2>1. (6 * DayOf(t) + (t % 6)) + 1 = 6 * DayOf(t + 1) + ((t + 1) % 6)
    BY <1>2
  <2> QED
    BY Zenon, <1>1, <1>2, <2>1
<1> QED
  BY <1>3

\* A step that keeps the sessions and the dailies keeps what was kept.
LEMMA KeepingDays ==
  ASSUME Sessions' = Sessions, Daily' = Daily, zone' = zone
  PROVE  /\ CalendarTypes /\ now' \in Nat => CalendarTypes'
         /\ \A d \in Int : DayIsKept(d, Sessions, Daily) => DayIsKept(d, Sessions', Daily')
BY DEF CalendarTypes, DayIsKept

LEMMA OtherScopes ==
  ASSUME NEW scope \in {"weekly", "monthly", "yearly"}, NEW from, NEW to, NEW parts,
         Summarize(scope, from, to, parts)
  PROVE  Sessions' = Sessions /\ Daily' = Daily
BY DEF Summarize, SaveEpisode, Sessions, Daily

\* A day that is summarized after its last session in time is kept, and so are
\* the others.
LEMMA SummarizingADay ==
  ASSUME CalendarTypes, NEW day \in Nat, SummarizeDay(day)
  PROVE  /\ Sessions' = Sessions
         /\ DayIsKept(day, Sessions', Daily')
         /\ \A d \in Int : DayIsKept(d, Sessions, Daily) => DayIsKept(d, Sessions', Daily')
         /\ \A x \in Daily' : x \in Daily \/ (x.start = Midnight(day) /\ x.end = Midnight(day + 1))
<1> DEFINE parts == GetEpisodesByScope("session", Midnight(day), Midnight(day + 1))
           new == [scope |-> "daily", start |-> Midnight(day), end |-> Midnight(day + 1),
                   of |-> UNION {e.of : e \in parts}, had |-> {}]
<1>1. \A e \in Sessions : InTime(e, day) => e \in parts
  <2>1. ASSUME NEW e \in Sessions, InTime(e, day) PROVE e \in parts
    <3>1. /\ e.start \in Nat /\ e.end \in Nat /\ DayOf(e.start) = day /\ DayOf(e.end) = day
          /\ zone.process \in Int
      BY <2>1 DEF CalendarTypes, InTime
    <3>2. Midnight(day) <= e.start /\ e.end < Midnight(day + 1)
      BY Zenon, <3>1, TimesOfADay
    <3>3. Midnight(day) <= e.start /\ e.end <= Midnight(day + 1)
      BY <3>1, <3>2 DEF Midnight
    <3> QED
      BY <2>1, <3>3 DEF GetEpisodesByScope, Sessions
  <2> QED
    BY <2>1
<1>2. stored' = IF parts = {} THEN stored ELSE SaveEpisode(new)
  BY DEF SummarizeDay, Summarize
<1>3. Sessions' = Sessions
  BY <1>2 DEF Sessions, SaveEpisode
<1>4. CASE parts = {}
  <2>1. stored' = stored
    BY <1>2, <1>4
  <2>2. Daily' = Daily
    BY <2>1 DEF Daily
  <2>3. DayIsKept(day, Sessions', Daily')
    BY <1>1, <1>3, <1>4 DEF DayIsKept, InTime
  <2>4. \A d \in Int : DayIsKept(d, Sessions, Daily) => DayIsKept(d, Sessions', Daily')
    BY <1>3, <2>2, KeepingDays
  <2>5. \A x \in Daily' : x \in Daily
    BY <2>2
  <2> QED
    BY <1>3, <2>3, <2>4, <2>5
<1>5. CASE parts # {}
  <2>1. stored' = SaveEpisode(new)
    BY <1>2, <1>5
  <2>2. Daily' = {x \in Daily : x.start # Midnight(day)} \cup {new}
    BY <2>1 DEF Daily, SaveEpisode
  <2>3. DayIsKept(day, Sessions', Daily')
    <3>1. ASSUME NEW e \in Sessions', InTime(e, day) 
          PROVE  \E x \in Daily' : x.start = Midnight(day) /\ e.of \subseteq x.of
      <4>1. e \in parts
        BY <1>1, <1>3, <3>1
      <4>2. e.of \subseteq new.of
        BY <4>1
      <4> QED
        BY <2>2, <4>2
    <3> QED
      BY <3>1 DEF DayIsKept, InTime
  <2>4. ASSUME NEW d \in Int, DayIsKept(d, Sessions, Daily) PROVE DayIsKept(d, Sessions', Daily')
    <3>0. CASE d = day
      BY <2>3, <3>0
    <3>5. CASE d # day
      <4>1. Midnight(d) # Midnight(day)
        BY <3>5 DEF Midnight
      <4>2. \A x \in Daily : x.start = Midnight(d) => x \in Daily'
        BY <2>2, <4>1
      <4>3. \A e \in Sessions' : InTime(e, d) => \E x \in Daily : x.start = Midnight(d) /\ e.of \subseteq x.of
        BY <1>3, <2>4 DEF DayIsKept
      <4> QED
        BY <4>2, <4>3 DEF DayIsKept, InTime, Midnight
    <3> QED
      BY <3>0, <3>5
  <2>5. \A x \in Daily' : x \in Daily \/ (x.start = Midnight(day) /\ x.end = Midnight(day + 1))
    BY <2>2
  <2> QED
    BY <1>3, <2>3, <2>4, <2>5
<1> QED
  BY <1>4, <1>5

\* A session that is stored when the job of its day has come, or later, is not in time.
LEMMA StoringASession ==
  ASSUME CalendarTypes, StoreSession
  PROVE  /\ CalendarTypes'
         /\ Daily' = Daily
         /\ \A d \in Int : JobOf(d) <= now /\ DayIsKept(d, Sessions, Daily) => DayIsKept(d, Sessions', Daily')
<1> DEFINE s == Cardinality(Sessions) + 1
<1>0. LastTime \in Int /\ now \in Nat
  BY DEF LastTime, Months, CalendarTypes, CalendarAssumption
<1>1. PICK end \in Instant \cap now - MaxDelay..now, long \in {0, 1} :
        /\ end >= long
        /\ stored' = SaveEpisode([scope |-> "session", start |-> end - long, end |-> end, of |-> {s},
                                  had |-> IF now < JobOf(DayOf(end)) THEN {s} ELSE {}])
  BY Zenon DEF StoreSession
<1> HIDE DEF s
<1>8. end \in Nat
  BY <1>0 DEF Instant
<1> DEFINE new == [scope |-> "session", start |-> end - long, end |-> end, of |-> {s},
                   had |-> IF now < JobOf(DayOf(end)) THEN {s} ELSE {}]
<1>2. Daily' = Daily
  BY <1>1 DEF Daily, SaveEpisode
<1>3. \A e \in Sessions' : e \in Sessions \/ e = new
  BY <1>1 DEF Sessions, SaveEpisode
<1>4. new.start \in Nat /\ new.end \in Nat
  BY <1>1, <1>8
<1>5. now' = now /\ zone' = zone
  BY DEF StoreSession
<1>6. CalendarTypes'
  BY <1>3, <1>4, <1>5 DEF CalendarTypes
<1>7. ASSUME NEW d \in Int, JobOf(d) <= now, DayIsKept(d, Sessions, Daily) PROVE DayIsKept(d, Sessions', Daily')
  <2>1. ~InTime(new, d)
    <3>1. SUFFICES ASSUME DayOf(end) = d PROVE new.had # new.of
      BY DEF InTime
    <3>2. JobTime \in Int
      BY TheJobComes DEF CalendarTypes
    <3>3. ~(now < JobOf(d))
      BY <1>7, <3>2 DEF CalendarTypes, JobOf, Midnight
    <3> QED
      BY <3>1, <3>3
  <2>2. ASSUME NEW e \in Sessions', InTime(e, d)
        PROVE  \E x \in Daily : x.start = Midnight(d) /\ e.of \subseteq x.of
    <3> HIDE DEF new
    <3>1. e \in Sessions
      BY <1>3, <2>1, <2>2
    <3> QED
      BY <1>7, <2>2, <3>1 DEF DayIsKept
  <2> QED
    BY <1>2, <2>2 DEF DayIsKept, InTime, Midnight
<1> QED
  BY <1>2, <1>6, <1>7

\* A step in which no time passes and nothing starts.
LEMMA WithoutTime ==
  ASSUME CalendarInductive, now' = now, zone' = zone, CalendarTypes',
         \A d \in Int : JobOf(d) <= now /\ DayIsKept(d, Sessions, Daily) => DayIsKept(d, Sessions', Daily'),
         \A x \in Daily' : x \in Daily \/ \E day \in Nat :
           /\ x.start = Midnight(day) /\ x.end = Midnight(day + 1)
           /\ JobOf(day) <= now /\ DayIsKept(day, Sessions', Daily'),
         <<"run", "daily">> \in pending' => <<"run", "daily">> \in pending,
         online' => online, missed \subseteq missed',
         online' /\ <<"catch up", "daily">> \in pending =>
           \/ <<"catch up", "daily">> \in pending' \/ <<"give up", "daily">> \in pending'
           \/ DayIsKept(DayOf(now) - 1, Sessions', Daily'),
         online' /\ <<"give up", "daily">> \in pending => <<"give up", "daily">> \in pending',
         online' /\ <<"run", "daily">> \in pending =>
           \/ <<"run", "daily">> \in pending' \/ DayOf(now) \in missed'
           \/ DayIsKept(DayOf(now), Sessions', Daily')
  PROVE  CalendarInductive'
<1>1. /\ now \in Nat /\ DayOf(now) \in Nat
      /\ JobOf(DayOf(now) - 1) <= now
      /\ now % 6 >= JobTime => JobOf(DayOf(now)) <= now
  <2>1. now \in Nat /\ zone.process \in Int
    BY DEF CalendarInductive, CalendarTypes
  <2>2. /\ DayOf(now) \in Nat
        /\ JobOf(DayOf(now) - 1) <= now
        /\ (JobOf(DayOf(now)) <= now) = (now % 6 >= JobTime)
    BY Zenon, <2>1, Sixths, TimesOfADay
  <2> QED
    BY <2>1, <2>2
<1>0. JobTime' = JobTime /\ \A d : JobOf(d)' = JobOf(d)
  BY DEF JobTime, JobOf, Midnight
<1>2. DailiesFit'
  <2>1. ASSUME NEW x \in Daily, NEW day \in Nat,
               x.start = Midnight(day), x.end = Midnight(day + 1), JobOf(day) <= now, DayIsKept(day, Sessions, Daily)
        PROVE  DayIsKept(day, Sessions', Daily')
    BY Zenon, <2>1, WholeNumbers
  <2>2. \A x \in Daily' : \E day \in Nat :
          /\ x.start = Midnight(day) /\ x.end = Midnight(day + 1)
          /\ JobOf(day) <= now /\ DayIsKept(day, Sessions', Daily')
    BY <2>1 DEF CalendarInductive, DailiesFit
  <2> QED
    BY <1>0, <2>2 DEF DailiesFit, Midnight
<1>3. DaysFit'
  <2>1. <<"run", "daily">> \in pending' => now' % 6 = JobTime'
    BY <1>0 DEF CalendarInductive, DaysFit
  <2>2. ASSUME online'
        PROVE  \/ DayIsKept(DayOf(now) - 1, Sessions', Daily') \/ DayOf(now) - 1 \in missed'
               \/ <<"catch up", "daily">> \in pending' \/ <<"give up", "daily">> \in pending'
    <3>1. \/ DayIsKept(DayOf(now) - 1, Sessions, Daily) \/ DayOf(now) - 1 \in missed
          \/ <<"catch up", "daily">> \in pending \/ <<"give up", "daily">> \in pending
      BY <2>2 DEF CalendarInductive, DaysFit
    <3>2. DayOf(now) - 1 \in missed => DayOf(now) - 1 \in missed'
      OBVIOUS
    <3> QED
      BY Zenon, <1>1, <2>2, <3>1, <3>2, WholeNumbers
  <2>3. ASSUME online', now % 6 >= JobTime
        PROVE  \/ DayIsKept(DayOf(now), Sessions', Daily') \/ DayOf(now) \in missed'
               \/ <<"run", "daily">> \in pending'
    <3>1. \/ DayIsKept(DayOf(now), Sessions, Daily) \/ DayOf(now) \in missed
          \/ <<"run", "daily">> \in pending
      BY <2>3 DEF CalendarInductive, DaysFit
    <3>2. DayOf(now) \in missed => DayOf(now) \in missed'
      OBVIOUS
    <3> QED
      BY Zenon, <1>1, <2>3, <3>1, <3>2, WholeNumbers
  <2> QED
    BY <1>0, <2>1, <2>2, <2>3 DEF DaysFit
<1> QED
  BY <1>2, <1>3 DEF CalendarInductive

\* What no step but those of the daily job and its catch-up, the store of a session,
\* the start and the clock may do.
LEMMA ElsewhereBusy ==
  ASSUME CalendarInductive, now' = now, zone' = zone, Sessions' = Sessions, Daily' = Daily,
         <<"run", "daily">> \in pending' => <<"run", "daily">> \in pending,
         online' => online, missed \subseteq missed',
         online' /\ <<"catch up", "daily">> \in pending =>
           <<"catch up", "daily">> \in pending' \/ <<"give up", "daily">> \in pending',
         online' /\ <<"give up", "daily">> \in pending => <<"give up", "daily">> \in pending',
         online' /\ <<"run", "daily">> \in pending => <<"run", "daily">> \in pending' \/ DayOf(now) \in missed'
  PROVE  CalendarInductive'
<1>1. now' \in Nat
  BY DEF CalendarInductive, CalendarTypes
<1>2. CalendarTypes' /\ \A d \in Int : DayIsKept(d, Sessions, Daily) => DayIsKept(d, Sessions', Daily')
  BY <1>1, KeepingDays DEF CalendarInductive
<1>3. \A x \in Daily' : x \in Daily
  OBVIOUS
<1> QED
  BY Zenon, <1>2, <1>3, WithoutTime

LEMMA StoringKeeps ==
  ASSUME CalendarInductive, StoreSession
  PROVE  CalendarInductive'
<1>1. CalendarTypes
  BY DEF CalendarInductive
<1>2. now' = now /\ zone' = zone /\ pending' = pending /\ online' = online /\ missed \subseteq missed'
  BY DEF StoreSession
<1>3. /\ CalendarTypes' /\ Daily' = Daily
      /\ \A d \in Int : JobOf(d) <= now /\ DayIsKept(d, Sessions, Daily) => DayIsKept(d, Sessions', Daily')
  BY Zenon, <1>1, StoringASession
<1>4. \A x \in Daily' : x \in Daily
  BY <1>3
<1> QED
  BY Zenon, <1>2, <1>3, <1>4, WithoutTime

\* A day whose job has come is summarized.
LEMMA DailyWorkKeeps ==
  ASSUME CalendarInductive, NEW day \in Nat, SummarizeDay(day), JobOf(day) <= now,
         now' = now, zone' = zone, online' = online, missed' = missed,
         \/ /\ day = DayOf(now) /\ pending' = pending \ {<<"run", "daily">>}
         \/ /\ day = DayOf(now) - 1 /\ pending' = pending \ {<<"catch up", "daily">>}
  PROVE  CalendarInductive'
<1>1. CalendarTypes /\ now' \in Nat
  BY DEF CalendarInductive, CalendarTypes
<1>2. /\ Sessions' = Sessions
      /\ DayIsKept(day, Sessions', Daily')
      /\ \A d \in Int : DayIsKept(d, Sessions, Daily) => DayIsKept(d, Sessions', Daily')
      /\ \A x \in Daily' : x \in Daily \/ (x.start = Midnight(day) /\ x.end = Midnight(day + 1))
  BY Zenon, <1>1, SummarizingADay
<1>3. CalendarTypes'
  BY <1>1, <1>2 DEF CalendarTypes
<1>4. /\ <<"run", "daily">> \in pending' => <<"run", "daily">> \in pending
      /\ <<"catch up", "daily">> \in pending =>
           <<"catch up", "daily">> \in pending' \/ day = DayOf(now) - 1
      /\ <<"give up", "daily">> \in pending => <<"give up", "daily">> \in pending'
      /\ <<"run", "daily">> \in pending => <<"run", "daily">> \in pending' \/ day = DayOf(now)
      /\ missed \subseteq missed' /\ (online' => online)
  OBVIOUS
<1>5. \A x \in Daily' : x \in Daily \/ \E d \in Nat :
        /\ x.start = Midnight(d) /\ x.end = Midnight(d + 1)
        /\ JobOf(d) <= now /\ DayIsKept(d, Sessions', Daily')
  BY Zenon, <1>2
<1> QED
  BY Zenon, <1>2, <1>3, <1>4, <1>5, WithoutTime

LEMMA DailyRunKeeps == ASSUME CalendarInductive, DailyRun PROVE CalendarInductive'
<1>1. now \in Nat /\ zone.process \in Int /\ now % 6 = JobTime
  BY DEF CalendarInductive, CalendarTypes, DaysFit, DailyRun
<1>2. DayOf(now) \in Nat /\ JobOf(DayOf(now)) <= now
  <2>1. JobTime \in 0..5
    BY <1>1, TheJobComes
  <2>2. now % 6 >= JobTime
    BY <1>1, <2>1
  <2> QED
    BY Zenon, <1>1, <2>2, Sixths, TimesOfADay
<1>3. /\ SummarizeDay(DayOf(now)) /\ pending' = pending \ {<<"run", "daily">>}
      /\ now' = now /\ zone' = zone /\ online' = online /\ missed' = missed
  BY DEF DailyRun, Done
<1> QED
  BY Zenon, <1>2, <1>3, DailyWorkKeeps

\* No session is of a day before the first.
LEMMA BeforeTheFirstDay == ASSUME CalendarTypes PROVE DayIsKept(-1, Sessions, Daily)
<1>1. \A e \in Sessions : DayOf(e.start) \in Nat
  BY Sixths DEF CalendarTypes
<1> QED
  BY <1>1 DEF DayIsKept, InTime

LEMMA DailyCatchUpKeeps == ASSUME CalendarInductive, DailyCatchUp PROVE CalendarInductive'
<1> DEFINE yesterday == DayOf(now) - 1
           itsDailies == GetEpisodesByScope("daily", Midnight(yesterday), Midnight(yesterday + 1))
<1>1. now \in Nat /\ zone.process \in Int /\ CalendarTypes
  BY DEF CalendarInductive, CalendarTypes
<1>2. DayOf(now) \in Nat /\ JobOf(yesterday) <= now
  BY Zenon, <1>1, Sixths, TimesOfADay
<1>3. /\ now' = now /\ zone' = zone /\ online' = online /\ missed' = missed
      /\ pending' = pending \ {<<"catch up", "daily">>}
      /\ IF yesterday < 0 \/ itsDailies # {} THEN stored' = stored ELSE SummarizeDay(yesterday)
  BY DEF DailyCatchUp, Done
<1>4. CASE ~(yesterday < 0) /\ itsDailies = {}
  <2>1. yesterday \in Nat
    BY <1>2, <1>4
  <2>2. SummarizeDay(yesterday)
    BY Zenon, <1>3, <1>4
  <2> QED
    BY Zenon, <1>2, <1>3, <2>1, <2>2, DailyWorkKeeps
<1>5. CASE yesterday < 0 \/ itsDailies # {}
  <2>1. Sessions' = Sessions /\ Daily' = Daily
    BY <1>3, <1>5 DEF Sessions, Daily
  <2>2. DayIsKept(yesterday, Sessions, Daily)
    <3>1. CASE yesterday < 0
      <4>1. yesterday = -1
        BY <1>2, <3>1
      <4> QED
        BY <1>1, <4>1, BeforeTheFirstDay
    <3>2. CASE itsDailies # {}
      <4>1. PICK x \in itsDailies : TRUE
        BY <3>2
      <4>2. x \in Daily /\ Midnight(yesterday) <= x.start /\ x.end <= Midnight(yesterday + 1)
        BY DEF GetEpisodesByScope, Daily
      <4>3. PICK day \in Nat : /\ x.start = Midnight(day) /\ x.end = Midnight(day + 1)
                               /\ DayIsKept(day, Sessions, Daily)
        BY <4>2 DEF CalendarInductive, DailiesFit
      <4>4. day = yesterday
        BY <1>2, <4>2, <4>3 DEF Midnight
      <4> QED
        BY <4>3, <4>4
    <3> QED
      BY <1>5, <3>1, <3>2
  <2>3. CalendarTypes' /\ \A d \in Int : DayIsKept(d, Sessions, Daily) => DayIsKept(d, Sessions', Daily')
    BY <1>1, <1>3, <2>1, KeepingDays
  <2>4. DayIsKept(yesterday, Sessions', Daily')
    BY <2>1, <2>2
  <2>5. /\ \A x \in Daily' : x \in Daily
        /\ <<"run", "daily">> \in pending' <=> <<"run", "daily">> \in pending
        /\ <<"give up", "daily">> \in pending => <<"give up", "daily">> \in pending'
        /\ missed \subseteq missed' /\ (online' => online)
    BY <1>3, <2>1
  <2> QED
    BY Zenon, <1>3, <2>3, <2>4, <2>5, WithoutTime
<1> QED
  BY <1>3, <1>4, <1>5

LEMMA LongerRunsKeep ==
  ASSUME CalendarInductive, WeeklyRun \/ MonthlyRun \/ YearlyRun \/ WeeklyCatchUp \/ MonthlyCatchUp \/ YearlyCatchUp
  PROVE  CalendarInductive'
<1>1. PICK scope \in {"weekly", "monthly", "yearly"} :
        \/ stored' = stored
        \/ \E from, to, parts : Summarize(scope, from, to, parts)
  BY DEF WeeklyRun, MonthlyRun, YearlyRun, WeeklyCatchUp, MonthlyCatchUp, YearlyCatchUp,
         SummarizeWeek, SummarizeMonth, SummarizeYear
<1>2. Sessions' = Sessions /\ Daily' = Daily
  <2>1. CASE stored' = stored
    BY <2>1 DEF Sessions, Daily
  <2>2. CASE \E from, to, parts : Summarize(scope, from, to, parts)
    BY Zenon, <2>2, OtherScopes
  <2> QED
    BY <1>1, <2>1, <2>2
<1>5. now' = now /\ zone' = zone /\ online' = online /\ missed' = missed
  BY DEF WeeklyRun, MonthlyRun, YearlyRun, WeeklyCatchUp, MonthlyCatchUp, YearlyCatchUp, Done
<1>3. \E job \in {"run", "catch up"} : \E s \in {"weekly", "monthly", "yearly"} : pending' = pending \ {<<job, s>>}
  BY DEF WeeklyRun, MonthlyRun, YearlyRun, WeeklyCatchUp, MonthlyCatchUp, YearlyCatchUp, Done
<1>6. (online' => online) /\ missed \subseteq missed'
  BY <1>5
<1>4. /\ <<"run", "daily">> \in pending' <=> <<"run", "daily">> \in pending
      /\ <<"catch up", "daily">> \in pending' <=> <<"catch up", "daily">> \in pending
      /\ <<"give up", "daily">> \in pending' <=> <<"give up", "daily">> \in pending
  BY <1>3
<1> QED
  BY Zenon, <1>2, <1>4, <1>5, <1>6, ElsewhereBusy

LEMMA OutagesKeep ==
  ASSUME CalendarInductive, JobFails \/ GoOffline \/ GiveUp
  PROVE  CalendarInductive'
<1>1. /\ now' = now /\ zone' = zone /\ stored' = stored /\ (online' => online) /\ missed \subseteq missed'
      /\ <<"run", "daily">> \in pending' => <<"run", "daily">> \in pending
      /\ online' /\ <<"catch up", "daily">> \in pending =>
           <<"catch up", "daily">> \in pending' \/ <<"give up", "daily">> \in pending'
      /\ online' /\ <<"give up", "daily">> \in pending => <<"give up", "daily">> \in pending'
      /\ online' /\ <<"run", "daily">> \in pending => <<"run", "daily">> \in pending' \/ DayOf(now) \in missed'
  <2>1. CASE JobFails
    <3>1. PICK job \in pending :
            /\ job[1] = "run" \/ CatchesUp(job[2])
            /\ pending' = (pending \ {job}) \union (IF job[1] = "run" THEN {} ELSE {<<"give up", job[2]>>})
            /\ missed' = IF job = <<"run", "daily">> THEN missed \union {DayOf(now)} ELSE missed
      BY <2>1 DEF JobFails
    <3>2. now' = now /\ zone' = zone /\ stored' = stored /\ online' = online
      BY <2>1 DEF JobFails
    <3>3. missed \subseteq missed'
      BY <3>1
    <3>4. /\ <<"run", "daily">> \in pending' => <<"run", "daily">> \in pending
          /\ <<"run", "daily">> \in pending => <<"run", "daily">> \in pending' \/ DayOf(now) \in missed'
      BY <3>1
    <3>5. ASSUME <<"catch up", "daily">> \in pending
          PROVE  <<"catch up", "daily">> \in pending' \/ <<"give up", "daily">> \in pending'
      <4>1. CASE job = <<"catch up", "daily">>
        <5>1. job[1] # "run" /\ job[2] = "daily"
          BY <4>1
        <5> QED
          BY <3>1, <5>1
      <4>2. CASE job # <<"catch up", "daily">>
        BY <3>1, <3>5, <4>2
      <4> QED
        BY <4>1, <4>2
    <3>6. ASSUME <<"give up", "daily">> \in pending PROVE <<"give up", "daily">> \in pending'
      <4>1. CASE job = <<"give up", "daily">>
        <5>1. job[1] # "run" /\ job[2] = "daily"
          BY <4>1
        <5> QED
          BY <3>1, <5>1
      <4>2. CASE job # <<"give up", "daily">>
        BY <3>1, <3>6, <4>2
      <4> QED
        BY <4>1, <4>2
    <3> QED
      BY <3>2, <3>3, <3>4, <3>5, <3>6
  <2>2. CASE GoOffline \/ GiveUp
    BY <2>2 DEF GoOffline, GiveUp
  <2> QED
    BY <2>1, <2>2
<1>2. Sessions' = Sessions /\ Daily' = Daily
  BY <1>1 DEF Sessions, Daily
<1> QED
  BY Zenon, <1>1, <1>2, ElsewhereBusy

LEMMA StartingKeeps == ASSUME CalendarInductive, GoOnline PROVE CalendarInductive'
<1>1. /\ now' = now /\ zone' = zone /\ stored' = stored /\ pending' = {"catch up"} \X Scope
      /\ JobOf(DayOf(now)) <= now => DayOf(now) \in missed'
  BY DEF GoOnline
<1>2. Sessions' = Sessions /\ Daily' = Daily
  BY <1>1 DEF Sessions, Daily
<1>3. CalendarTypes' /\ DailiesFit'
  BY <1>1, <1>2 DEF CalendarInductive, CalendarTypes, DailiesFit, JobOf, JobTime, Midnight
<1>4. DaysFit'
  <2>1. <<"catch up", "daily">> \in pending' /\ <<"run", "daily">> \notin pending'
    <3>1. "daily" \in Scope
      <4>1. Scopes[1] = "daily" /\ 1 \in 1..4
        BY DEF Scopes
      <4> QED
        BY <4>1 DEF Scope
    <3> QED
      BY <1>1, <3>1
  <2>2. now % 6 >= JobTime => DayOf(now) \in missed'
    <3>1. (JobOf(DayOf(now)) <= now) = (now % 6 >= JobTime)
      BY Zenon, TimesOfADay DEF CalendarInductive, CalendarTypes
    <3> QED
      BY <1>1, <3>1
  <2>3. JobTime' = JobTime /\ DayOf(now)' = DayOf(now)
    BY <1>1 DEF JobTime, DayOf
  <2> QED
    BY <1>1, <2>1, <2>2, <2>3 DEF DaysFit
<1> QED
  BY <1>3, <1>4 DEF CalendarInductive

LEMMA TimeKeeps == ASSUME CalendarInductive, Pass PROVE CalendarInductive'
<1>1. /\ now \in Nat /\ zone.process \in Int /\ now' = now + 1 /\ zone' = zone /\ pending = {} /\ stored' = stored
      /\ online' = online /\ missed' = missed
      /\ pending' = IF online THEN {"run"} \X Due(now + 1) ELSE {}
  BY DEF CalendarInductive, CalendarTypes, Pass
<1>2. Sessions' = Sessions /\ Daily' = Daily
  BY <1>1 DEF Sessions, Daily
<1>3. CalendarTypes'
  BY <1>1, <1>2 DEF CalendarInductive, CalendarTypes
<1>6. JobTime' = JobTime /\ JobTime \in 0..5 /\ \A d : JobOf(d)' = JobOf(d)
  BY <1>1, TheJobComes DEF JobTime, JobOf, Midnight
<1>4. DailiesFit'
  <2>1. \A day \in Nat : JobOf(day) <= now => JobOf(day) <= now'
    BY <1>1, <1>6 DEF JobOf, Midnight
  <2>2. \A x \in Daily : \E day \in Nat :
          /\ x.start = Midnight(day) /\ x.end = Midnight(day + 1)
          /\ JobOf(day) <= now'
          /\ DayIsKept(day, Sessions, Daily)
    BY Zenon, <2>1 DEF CalendarInductive, DailiesFit
  <2> QED
    BY <1>2, <1>6, <2>2 DEF DailiesFit
<1>5. DaysFit'
  <2>0. (ProcessTime(now + 1) % 6 = 4) = (now' % 6 = JobTime)
    BY <1>1, TheJobComes
  <2>1. <<"run", "daily">> \in pending' => now' % 6 = JobTime
    <3>1. "daily" \in Due(now + 1) => ProcessTime(now + 1) % 6 = 4
      BY DEF Due
    <3> QED
      BY <1>1, <2>0, <3>1
  <2>2. ASSUME online'
        PROVE  /\ DayIsKept(DayOf(now) - 1, Sessions, Daily) \/ DayOf(now) - 1 \in missed
               /\ now % 6 >= JobTime => DayIsKept(DayOf(now), Sessions, Daily) \/ DayOf(now) \in missed
    BY <1>1, <2>2 DEF CalendarInductive, DaysFit
  <2>3. ASSUME online', now' % 6 = JobTime PROVE <<"run", "daily">> \in pending'
    <3>1. "daily" \in Due(now + 1)
      <4>1. Scopes[1] = "daily" /\ 1 \in 1..4
        BY DEF Scopes
      <4>2. "daily" \in Scope
        BY <4>1 DEF Scope
      <4> QED
        BY <2>0, <2>3, <4>2 DEF Due
    <3> QED
      BY <1>1, <2>3, <3>1
  <2>4. \/ DayOf(now') = DayOf(now) /\ now' % 6 = (now % 6) + 1 /\ now % 6 \in 0..4
        \/ DayOf(now') = DayOf(now) + 1 /\ now' % 6 = 0 /\ now % 6 = 5
    BY <1>1, NextTime
  <2>5. DayOf(now) \in Nat
    BY Zenon, <1>1, Sixths
  <2>6. CASE DayOf(now') = DayOf(now) /\ now' % 6 = (now % 6) + 1 /\ now % 6 \in 0..4
    <3>1. now' % 6 >= JobTime => now % 6 >= JobTime \/ now' % 6 = JobTime
      BY <1>6, <2>6
    <3> QED
      BY Zenon, <1>1, <1>2, <1>6, <2>1, <2>2, <2>3, <2>6, <3>1 DEF DaysFit
  <2>7. CASE DayOf(now') = DayOf(now) + 1 /\ now' % 6 = 0 /\ now % 6 = 5
    <3>1. DayOf(now') - 1 = DayOf(now) /\ now % 6 >= JobTime
      <4>1. \A a \in Nat : \A c : c = a + 1 => c - 1 = a
        OBVIOUS
      <4>2. DayOf(now') - 1 = DayOf(now)
        BY <2>5, <2>7, <4>1
      <4>3. \A j \in 0..5 : \A m : m = 5 => m >= j
        OBVIOUS
      <4> QED
        BY Zenon, <1>6, <2>7, <4>2, <4>3
    <3>2. now' % 6 >= JobTime => now' % 6 = JobTime
      BY <1>6, <2>7
    <3> QED
      BY Zenon, <1>1, <1>2, <1>6, <2>1, <2>2, <2>3, <3>1, <3>2 DEF DaysFit
  <2> QED
    BY <2>4, <2>6, <2>7
<1> QED
  BY <1>3, <1>4, <1>5 DEF CalendarInductive

LEMMA CalendarInvariant == CalendarSpec => []CalendarInductive
<1>1. CalendarInit => CalendarInductive
  <2>1. ASSUME CalendarInit PROVE CalendarInductive
    <3>0. zone.process \in Int
      BY <2>1, CalendarAssumption DEF CalendarInit
    <3>1. now = 1 /\ Sessions = {} /\ Daily = {} /\ pending = {} /\ online = FALSE
      BY <2>1 DEF CalendarInit, Sessions, Daily
    <3> QED
      BY <3>0, <3>1 DEF CalendarInductive, CalendarTypes, DailiesFit, DaysFit
  <2> QED
    BY <2>1
<1>2. CalendarInductive /\ [CalendarNext]_calendarVars => CalendarInductive'
  <2> SUFFICES ASSUME CalendarInductive, [CalendarNext]_calendarVars PROVE CalendarInductive'
    OBVIOUS
  <2>1. CASE UNCHANGED calendarVars
    BY <2>1 DEF calendarVars, CalendarInductive, CalendarTypes, DailiesFit, DaysFit, Sessions, Daily, JobOf, JobTime,
                Midnight
  <2>2. CASE StoreSession
    BY Zenon, <2>2, StoringKeeps
  <2> QED
    BY Zenon, <2>1, <2>2, TimeKeeps, OutagesKeep, StartingKeeps, DailyRunKeeps, DailyCatchUpKeeps, LongerRunsKeep
       DEF CalendarNext
<1> QED
  BY <1>1, <1>2, PTL DEF CalendarSpec

\* Of the user's sessions of yesterday that had their episode before the daily job
\* each is in a daily episode, wherever the process and the user are and whatever the
\* calendar, the outages and the delays; unless the job failed, or came before a start
\* on the same day.
THEOREM NoDayIsLost == CalendarSpec => []DaysAreKept
<1>1. CalendarInductive => DaysAreKept
  <2> SUFFICES ASSUME CalendarInductive, online, pending = {}, DayOf(now) - 1 \notin missed,
                      NEW e \in Sessions, InTime(e, DayOf(now) - 1)
               PROVE  e.of \subseteq Covered("daily")
    BY DEF DaysAreKept, InTime
  <2>1. DayIsKept(DayOf(now) - 1, Sessions, Daily)
    BY DEF CalendarInductive, DaysFit
  <2>2. PICK x \in Daily : e.of \subseteq x.of
    BY <2>1 DEF DayIsKept
  <2> QED
    BY <2>2 DEF Covered, Daily
<1> QED
  BY <1>1, CalendarInvariant, PTL

-----------------------------------------------------------------------------
(* The keys in .env. The assumptions used so far are not about them.       *)

HIDE CronAssumption
HIDE CliAssumption
HIDE SessionMemoryAssumption
HIDE RecallAssumption
HIDE CalendarAssumption
HIDE NexusAssumption
HIDE TaskAssumption
USE SecretsAssumption

Line == [key : Key, value : {"empty", "secret", "spoiled"}, glued : SUBSET Key]

\* The first value of a key that is not empty is a secret.
Reads(lines, k) ==
  \E i \in DOMAIN lines :
    /\ lines[i].key = k /\ lines[i].value = "secret"
    /\ \A j \in DOMAIN lines : j < i /\ lines[j].key = k => lines[j].value = "empty"

LEMMA FirstIsSmallest ==
  ASSUME NEW T \in SUBSET Nat, T # {}
  PROVE  FirstOf(T) \in T /\ \A j \in T : FirstOf(T) <= j
BY Smallest DEF FirstOf

LEMMA FirstIsOne ==
  ASSUME NEW T \in SUBSET Nat, NEW i \in T, \A j \in T : i <= j
  PROVE  FirstOf(T) = i
<1>1. FirstOf(T) \in T /\ \A j \in T : FirstOf(T) <= j
  BY FirstIsSmallest
<1>2. FirstOf(T) <= i /\ i <= FirstOf(T)
  BY <1>1
<1>3. FirstOf(T) \in Nat /\ i \in Nat
  BY <1>1
<1> QED
  BY <1>2, <1>3

LEMMA LoadReads ==
  ASSUME NEW e, e.lines \in Seq(Line), NEW k
  PROVE  LoadDotEnv(e, k) = "secret" <=> Reads(e.lines, k)
<1> DEFINE Set == {i \in Mentions(e, k) : e.lines[i].value # "empty"}
<1>1. LoadDotEnv(e, k) = IF Set = {} THEN "empty" ELSE e.lines[FirstOf(Set)].value
  BY DEF LoadDotEnv
<1>2. \A i : i \in Set <=> i \in DOMAIN e.lines /\ e.lines[i].key = k /\ e.lines[i].value # "empty"
  BY DEF Mentions
<1>3. Set \in SUBSET Nat /\ DOMAIN e.lines \subseteq Nat
  BY <1>2
<1> HIDE DEF Set
<1>4. ASSUME LoadDotEnv(e, k) = "secret" PROVE Reads(e.lines, k)
  <2>1. Set # {} /\ e.lines[FirstOf(Set)].value = "secret"
    BY <1>1, <1>4
  <2>2. FirstOf(Set) \in Set /\ \A j \in Set : FirstOf(Set) <= j
    BY <1>3, <2>1, FirstIsSmallest
  <2>3. \A j \in DOMAIN e.lines : j < FirstOf(Set) /\ e.lines[j].key = k => e.lines[j].value = "empty"
    <3> SUFFICES ASSUME NEW j \in DOMAIN e.lines, j < FirstOf(Set), j \in Set PROVE FALSE
      BY <1>2
    <3> QED
      BY <1>3, <2>2
  <2> QED
    BY <1>2, <2>1, <2>2, <2>3 DEF Reads
<1>5. ASSUME Reads(e.lines, k) PROVE LoadDotEnv(e, k) = "secret"
  <2>1. PICK i \in DOMAIN e.lines :
          /\ e.lines[i].key = k /\ e.lines[i].value = "secret"
          /\ \A j \in DOMAIN e.lines : j < i /\ e.lines[j].key = k => e.lines[j].value = "empty"
    BY <1>5 DEF Reads
  <2>2. i \in Set
    BY <1>2, <2>1
  <2>3. \A j \in Set : i <= j
    BY <1>2, <1>3, <2>1
  <2>4. FirstOf(Set) = i
    BY <1>3, <2>2, <2>3, FirstIsOne
  <2> QED
    BY <1>1, <2>1, <2>2, <2>4
<1> QED
  BY <1>4, <1>5

\* Lines that come later cost no secret.
LEMMA MoreLines ==
  ASSUME NEW lines \in Seq(Line), NEW more \in Seq(Line), NEW k, Reads(lines, k)
  PROVE  Reads(lines \o more, k)
<1>1. PICK i \in DOMAIN lines :
        /\ lines[i].key = k /\ lines[i].value = "secret"
        /\ \A j \in DOMAIN lines : j < i /\ lines[j].key = k => lines[j].value = "empty"
  BY DEF Reads
<1>2. /\ lines \o more \in Seq(Line) /\ DOMAIN lines \subseteq DOMAIN (lines \o more)
      /\ \A j \in DOMAIN lines : (lines \o more)[j] = lines[j]
  OBVIOUS
<1>3. \A j \in DOMAIN (lines \o more) : j < i => j \in DOMAIN lines
  BY <1>2
<1> QED
  BY <1>1, <1>2, <1>3 DEF Reads

\* A line whose key is another one does not matter.
LEMMA OtherLine ==
  ASSUME NEW lines \in Seq(Line), NEW n \in DOMAIN lines, NEW new,
         new.key = lines[n].key, NEW k, k # lines[n].key, Reads(lines, k)
  PROVE  Reads([lines EXCEPT ![n] = new], k)
<1>1. PICK i \in DOMAIN lines :
        /\ lines[i].key = k /\ lines[i].value = "secret"
        /\ \A j \in DOMAIN lines : j < i /\ lines[j].key = k => lines[j].value = "empty"
  BY DEF Reads
<1>2. /\ DOMAIN [lines EXCEPT ![n] = new] = DOMAIN lines
      /\ \A j \in DOMAIN lines : j # n => [lines EXCEPT ![n] = new][j] = lines[j]
      /\ [lines EXCEPT ![n] = new][n] = new
  OBVIOUS
<1>3. \A j \in DOMAIN lines : [lines EXCEPT ![n] = new][j].key = lines[j].key
  BY <1>2
<1>4. i # n
  BY <1>1
<1>5. \A j \in DOMAIN lines : lines[j].key = k => j # n
  OBVIOUS
<1> HIDE DEF Key
<1> QED
  BY <1>1, <1>2, <1>3, <1>4, <1>5 DEF Reads

\* The first line of a key that becomes a secret is one that is read.
LEMMA FirstLine ==
  ASSUME NEW lines \in Seq(Line), NEW n \in DOMAIN lines, NEW new,
         new.key = lines[n].key, new.value = "secret",
         \A j \in DOMAIN lines : lines[j].key = lines[n].key => n <= j
  PROVE  Reads([lines EXCEPT ![n] = new], lines[n].key)
<1>1. /\ DOMAIN [lines EXCEPT ![n] = new] = DOMAIN lines
      /\ \A j \in DOMAIN lines : j # n => [lines EXCEPT ![n] = new][j] = lines[j]
      /\ [lines EXCEPT ![n] = new][n] = new
  OBVIOUS
<1>2. \A j \in DOMAIN lines : j < n => lines[j].key # lines[n].key /\ j # n
  OBVIOUS
<1> QED
  BY <1>1, <1>2 DEF Reads

-----------------------------------------------------------------------------
\* .env as the commands leave it: a file that is not there has no lines, and
\* one that does not end with a newline has.
EnvFits(e) ==
  /\ DOMAIN e = {"exists", "lines", "ended"}
  /\ e.exists \in BOOLEAN /\ e.ended \in BOOLEAN
  /\ e.lines \in Seq(Line)
  /\ ~e.exists => e.lines = <<>>
  /\ ~e.ended => e.lines # <<>>

\* What can be read in e, but for the last line of a file without a newline, can
\* be read in f.
NothingLost(e, f) ==
  \A k \in Key : Reads(e.lines, k) /\ (e.ended \/ k # e.lines[Len(e.lines)].key) => Reads(f.lines, k)

\* The lines of a file without a newline when text was appended.
Glued(lines, k) == [lines EXCEPT ![Len(lines)] = GluedTo(lines[Len(lines)], k)]

LEMMA GluedIsLine ==
  ASSUME NEW line \in Line, NEW k \in Key
  PROVE  GluedTo(line, k) \in Line /\ GluedTo(line, k).key = line.key
<1>1. Within[k] \in SUBSET Key
  BY SecretsAssumption
<1>2. line.glued \union Within[k] \in SUBSET Key
  BY <1>1 DEF Line
<1> QED
  BY <1>2 DEF GluedTo, Line

\* A file to which text is appended.
LEMMA AppendedFile ==
  ASSUME NEW e, EnvFits(e), NEW k, NEW value
  PROVE  /\ DOMAIN Appended(e, k, value) = DOMAIN e
         /\ Appended(e, k, value).exists = e.exists
         /\ Appended(e, k, value).ended = TRUE
         /\ e.ended => Appended(e, k, value).lines = Append(e.lines, LineOf(k, value))
         /\ ~e.ended => Appended(e, k, value).lines = Glued(e.lines, k)
<1> DEFINE f == Appended(e, k, value)
<1>1. DOMAIN e = {"exists", "lines", "ended"} /\ e.ended \in BOOLEAN
  BY DEF EnvFits
<1>2. CASE e.ended
  <2>1. f = [e EXCEPT !.lines = Append(@, LineOf(k, value))]
    BY <1>2 DEF Appended
  <2>2. e.ended = TRUE
    BY <1>1, <1>2
  <2> QED
    BY <1>1, <1>2, <2>1, <2>2
<1>3. CASE ~e.ended
  <2>1. f = [e EXCEPT !.lines = [e.lines EXCEPT ![Len(e.lines)] = GluedTo(e.lines[Len(e.lines)], k)],
                      !.ended = TRUE]
    BY <1>3 DEF Appended
  <2>2. f = [e EXCEPT !.lines = Glued(e.lines, k), !.ended = TRUE]
    BY <2>1 DEF Glued
  <2> HIDE DEF f
  <2>3. DOMAIN f = DOMAIN e /\ f.exists = e.exists /\ f.lines = Glued(e.lines, k) /\ f.ended = TRUE
    BY <1>1, <2>2
  <2> QED
    BY <1>3, <2>3 DEF f
<1> QED
  BY <1>2, <1>3

\* The last line of a file without a newline is spoiled, and nothing else is lost.
LEMMA Spoiled ==
  ASSUME NEW lines \in Seq(Line), lines # <<>>, NEW k \in Key
  PROVE  /\ Glued(lines, k) \in Seq(Line) /\ Len(Glued(lines, k)) = Len(lines) /\ Glued(lines, k) # <<>>
         /\ \A j : Reads(lines, j) /\ j # lines[Len(lines)].key => Reads(Glued(lines, k), j)
<1> DEFINE glued == Glued(lines, k)
           n == Len(lines)
           new == GluedTo(lines[n], k)
<1>1. n \in DOMAIN lines /\ lines[n] \in Line
  OBVIOUS
<1>2. new \in Line /\ new.key = lines[n].key
  BY <1>1, GluedIsLine
<1> HIDE DEF new
<1>3. glued = [lines EXCEPT ![n] = new]
  BY DEF new, Glued
<1> HIDE DEF glued
<1>4. glued \in Seq(Line) /\ Len(glued) = Len(lines)
  BY <1>1, <1>2, <1>3, ExceptSeq
<1>5. glued # <<>>
  BY <1>1, <1>4
<1>6. ASSUME NEW j, Reads(lines, j), j # lines[n].key PROVE Reads(glued, j)
  <2>1. Reads([lines EXCEPT ![n] = new], j)
    BY <1>1, <1>2, <1>6, OtherLine
  <2> QED
    BY <1>3, <2>1
<1> QED
  BY <1>4, <1>5, <1>6 DEF glued

LEMMA LineFits ==
  ASSUME NEW k \in Key, NEW value \in {"empty", "secret"}
  PROVE  LineOf(k, value) \in Line /\ LineOf(k, value).key = k /\ LineOf(k, value).value = value
BY DEF LineOf, Line

LEMMA AppendedFits ==
  ASSUME NEW e, EnvFits(e), e.exists, NEW k \in Key, NEW value \in {"empty", "secret"}
  PROVE  /\ EnvFits(Appended(e, k, value)) /\ Appended(e, k, value).exists
         /\ Appended(e, k, value).ended
         /\ Len(Appended(e, k, value).lines) <= Len(e.lines) + 1
         /\ NothingLost(e, Appended(e, k, value))
<1> DEFINE f == Appended(e, k, value)
           x == LineOf(k, value)
<1>1. e.lines \in Seq(Line) /\ x \in Line /\ (~e.ended => e.lines # <<>>)
      /\ DOMAIN e = {"exists", "lines", "ended"}
  BY LineFits DEF EnvFits
<1>2. CASE e.ended
  <2>1. f.exists = e.exists /\ f.ended = TRUE /\ f.lines = Append(e.lines, x)
        /\ DOMAIN f = {"exists", "lines", "ended"}
    BY <1>2, <1>1, AppendedFile
  <2>2. f.lines \in Seq(Line) /\ Len(f.lines) = Len(e.lines) + 1 /\ f.lines # <<>>
    BY <1>1, <2>1
  <2>3. f.lines = e.lines \o <<x>> /\ <<x>> \in Seq(Line)
    BY <1>1, <2>1
  <2>4. NothingLost(e, f)
    <3> HIDE DEF f, x
    <3>1. \A j : Reads(e.lines, j) => Reads(f.lines, j)
      BY <1>1, <2>3, MoreLines
    <3> QED
      BY <3>1 DEF NothingLost
  <2> HIDE DEF f
  <2>5. EnvFits(f)
    BY <2>1, <2>2 DEF EnvFits
  <2>6. Len(f.lines) <= Len(e.lines) + 1
    BY <1>1, <2>2
  <2> QED
    BY <2>1, <2>4, <2>5, <2>6 DEF f
<1>3. CASE ~e.ended
  <2>1. f.exists = e.exists /\ f.ended = TRUE /\ f.lines = Glued(e.lines, k)
        /\ DOMAIN f = {"exists", "lines", "ended"}
    BY <1>3, <1>1, AppendedFile
  <2>2. /\ f.lines \in Seq(Line) /\ Len(f.lines) = Len(e.lines) /\ f.lines # <<>>
        /\ \A j : Reads(e.lines, j) /\ j # e.lines[Len(e.lines)].key => Reads(f.lines, j)
    BY <1>1, <1>3, <2>1, Spoiled
  <2>3. NothingLost(e, f)
    BY <1>3, <2>2 DEF NothingLost
  <2> HIDE DEF f
  <2>4. EnvFits(f)
    BY <2>1, <2>2 DEF EnvFits
  <2>5. Len(f.lines) <= Len(e.lines) + 1
    BY <1>1, <2>2
  <2> QED
    BY <2>1, <2>3, <2>4, <2>5 DEF f
<1> QED
  BY <1>2, <1>3

\* Nothing lost in one step and in the next is nothing lost.
LEMMA LostNever ==
  ASSUME NEW e, NEW f, NEW g, f.ended, NothingLost(e, f), NothingLost(f, g)
  PROVE  NothingLost(e, g)
BY DEF NothingLost

LEMMA SetFits ==
  ASSUME EnvFits(env), Len(env.lines) < MaxLines, NEW k \in Key
  PROVE  /\ EnvFits(SetEnvVar(k)) /\ NothingLost(env, SetEnvVar(k))
         /\ Len(SetEnvVar(k).lines) <= MaxLines
<1> DEFINE f == SetEnvVar(k)
           lines == env.lines
           x == LineOf(k, "secret")
<1>1. lines \in Seq(Line) /\ x \in Line /\ DOMAIN env = {"exists", "lines", "ended"}
      /\ env.exists \in BOOLEAN /\ env.ended \in BOOLEAN
      /\ (env.exists \/ lines = <<>>) /\ (env.ended \/ lines # <<>>)
  BY LineFits DEF EnvFits
<1>2. CASE Mentions(env, k) = {}
  <2>1. f.exists = TRUE /\ f.ended = FALSE /\ f.lines = Append(lines, x)
        /\ DOMAIN f = {"exists", "lines", "ended"}
    BY <1>2 DEF SetEnvVar
  <2>2. f.lines \in Seq(Line) /\ Len(f.lines) = Len(lines) + 1 /\ f.lines # <<>>
    BY <1>1, <2>1
  <2>3. f.lines = lines \o <<x>> /\ <<x>> \in Seq(Line)
    BY <1>1, <2>1
  <2>4. NothingLost(env, f)
    BY <1>1, <2>3, MoreLines DEF NothingLost
  <2>5. Len(f.lines) <= MaxLines
    BY <1>1, <2>2
  <2> HIDE DEF f
  <2>6. EnvFits(f)
    BY <2>1, <2>2 DEF EnvFits
  <2> QED
    BY <2>4, <2>5, <2>6 DEF f
<1>3. CASE Mentions(env, k) # {}
  <2> DEFINE n == FirstOf(Mentions(env, k))
             new == LineOf(k, "secret")
  <2>1. \A i : i \in Mentions(env, k) <=> i \in DOMAIN lines /\ lines[i].key = k
    BY DEF Mentions
  <2>2. n \in Mentions(env, k) /\ \A j \in Mentions(env, k) : n <= j
    <3>1. Mentions(env, k) \in SUBSET Nat
      BY <1>1, <2>1
    <3> QED
      BY <1>3, <3>1, FirstIsSmallest
  <2>3. n \in DOMAIN lines /\ lines[n].key = k /\ lines[n] \in Line
    BY <1>1, <2>1, <2>2
  <2>4. new \in Line /\ new.key = lines[n].key /\ new.value = "secret"
    BY <2>3, LineFits
  <2>5. f = [env EXCEPT !.lines = [lines EXCEPT ![n] = new]]
    BY <1>3 DEF SetEnvVar
  <2> HIDE DEF new, n
  <2> DEFINE lines2 == [lines EXCEPT ![n] = new]
  <2>6. lines2 \in Seq(Line) /\ Len(lines2) = Len(lines) /\ lines2 # <<>>
    <3>1. lines2 \in Seq(Line) /\ Len(lines2) = Len(lines) /\ n \in 1 .. Len(lines)
      BY <1>1, <2>3, <2>4, ExceptSeq
    <3> QED
      BY <3>1
  <2>7. \A j \in Key : Reads(lines, j) => Reads(lines2, j)
    <3>1. Reads(lines2, k)
      BY <1>1, <2>1, <2>2, <2>3, <2>4, FirstLine
    <3>2. \A j \in Key \ {k} : Reads(lines, j) => Reads(lines2, j)
      BY <1>1, <2>3, <2>4, OtherLine
    <3> QED
      BY <3>1, <3>2
  <2> HIDE DEF lines2
  <2>8. f.exists = env.exists /\ f.ended = env.ended /\ f.lines = lines2
        /\ DOMAIN f = {"exists", "lines", "ended"}
    BY <1>1, <2>5 DEF lines2
  <2>9. NothingLost(env, f)
    BY <2>7, <2>8 DEF NothingLost
  <2>10. Len(f.lines) <= MaxLines
    BY <1>1, <2>6, <2>8
  <2> HIDE DEF f
  <2>11. EnvFits(f)
    BY <1>1, <2>3, <2>6, <2>8 DEF EnvFits
  <2> QED
    BY <2>9, <2>10, <2>11 DEF f
<1> QED
  BY <1>2, <1>3

\* A line is added for a name that is not in the text, or none.
LEMMA NewFits ==
  ASSUME NEW e, EnvFits(e), e.exists, NEW k \in Key, NEW value \in {"empty", "secret"}
  PROVE  /\ EnvFits(AppendedNew(e, k, value)) /\ AppendedNew(e, k, value).exists
         /\ AppendedNew(e, k, value) = e \/ AppendedNew(e, k, value).ended
         /\ Len(AppendedNew(e, k, value).lines) <= Len(e.lines) + 1
         /\ NothingLost(e, AppendedNew(e, k, value))
<1>1. NothingLost(e, e) /\ Len(e.lines) \in Nat
  BY DEF NothingLost, EnvFits
<1>2. CASE Holds(e, k)
  <2>1. AppendedNew(e, k, value) = e
    BY <1>2 DEF AppendedNew
  <2>2. Len(e.lines) <= Len(e.lines) + 1
    BY <1>1
  <2> QED
    BY <1>1, <2>1, <2>2
<1>3. CASE ~Holds(e, k)
  BY <1>3, AppendedFits DEF AppendedNew
<1> QED
  BY <1>2, <1>3

\* Lines for several keys, one after the other: there is such a sequence of files,
\* whatever a line does.
IsWritten(f, e, order, used, n) ==
  f = [k \in 0 .. n |-> IF k = 0 THEN e ELSE AppendedNew(f[k - 1], order[k], used[order[k]])]

LEMMA WrittenExists ==
  ASSUME NEW e, NEW order, NEW used, NEW n \in Nat
  PROVE  \E f : IsWritten(f, e, order, used, n)
<1> DEFINE Body(f, m) == [k \in 0 .. m |-> IF k = 0 THEN e
                                            ELSE AppendedNew(f[k - 1], order[k], used[order[k]])]
           bad == {m \in Nat : ~ \E f : f = Body(f, m)}
<1> SUFFICES ASSUME n \in bad PROVE FALSE
  BY DEF IsWritten
<1>1. bad \in SUBSET Nat /\ bad # {}
  OBVIOUS
<1>2. PICK m \in bad : \A y \in bad : m <= y
  BY <1>1, Smallest
<1>3. CASE m = 0
  <2> DEFINE f == [k \in 0 .. 0 |-> e]
  <2>1. f = Body(f, 0)
    <3>1. \A k \in 0 .. 0 : k = 0
      OBVIOUS
    <3> QED
      BY <3>1
  <2> HIDE DEF f, Body
  <2> QED
    BY <1>2, <1>3, <2>1
<1>4. CASE m # 0
  <2>1. m - 1 \in Nat /\ m \in Nat /\ ~(m <= m - 1)
    BY <1>2, <1>4
  <2>2. m - 1 \notin bad
    BY <1>2, <2>1
  <2>3. PICK f : f = Body(f, m - 1)
    <3> HIDE DEF Body
    <3> QED
      BY <2>1, <2>2
  <2> DEFINE g == [k \in 0 .. m |-> IF k = m THEN AppendedNew(f[m - 1], order[m], used[order[m]]) ELSE f[k]]
  <2>4. \A k \in 0 .. m - 1 : f[k] = IF k = 0 THEN e ELSE AppendedNew(f[k - 1], order[k], used[order[k]])
    BY <2>3
  <2>5. \A k \in 0 .. m : k = m \/ k \in 0 .. m - 1
    BY <2>1
  <2>6. \A k \in 0 .. m - 1 : k # m /\ k \in 0 .. m
    BY <2>1
  <2>7. \A k \in 0 .. m : k # 0 => k - 1 \in 0 .. m - 1
    BY <2>1
  <2>8. g[m] = AppendedNew(f[m - 1], order[m], used[order[m]]) /\ \A k \in 0 .. m - 1 : g[k] = f[k]
    BY <2>1, <2>6
  <2>9. g = [k \in 0 .. m |-> g[k]]
    OBVIOUS
  <2> HIDE DEF g
  <2>10. \A k \in 0 .. m : g[k] = IF k = 0 THEN e ELSE AppendedNew(g[k - 1], order[k], used[order[k]])
    <3> SUFFICES ASSUME NEW k \in 0 .. m
                 PROVE  g[k] = IF k = 0 THEN e ELSE AppendedNew(g[k - 1], order[k], used[order[k]])
      OBVIOUS
    <3>1. CASE k = m
      <4>1. k # 0 /\ g[k - 1] = f[m - 1]
        BY <1>4, <2>7, <2>8, <3>1
      <4> QED
        BY <2>8, <3>1, <4>1
    <3>2. CASE k \in 0 .. m - 1
      <4>1. k # 0 => g[k - 1] = f[k - 1]
        BY <2>7, <2>8
      <4> QED
        BY <2>4, <2>8, <3>2, <4>1
    <3> QED
      BY <2>5, <3>1, <3>2
  <2>11. g = Body(g, m)
    BY <2>9, <2>10
  <2> HIDE DEF Body
  <2> QED
    BY <1>2, <2>11
<1> QED
  BY <1>3, <1>4

\* They lose nothing but the line that the first of them is glued to.
LEMMA AppendedAllFits ==
  ASSUME NEW e, EnvFits(e), e.exists, NEW order \in Seq(Key), NEW used,
         \A i \in DOMAIN order : used[order[i]] \in {"empty", "secret"}
  PROVE  /\ EnvFits(AppendedAll(e, order, used))
         /\ Len(AppendedAll(e, order, used).lines) <= Len(e.lines) + Len(order)
         /\ NothingLost(e, AppendedAll(e, order, used))
<1> DEFINE n == Len(order)
           Body(f) == [k \in 0 .. Len(order) |->
                         IF k = 0 THEN e ELSE AppendedNew(f[k - 1], order[k], used[order[k]])]
           Each == CHOOSE f : f = Body(f)
<1>1. AppendedAll(e, order, used) = Each[Len(order)]
  BY DEF AppendedAll
<1>2. n \in Nat /\ DOMAIN order = 1 .. n
  OBVIOUS
<1>3. \E f : f = Body(f)
  <2>1. PICK f : IsWritten(f, e, order, used, Len(order))
    BY <1>2, WrittenExists
  <2>2. f = Body(f)
    BY <2>1 DEF IsWritten
  <2> HIDE DEF Body
  <2> QED
    BY <2>2
<1>4. Each = Body(Each)
  <2> HIDE DEF Body
  <2> QED
    BY <1>3
<1> HIDE DEF Each
<1>5. /\ Each[0] = e
      /\ \A k \in 1 .. n : Each[k] = AppendedNew(Each[k - 1], order[k], used[order[k]])
  <2>1. 0 \in 0 .. n /\ \A k \in 1 .. n : k \in 0 .. n /\ k # 0
    BY <1>2
  <2> QED
    BY <1>4, <2>1
<1> HIDE DEF n
<1> DEFINE Fits(k) == /\ EnvFits(Each[k]) /\ Each[k].exists
                      /\ (Each[k] = e \/ Each[k].ended)
                      /\ Len(Each[k].lines) <= Len(e.lines) + k
                      /\ NothingLost(e, Each[k])
           bad == {k \in 0 .. n : ~Fits(k)}
<1>6. Fits(0)
  <2>1. NothingLost(e, e) /\ Len(e.lines) \in Nat
    BY DEF NothingLost, EnvFits
  <2> QED
    BY <1>5, <2>1
<1>7. ASSUME NEW k \in 1 .. n, Fits(k - 1)
      PROVE  Fits(k)
  <2> DEFINE w == Each[k - 1]
             f == Each[k]
  <2>1. order[k] \in Key /\ used[order[k]] \in {"empty", "secret"}
    BY <1>2
  <2>2. f = AppendedNew(w, order[k], used[order[k]])
    BY <1>5
  <2>3. EnvFits(w) /\ w.exists /\ NothingLost(e, w) /\ Len(w.lines) <= Len(e.lines) + (k - 1)
    BY <1>7
  <2>4. w = e \/ w.ended
    BY <1>7
  <2>5. /\ EnvFits(f) /\ f.exists /\ (f = w \/ f.ended)
        /\ Len(f.lines) <= Len(w.lines) + 1 /\ NothingLost(w, f)
    BY <2>1, <2>2, <2>3, NewFits
  <2>6. NothingLost(e, f)
    <3>1. CASE w = e
      BY <2>5, <3>1
    <3>2. CASE w.ended
      BY <2>3, <2>5, <3>2, LostNever
    <3> QED
      BY <2>4, <3>1, <3>2
  <2>7. Len(f.lines) <= Len(e.lines) + k
    <3>1. Len(f.lines) \in Nat /\ Len(w.lines) \in Nat /\ Len(e.lines) \in Nat /\ k \in Nat
      BY <1>2, <2>3, <2>5 DEF EnvFits
    <3>2. Len(f.lines) <= Len(w.lines) + 1 /\ Len(w.lines) <= Len(e.lines) + (k - 1)
      BY <2>3, <2>5
    <3> HIDE DEF w, f
    <3> QED
      BY <3>1, <3>2
  <2>8. f = e \/ f.ended
    BY <2>4, <2>5
  <2> HIDE DEF w, f
  <2>9. EnvFits(f) /\ f.exists /\ (f = e \/ f.ended) /\ Len(f.lines) <= Len(e.lines) + k /\ NothingLost(e, f)
    BY <2>5, <2>6, <2>7, <2>8
  <2> QED
    BY <2>9 DEF f
<1> HIDE DEF Fits
<1>8. bad = {}
  <2> SUFFICES ASSUME bad # {} PROVE FALSE
    OBVIOUS
  <2>1. bad \in SUBSET Nat
    BY <1>2
  <2>2. PICK k \in bad : \A y \in bad : k <= y
    BY <2>1, Smallest
  <2>3. k \in 0 .. n /\ ~Fits(k) /\ k # 0
    BY <1>6, <2>2
  <2>4. k \in 1 .. n /\ k - 1 \in 0 .. n /\ ~(k <= k - 1)
    BY <1>2, <2>3
  <2>5. Fits(k - 1)
    BY <2>2, <2>4
  <2> QED
    BY <1>7, <2>3, <2>4, <2>5
<1>9. Fits(n)
  BY <1>2, <1>8
<1> QED
  BY <1>1, <1>9 DEF Fits, n

\* The files of the wizard's step for the models.
LEMMA ModelsFit ==
  ASSUME EnvFits(env), env.exists, Len(env.lines) + Len(Slot) <= MaxLines,
         NEW pick \in [Agents -> Provider], NEW f \in LLMEnvs(pick)
  PROVE  EnvFits(f) /\ NothingLost(env, f) /\ Len(f.lines) <= MaxLines
<1> DEFINE used == UsedProviders(pick)
           picked == {pick[Slot[i]] : i \in Live}
           n == Cardinality(picked)
<1>1. DOMAIN Slot = 1 .. Len(Slot) /\ Len(Slot) \in Nat /\ \A i \in Live : Slot[i] \in Agents
      /\ Live \subseteq DOMAIN Slot
  BY SecretsAssumption DEF Agents, Live
<1>2. DOMAIN used = picked /\ \A p \in picked : used[p] \in {"empty", "secret"}
  BY DEF UsedProviders
<1>3. picked \subseteq Provider
  BY <1>1
<1> HIDE DEF used, picked
<1>4. PICK order \in [1 .. n -> picked] : f = AppendedAll(env, order, used)
  BY <1>2 DEF LLMEnvs, used
<1>5. n \in Nat /\ n <= Len(Slot)
  <2> DEFINE I == 1 .. Len(Slot)
             h == [i \in Live |-> pick[Slot[i]]]
  <2>1. IsFiniteSet(I) /\ Cardinality(I) = Len(Slot)
    <3>1. 1 \in Int /\ Len(Slot) \in Int
      BY <1>1
    <3>2. IsFiniteSet(I) /\ Cardinality(I) = IF 1 > Len(Slot) THEN 0 ELSE Len(Slot) - 1 + 1
      BY <3>1, FS_Interval
    <3> QED
      BY <1>1, <3>2
  <2>2. h \in Surjection(Live, picked)
    <3>1. h \in [Live -> picked] /\ \A t \in picked : \E i \in Live : h[i] = t
      BY <1>1 DEF picked
    <3> HIDE DEF h
    <3> QED
      BY <3>1 DEF Surjection
  <2>3. Live \subseteq I
    BY <1>1
  <2> HIDE DEF h, I
  <2>4. IsFiniteSet(Live) /\ Cardinality(Live) <= Cardinality(I)
    BY <2>1, <2>3, FS_Subset
  <2>5. IsFiniteSet(picked) /\ Cardinality(picked) <= Cardinality(Live)
    BY <2>2, <2>4, FS_Surjection
  <2>6. Cardinality(Live) \in Nat /\ Cardinality(picked) \in Nat
    BY <2>4, <2>5, FS_CardinalityType
  <2> QED
    BY <1>1, <2>1, <2>4, <2>5, <2>6
<1> HIDE DEF n
<1>6. order \in Seq(Key) /\ Len(order) = n /\ DOMAIN order = 1 .. n
  <2>1. picked \subseteq Key
    BY <1>3 DEF Key
  <2> QED
    BY <1>4, <1>5, <2>1
<1>7. \A i \in DOMAIN order : used[order[i]] \in {"empty", "secret"}
  BY <1>2, <1>4, <1>6
<1>8. EnvFits(f) /\ NothingLost(env, f) /\ Len(f.lines) <= Len(env.lines) + Len(order)
  BY <1>4, <1>6, <1>7, AppendedAllFits
<1>9. Len(f.lines) \in Nat /\ Len(env.lines) \in Nat
  BY <1>8 DEF EnvFits
<1>10. Len(f.lines) <= MaxLines
  BY <1>1, <1>5, <1>6, <1>8, <1>9, SecretsAssumption
<1> QED
  BY <1>8, <1>10

-----------------------------------------------------------------------------
\* The writes that are left: those of .env come last among the files, and lose
\* nothing that is in .env now.
TextNames == {"rewrite", "append"}
FileNames == {"user", "vault", "auth"} \union TextNames

WritesType(w) ==
  /\ DOMAIN w = {"files", "slots", "env", "agent", "warns"}
  /\ w.files \in Seq(FileNames) /\ w.slots \subseteq DOMAIN Slot
  /\ w.agent \in [Agents -> AgentForm] /\ w.warns \in BOOLEAN

EnvIsLast(w, e) ==
  \A i \in DOMAIN w.files : w.files[i] \in TextNames =>
    /\ i = Len(w.files)
    /\ EnvFits(w.env) /\ Len(w.env.lines) <= MaxLines /\ NothingLost(e, w.env)

\* An agent for which a provider was chosen has it, or its file is among those to
\* be written with it.
Pending(w) == {Slot[i] : i \in w.slots}
ChoicesFit(w, files, choice) ==
  /\ \A a \in Pending(w) : w.agent[a].is = "good"
  /\ \A a \in Agents : choice[a] # None =>
       LET kept == IF a \in Pending(w) THEN w.agent[a] ELSE files[a]
       IN kept.is = "good" /\ kept.provider = choice[a]

SecretsInductive ==
  /\ disk \in [{"home", "user", "vault", "auth"} -> FileForm]
  /\ EnvFits(env) /\ Len(env.lines) <= MaxLines
  /\ agent \in [Agents -> AgentForm]
  /\ step \in 0..6
  /\ WritesType(writes) /\ EnvIsLast(writes, env) /\ ChoicesFit(writes, agent, chosen)
  /\ failures \in 0..MaxFailures
  /\ chosen \in [Agents -> Provider \union {None}]

LEMMA NoLinesFit == <<>> \in Seq(Line) /\ Len(<<>>) = 0 /\ TRUE \in BOOLEAN /\ FALSE \in BOOLEAN
  OBVIOUS

LEMMA FormsFit ==
  /\ \A form \in FileForm : Blank(form) \in AgentForm /\ Blank(form).provider = None /\ Blank(form).is = form
  /\ \A p, q \in Provider : /\ AgentFileOf(p, q) \in AgentForm
                            /\ AgentFileOf(p, q).is = "good" /\ AgentFileOf(p, q).provider = p
  /\ Shipped \in AgentForm /\ Shipped.is = "good"
BY SecretsAssumption DEF Blank, AgentFileOf, AgentForm, FileForm, Shipped

\* A new .env loses nothing of one that is not there.
LEMMA EmptyFits ==
  /\ EnvFits(EmptyEnv) /\ Len(EmptyEnv.lines) <= MaxLines
  /\ EnvFits([EmptyEnv EXCEPT !.exists = TRUE]) /\ Len([EmptyEnv EXCEPT !.exists = TRUE].lines) <= MaxLines
  /\ \A f : EnvFits(env) /\ ~env.exists => NothingLost(env, f)
<1> DEFINE f == [EmptyEnv EXCEPT !.exists = TRUE]
<1>1. EmptyEnv.exists = FALSE /\ EmptyEnv.lines = <<>> /\ EmptyEnv.ended = TRUE
      /\ DOMAIN EmptyEnv = {"exists", "lines", "ended"}
  BY DEF EmptyEnv
<1>2. f.exists = TRUE /\ f.lines = <<>> /\ f.ended = TRUE /\ DOMAIN f = {"exists", "lines", "ended"}
  BY DEF EmptyEnv
<1> HIDE DEF f
<1>3. EnvFits(EmptyEnv) /\ EnvFits(f)
  BY <1>1, <1>2, NoLinesFit DEF EnvFits
<1>4. Len(EmptyEnv.lines) <= MaxLines /\ Len(f.lines) <= MaxLines
  BY <1>1, <1>2, NoLinesFit, SecretsAssumption
<1>5. ASSUME EnvFits(env), ~env.exists, NEW g PROVE NothingLost(env, g)
  <2>1. env.lines = <<>> /\ DOMAIN <<>> = {}
    BY <1>5 DEF EnvFits
  <2> QED
    BY <2>1 DEF NothingLost, Reads
<1> QED
  BY <1>3, <1>4, <1>5 DEF f

LEMMA NoWritesFit ==
  /\ WritesType(NoWrites)
  /\ NoWrites.files = <<>> /\ NoWrites.slots = {} /\ NoWrites.agent = [a \in Agents |-> Shipped]
  /\ \A e : EnvIsLast(NoWrites, e)
<1>1. /\ DOMAIN NoWrites = {"files", "slots", "env", "agent", "warns"}
      /\ NoWrites.files = <<>> /\ NoWrites.slots = {} /\ NoWrites.agent = [a \in Agents |-> Shipped]
      /\ NoWrites.warns = FALSE
  BY DEF NoWrites
<1>2. <<>> \in Seq(FileNames) /\ DOMAIN <<>> = {}
  OBVIOUS
<1>3. [a \in Agents |-> Shipped] \in [Agents -> AgentForm]
  BY FormsFit
<1> QED
  BY <1>1, <1>2, <1>3 DEF WritesType, EnvIsLast

LEMMA SecretsStart == SecretsInit => SecretsInductive
<1> SUFFICES ASSUME SecretsInit PROVE SecretsInductive
  OBVIOUS
<1>1. disk \in [{"home", "user", "vault", "auth"} -> FileForm]
  <2>1. DOMAIN disk = {"home", "user", "vault", "auth"}
    BY DEF SecretsInit
  <2>2. disk = [x \in DOMAIN disk |-> disk[x]]
    BY DEF SecretsInit
  <2>3. disk["home"] = "absent" /\ disk["user"] = "absent" /\ disk["vault"] = "absent"
        /\ disk["auth"] = "absent"
    BY DEF SecretsInit
  <2>4. \A x \in DOMAIN disk : disk[x] \in FileForm
    BY <2>1, <2>3 DEF FileForm
  <2> QED
    BY <2>1, <2>2, <2>4, Zenon
<1>2. agent \in [Agents -> AgentForm]
  <2>1. Blank("absent") \in AgentForm
    BY FormsFit DEF FileForm
  <2> QED
    BY <2>1 DEF SecretsInit
<1>3. env = EmptyEnv /\ writes = NoWrites /\ step \in 0..6 /\ failures \in 0..MaxFailures
  BY SecretsAssumption DEF SecretsInit
<1>4. chosen \in [Agents -> Provider \union {None}] /\ \A a \in Agents : chosen[a] = None
  BY DEF SecretsInit
<1>5. ChoicesFit(writes, agent, chosen)
  BY <1>3, <1>4, NoWritesFit DEF ChoicesFit, Pending
<1> QED
  BY <1>1, <1>2, <1>3, <1>4, <1>5, EmptyFits, NoWritesFit DEF SecretsInductive

-----------------------------------------------------------------------------
\* After a write, or when a step begins, the writes that are left are these or none.
LEMMA ContinueFits ==
  ASSUME NEW w, Continue(w), step \in 0..6, WritesType(w), EnvIsLast(w, env'), ChoicesFit(w, agent', chosen')
  PROVE  /\ WritesType(writes') /\ EnvIsLast(writes', env') /\ ChoicesFit(writes', agent', chosen')
         /\ step' \in 0..6
<1>1. CASE w.files = <<>> /\ w.slots = {}
  <2>1. writes' = NoWrites /\ step' \in 0..6
    BY <1>1 DEF Continue, NextStep
  <2>2. Pending(w) = {} /\ Pending(NoWrites) = {}
    BY <1>1, NoWritesFit DEF Pending
  <2>3. ChoicesFit(NoWrites, agent', chosen')
    BY <2>2 DEF ChoicesFit
  <2> QED
    BY <2>1, <2>3, NoWritesFit
<1>2. CASE ~(w.files = <<>> /\ w.slots = {})
  BY <1>2 DEF Continue
<1> QED
  BY <1>1, <1>2

\* Nothing is claimed for the agents whose files were not written.
LEMMA StopFits ==
  ASSUME SecretsInductive, StopSetup, \A a \in Agents \ Pending(writes) : agent'[a] = agent[a]
  PROVE  /\ WritesType(writes') /\ \A e : EnvIsLast(writes', e)
         /\ ChoicesFit(writes', agent', chosen')
         /\ step' \in 0..6 /\ chosen' \in [Agents -> Provider \union {None}]
<1>1. writes' = NoWrites /\ step' = 0
      /\ chosen' = [a \in Agents |-> IF a \in Pending(writes) THEN None ELSE chosen[a]]
  BY DEF StopSetup, Unkept, Pending
<1>2. Pending(NoWrites) = {}
  BY NoWritesFit DEF Pending
<1>3. /\ chosen \in [Agents -> Provider \union {None}]
      /\ \A a \in Agents \ Pending(writes) : chosen[a] # None =>
           agent[a].is = "good" /\ agent[a].provider = chosen[a]
  BY DEF SecretsInductive, ChoicesFit
<1>4. \A a \in Agents : chosen'[a] # None => a \notin Pending(writes) /\ chosen'[a] = chosen[a]
  BY <1>1
<1>5. ChoicesFit(NoWrites, agent', chosen')
  BY <1>2, <1>3, <1>4 DEF ChoicesFit
<1>6. step' \in 0..6 /\ chosen' \in [Agents -> Provider \union {None}]
  BY <1>1, <1>3
<1> QED
  BY <1>1, <1>5, <1>6, NoWritesFit

\* What no step does: lose a secret, a file or an agent, but for a write that failed.
SecretsKept ==
  /\ ~FailsFor("rewrite") => NothingLost(env, env')
  /\ \A f \in {"user", "vault", "auth"} : disk[f] = "good" /\ ~FailsFor(f) => disk'[f] = "good"
  /\ \A a \in Agents : agent[a].is = "good" /\ ~FailsForAgent(a) => agent'[a].is = "good"

\* A step that begins writes nothing.
LEMMA BeginsKeeps ==
  ASSUME SecretsInductive, UNCHANGED <<env, agent, failures>>,
         disk' = disk \/ disk' = [disk EXCEPT !.home = "good"]
  PROVE  /\ SecretsKept
         /\ disk' \in [{"home", "user", "vault", "auth"} -> FileForm]
         /\ EnvFits(env') /\ Len(env'.lines) <= MaxLines
         /\ agent' \in [Agents -> AgentForm] /\ failures' \in 0..MaxFailures
<1>1. /\ disk \in [{"home", "user", "vault", "auth"} -> FileForm] /\ "good" \in FileForm
      /\ EnvFits(env) /\ Len(env.lines) <= MaxLines
      /\ agent \in [Agents -> AgentForm] /\ failures \in 0..MaxFailures
  BY DEF SecretsInductive, FileForm
<1>2. NothingLost(env, env)
  BY DEF NothingLost
<1>3. \A f \in {"user", "vault", "auth"} : disk'[f] = disk[f]
  BY <1>1
<1>4. disk' \in [{"home", "user", "vault", "auth"} -> FileForm]
  BY <1>1
<1>5. SecretsKept
  BY <1>2, <1>3 DEF SecretsKept
<1> QED
  BY <1>1, <1>4, <1>5

\* A step or a command that writes files, .env last.
LEMMA FilesBegin ==
  ASSUME SecretsInductive, NEW files \in Seq(FileNames), NEW e, Begins(OnlyFiles(files, e)),
         UNCHANGED <<disk, env, agent, failures, chosen>>,
         \A i \in DOMAIN files : files[i] \in TextNames =>
           i = Len(files) /\ EnvFits(e) /\ Len(e.lines) <= MaxLines /\ NothingLost(env, e)
  PROVE  SecretsInductive' /\ SecretsKept
<1> DEFINE w == OnlyFiles(files, e)
<1>1. /\ DOMAIN w = {"files", "slots", "env", "agent", "warns"}
      /\ w.files = files /\ w.env = e /\ w.slots = {} /\ w.agent = NoWrites.agent /\ w.warns = FALSE
  BY DEF OnlyFiles, NoWrites
<1> HIDE DEF w
<1>2. WritesType(w)
  BY <1>1, NoWritesFit DEF WritesType
<1>3. EnvIsLast(w, env')
  BY <1>1 DEF EnvIsLast
<1>4. Pending(w) = {} /\ Pending(writes) = {}
  BY <1>1 DEF Begins, Writing, Pending
<1>5. ChoicesFit(w, agent', chosen')
  BY <1>4 DEF SecretsInductive, ChoicesFit
<1>6. Continue(w) /\ step \in 0..6 /\ chosen' \in [Agents -> Provider \union {None}]
  BY DEF w, Begins, SecretsInductive
<1>7. /\ WritesType(writes') /\ EnvIsLast(writes', env') /\ ChoicesFit(writes', agent', chosen')
      /\ step' \in 0..6
  BY <1>2, <1>3, <1>5, <1>6, ContinueFits
<1> QED
  BY <1>6, <1>7, BeginsKeeps DEF SecretsInductive

\* An .env with one key more.
LEMMA KeysFit ==
  ASSUME SecretsInductive, Len(env.lines) < MaxLines, NEW k \in Key
  PROVE  /\ EnvFits(AppendEnvVar(k)) /\ Len(AppendEnvVar(k).lines) <= MaxLines
         /\ NothingLost(env, AppendEnvVar(k))
         /\ EnvFits(SetEnvVar(k)) /\ Len(SetEnvVar(k).lines) <= MaxLines
         /\ NothingLost(env, SetEnvVar(k))
<1>1. EnvFits(env) /\ Len(env.lines) <= MaxLines /\ Len(env.lines) \in Nat /\ NothingLost(env, env)
  BY DEF SecretsInductive, EnvFits, NothingLost
<1>2. CASE AppendEnvVar(k) = env
  BY <1>1, <1>2, SetFits
<1>3. CASE AppendEnvVar(k) = Appended(env, k, "secret") /\ env.exists
  <2>1. EnvFits(AppendEnvVar(k)) /\ NothingLost(env, AppendEnvVar(k))
        /\ Len(AppendEnvVar(k).lines) <= Len(env.lines) + 1
    BY <1>1, <1>3, AppendedFits
  <2>2. Len(AppendEnvVar(k).lines) \in Nat
    BY <2>1 DEF EnvFits
  <2>3. Len(AppendEnvVar(k).lines) <= MaxLines
    BY <1>1, <2>1, <2>2, SecretsAssumption
  <2> QED
    BY <1>1, <2>1, <2>3, SetFits
<1> QED
  BY <1>2, <1>3 DEF AppendEnvVar

LEMMA FileSteps ==
  ASSUME SecretsInductive, UserIdentity \/ Vault \/ ChannelStep \/ Auth \/ SetupChannel \/ SkillInstallRequirements
  PROVE  SecretsInductive' /\ SecretsKept
<1>1. ChannelKey \in Key /\ ServerKey \in Key /\ SkillKey \in Key
  BY DEF Key
<1>2. EnvFits(env)
  BY DEF SecretsInductive
<1>3. /\ <<"user">> \in Seq(FileNames) /\ <<"vault">> \in Seq(FileNames)
      /\ <<"append">> \in Seq(FileNames) /\ <<"rewrite">> \in Seq(FileNames)
      /\ <<"vault", "rewrite">> \in Seq(FileNames) /\ <<"auth", "append">> \in Seq(FileNames)
  BY DEF FileNames, TextNames
<1>4. /\ \A i \in DOMAIN <<"user">> : <<"user">>[i] \notin TextNames
      /\ \A i \in DOMAIN <<"vault">> : <<"vault">>[i] \notin TextNames
      /\ \A f : DOMAIN <<f>> = {1} /\ Len(<<f>>) = 1
      /\ \A f, g : DOMAIN <<f, g>> = {1, 2} /\ Len(<<f, g>>) = 2 /\ <<f, g>>[1] = f
      /\ "vault" \notin TextNames /\ "auth" \notin TextNames
  BY DEF TextNames
<1>5. CASE UserIdentity
  <2>1. Begins(OnlyFiles(<<"user">>, env)) /\ UNCHANGED <<disk, env, agent, failures, chosen>>
    BY <1>5 DEF UserIdentity
  <2> QED
    BY <1>3, <1>4, <2>1, FilesBegin
<1>6. CASE Vault
  <2> DEFINE e == [EmptyEnv EXCEPT !.exists = TRUE]
  <2>1. Begins(OnlyFiles(VaultFiles, e)) /\ UNCHANGED <<disk, env, agent, failures, chosen>>
    BY <1>6 DEF Vault
  <2>2. EnvFits(e) /\ Len(e.lines) <= MaxLines /\ (~env.exists => NothingLost(env, e))
    BY <1>2, EmptyFits
  <2> HIDE DEF e
  <2>3. CASE env.exists
    <3>1. Begins(OnlyFiles(<<"vault">>, e))
      BY <2>1, <2>3 DEF VaultFiles
    <3> QED
      BY <1>3, <1>4, <2>1, <3>1, FilesBegin
  <2>4. CASE ~env.exists
    <3>1. Begins(OnlyFiles(<<"vault", "rewrite">>, e))
      BY <2>1, <2>4 DEF VaultFiles
    <3>2. \A i \in DOMAIN <<"vault", "rewrite">> : <<"vault", "rewrite">>[i] \in TextNames =>
            i = Len(<<"vault", "rewrite">>)
      BY <1>4
    <3> QED
      BY <1>3, <2>1, <2>2, <2>4, <3>1, <3>2, FilesBegin
  <2> QED
    BY <2>3, <2>4
<1>7. ASSUME NEW k \in Key, Len(env.lines) < MaxLines, UNCHANGED <<disk, env, agent, failures, chosen>>,
             \/ Begins(OnlyFiles(<<"append">>, AppendEnvVar(k)))
             \/ Begins(OnlyFiles(<<"auth", "append">>, AppendEnvVar(k)))
             \/ Begins(OnlyFiles(<<"rewrite">>, SetEnvVar(k)))
      PROVE  SecretsInductive' /\ SecretsKept
  <2>1. /\ EnvFits(AppendEnvVar(k)) /\ Len(AppendEnvVar(k).lines) <= MaxLines
        /\ NothingLost(env, AppendEnvVar(k))
        /\ EnvFits(SetEnvVar(k)) /\ Len(SetEnvVar(k).lines) <= MaxLines
        /\ NothingLost(env, SetEnvVar(k))
    BY <1>7, KeysFit
  <2>2. CASE Begins(OnlyFiles(<<"append">>, AppendEnvVar(k)))
    <3>1. \A i \in DOMAIN <<"append">> : i = Len(<<"append">>)
      BY <1>4
    <3> QED
      BY <1>3, <1>7, <2>1, <2>2, <3>1, FilesBegin
  <2>3. CASE Begins(OnlyFiles(<<"auth", "append">>, AppendEnvVar(k)))
    <3>1. \A i \in DOMAIN <<"auth", "append">> : <<"auth", "append">>[i] \in TextNames =>
            i = Len(<<"auth", "append">>)
      BY <1>4
    <3> QED
      BY <1>3, <1>7, <2>1, <2>3, <3>1, FilesBegin
  <2>4. CASE Begins(OnlyFiles(<<"rewrite">>, SetEnvVar(k)))
    <3>1. \A i \in DOMAIN <<"rewrite">> : i = Len(<<"rewrite">>)
      BY <1>4
    <3> QED
      BY <1>3, <1>7, <2>1, <2>4, <3>1, FilesBegin
  <2> QED
    BY <1>7, <2>2, <2>3, <2>4
<1>8. CASE Auth
  BY <1>1, <1>7, <1>8 DEF Auth
<1>9. CASE SetupChannel
  BY <1>1, <1>7, <1>9 DEF SetupChannel, Command
<1>10. CASE SkillInstallRequirements
  BY <1>1, <1>7, <1>10 DEF SkillInstallRequirements, Command
<1>11. CASE ChannelStep
  <2>1. CASE Begins(NoWrites) /\ UNCHANGED <<disk, env, agent, failures, chosen>>
    <3>1. Continue(NoWrites) /\ step \in 0..6 /\ chosen' \in [Agents -> Provider \union {None}]
      BY <2>1 DEF Begins, SecretsInductive
    <3>2. Pending(NoWrites) = {} /\ Pending(writes) = {}
      BY <2>1, NoWritesFit DEF Begins, Writing, Pending
    <3>3. ChoicesFit(NoWrites, agent', chosen')
      BY <2>1, <3>2 DEF SecretsInductive, ChoicesFit
    <3>4. /\ WritesType(writes') /\ EnvIsLast(writes', env') /\ ChoicesFit(writes', agent', chosen')
          /\ step' \in 0..6
      BY <3>1, <3>3, ContinueFits, NoWritesFit
    <3> QED
      BY <2>1, <3>1, <3>4, BeginsKeeps DEF SecretsInductive
  <2>2. CASE /\ Len(env.lines) < MaxLines /\ UNCHANGED <<disk, env, agent, failures, chosen>>
             /\ Begins(OnlyFiles(<<"append">>, AppendEnvVar(ChannelKey)))
    BY <1>1, <1>7, <2>2
  <2> QED
    BY <1>11, <2>1, <2>2 DEF ChannelStep
<1> QED
  BY <1>5, <1>6, <1>8, <1>9, <1>10, <1>11

\* A step or a command that writes agents' files, after .env or alone.
LEMMA AgentsBegin ==
  ASSUME SecretsInductive, NEW w, Begins(w), WritesType(w), EnvIsLast(w, env),
         \A a \in Pending(w) : w.agent[a].is = "good",
         \A a \in Pending(w) : chosen'[a] # None => w.agent[a].provider = chosen'[a],
         \A a \in Agents \ Pending(w) : chosen'[a] # None => chosen'[a] = chosen[a],
         chosen' \in [Agents -> Provider \union {None}],
         UNCHANGED <<env, agent, failures>>,
         disk' = disk \/ disk' = [disk EXCEPT !.home = "good"]
  PROVE  SecretsInductive' /\ SecretsKept
<1>1. Pending(writes) = {}
  BY DEF Begins, Writing, Pending
<1>2. \A a \in Agents : chosen[a] # None => agent[a].is = "good" /\ agent[a].provider = chosen[a]
  BY <1>1 DEF SecretsInductive, ChoicesFit
<1>3. ChoicesFit(w, agent', chosen')
  BY <1>2 DEF ChoicesFit
<1>4. Continue(w) /\ step \in 0..6
  BY DEF Begins, SecretsInductive
<1>5. /\ WritesType(writes') /\ EnvIsLast(writes', env') /\ ChoicesFit(writes', agent', chosen')
      /\ step' \in 0..6
  BY <1>3, <1>4, ContinueFits
<1> QED
  BY <1>5, BeginsKeeps DEF SecretsInductive

LEMMA AgentSteps ==
  ASSUME SecretsInductive,
         Bootstrap \/ LLM \/ \E i \in DOMAIN Slot, p \in Provider : AgentSetProvider(i, p)
  PROVE  SecretsInductive' /\ SecretsKept
<1>1. /\ EnvFits(env) /\ agent \in [Agents -> AgentForm]
      /\ chosen \in [Agents -> Provider \union {None}]
  BY DEF SecretsInductive
<1>2. \A i \in DOMAIN Slot : Slot[i] \in Agents
  BY DEF Agents
<1>3. ~Writing => \A a \in Agents : chosen[a] # None => agent[a].is = "good" /\ agent[a].provider = chosen[a]
  BY DEF SecretsInductive, ChoicesFit, Writing, Pending
<1>4. CASE Bootstrap
  <2> DEFINE w == [NoWrites EXCEPT !.slots = copyFile]
  <2>1. /\ DOMAIN w = {"files", "slots", "env", "agent", "warns"}
        /\ w.files = <<>> /\ w.slots = copyFile /\ w.agent = [a \in Agents |-> Shipped] /\ w.warns = FALSE
    BY DEF NoWrites
  <2>2. Begins(w) /\ UNCHANGED <<env, agent, failures, chosen>> /\ disk' = [disk EXCEPT !.home = "good"]
    BY <1>4 DEF Bootstrap
  <2> HIDE DEF w
  <2>3. WritesType(w)
    BY <2>1, NoWritesFit DEF WritesType, copyFile
  <2>4. EnvIsLast(w, env)
    BY <2>1 DEF EnvIsLast
  <2>5. \A a \in Pending(w) : a \in Agents /\ agent[a].is = "absent"
    BY <1>2, <2>1 DEF Pending, copyFile
  <2>6. \A a \in Pending(w) : w.agent[a].is = "good"
    BY <2>1, <2>5, FormsFit
  <2>7. \A a \in Pending(w) : chosen'[a] = None
    BY <1>3, <2>2, <2>5 DEF Begins
  <2> QED
    BY <1>1, <2>2, <2>3, <2>4, <2>6, <2>7, AgentsBegin
<1>5. CASE LLM
  <2>0. PICK pick \in [Agents -> Provider] : \E e \in LLMEnvs(pick) :
          /\ Begins([files |-> <<"rewrite">>, slots |-> Live, env |-> e, warns |-> TRUE,
                     agent |-> [a \in Agents |-> updateAgentLLM(a, pick[a])]])
          /\ chosen' = [a \in Agents |-> IF agent[a].is = "good" THEN pick[a] ELSE chosen[a]]
    BY <1>5 DEF LLM
  <2>1. PICK e \in LLMEnvs(pick) :
          /\ Begins([files |-> <<"rewrite">>, slots |-> Live, env |-> e, warns |-> TRUE,
                     agent |-> [a \in Agents |-> updateAgentLLM(a, pick[a])]])
          /\ chosen' = [a \in Agents |-> IF agent[a].is = "good" THEN pick[a] ELSE chosen[a]]
    BY <2>0
  <2> DEFINE w == [files |-> <<"rewrite">>, slots |-> Live, env |-> e, warns |-> TRUE,
                   agent |-> [a \in Agents |-> updateAgentLLM(a, pick[a])]]
  <2>2. /\ DOMAIN w = {"files", "slots", "env", "agent", "warns"}
        /\ w.files = <<"rewrite">> /\ w.slots = Live /\ w.env = e /\ w.warns = TRUE
        /\ w.agent = [a \in Agents |-> updateAgentLLM(a, pick[a])]
    OBVIOUS
  <2>3. Begins(w) /\ UNCHANGED <<disk, env, agent, failures>> /\ env.exists
        /\ Len(env.lines) + Len(Slot) <= MaxLines
    BY <1>5, <2>1 DEF LLM
  <2> HIDE DEF w
  <2>4. EnvFits(e) /\ NothingLost(env, e) /\ Len(e.lines) <= MaxLines
    BY <1>1, <2>3, ModelsFit
  <2>5. EnvIsLast(w, env)
    <3>1. DOMAIN <<"rewrite">> = {1} /\ Len(<<"rewrite">>) = 1
      OBVIOUS
    <3> QED
      BY <2>2, <2>4, <3>1 DEF EnvIsLast
  <2>6. \A i \in Live : agent[Slot[i]].is = "good" /\ i \in DOMAIN Slot
    BY DEF Live
  <2>7. \A a \in Agents : agent[a].provider \in Provider \union {None}
    BY <1>1 DEF AgentForm
  <2>8. \A a \in Agents : /\ updateAgentLLM(a, pick[a]) \in AgentForm
                          /\ updateAgentLLM(a, pick[a]).is = "good"
                          /\ updateAgentLLM(a, pick[a]).provider = pick[a]
    BY <2>7 DEF updateAgentLLM, AgentFileOf, AgentForm, FileForm
  <2>9. WritesType(w)
    <3>1. <<"rewrite">> \in Seq(FileNames)
      BY DEF FileNames, TextNames
    <3>2. w.agent \in [Agents -> AgentForm]
      BY <2>2, <2>8
    <3> QED
      BY <2>2, <2>6, <3>1, <3>2 DEF WritesType
  <2>10. \A a \in Pending(w) : a \in Agents /\ agent[a].is = "good"
    BY <1>2, <2>2, <2>6 DEF Pending
  <2>11. \A a \in Agents : agent[a].is = "good" => a \in Pending(w)
    BY <2>2 DEF Pending, Live, Agents
  <2>12. \A a \in Pending(w) : w.agent[a].is = "good" /\ w.agent[a].provider = chosen'[a]
    BY <2>1, <2>2, <2>8, <2>10
  <2>13. \A a \in Agents \ Pending(w) : chosen'[a] = chosen[a]
    BY <2>1, <2>11
  <2>14. chosen' \in [Agents -> Provider \union {None}]
    BY <1>1, <2>1
  <2> QED
    BY <2>3, <2>5, <2>9, <2>12, <2>13, <2>14, AgentsBegin
<1>6. ASSUME NEW i \in DOMAIN Slot, NEW p \in Provider, AgentSetProvider(i, p)
      PROVE  SecretsInductive' /\ SecretsKept
  <2> DEFINE w == [NoWrites EXCEPT !.slots = {i}, !.agent[Slot[i]] = AgentFileOf(p, p)]
  <2>1. /\ DOMAIN w = {"files", "slots", "env", "agent", "warns"}
        /\ w.files = <<>> /\ w.slots = {i} /\ w.warns = FALSE
        /\ w.agent = [NoWrites.agent EXCEPT ![Slot[i]] = AgentFileOf(p, p)]
    BY DEF NoWrites
  <2>2. Begins(w) /\ UNCHANGED <<disk, env, agent, failures>> /\ chosen' = [chosen EXCEPT ![Slot[i]] = p]
    BY <1>6 DEF AgentSetProvider, Command
  <2> HIDE DEF w
  <2>3. NoWrites.agent \in [Agents -> AgentForm]
    BY NoWritesFit DEF WritesType
  <2>4. AgentFileOf(p, p) \in AgentForm /\ AgentFileOf(p, p).is = "good" /\ AgentFileOf(p, p).provider = p
    BY FormsFit
  <2>5. w.agent \in [Agents -> AgentForm] /\ w.agent[Slot[i]] = AgentFileOf(p, p)
    BY <1>2, <2>1, <2>3, <2>4
  <2>6. WritesType(w)
    BY <2>1, <2>5, NoWritesFit DEF WritesType
  <2>7. EnvIsLast(w, env)
    BY <2>1 DEF EnvIsLast
  <2>8. Pending(w) = {Slot[i]}
    BY <2>1 DEF Pending
  <2>9. \A a \in Pending(w) : w.agent[a].is = "good" /\ w.agent[a].provider = chosen'[a]
    BY <1>1, <1>2, <2>2, <2>4, <2>5, <2>8
  <2>10. \A a \in Agents \ Pending(w) : chosen'[a] = chosen[a]
    BY <1>1, <2>2, <2>8
  <2>11. chosen' \in [Agents -> Provider \union {None}]
    BY <1>1, <1>2, <2>2
  <2> QED
    BY <2>2, <2>6, <2>7, <2>9, <2>10, <2>11, AgentsBegin
<1> QED
  BY <1>4, <1>5, <1>6

\* One more file is written.
LEMMA FileWritten == SecretsInductive /\ SetupFileWritten => SecretsInductive' /\ SecretsKept
<1> SUFFICES ASSUME SecretsInductive, SetupFileWritten PROVE SecretsInductive' /\ SecretsKept
  OBVIOUS
<1> DEFINE f == Head(writes.files)
           w == [writes EXCEPT !.files = Tail(@)]
<1>1. /\ writes.files # <<>>
      /\ disk' = [g \in DOMAIN disk |-> IF g = f THEN "good" ELSE disk[g]]
      /\ env' = IF f \in TextNames THEN writes.env ELSE env
      /\ Continue(w) /\ UNCHANGED <<agent, failures, chosen>>
  BY DEF SetupFileWritten, TextNames
<1>2. /\ disk \in [{"home", "user", "vault", "auth"} -> FileForm] /\ "good" \in FileForm
      /\ EnvFits(env) /\ Len(env.lines) <= MaxLines
      /\ WritesType(writes) /\ EnvIsLast(writes, env) /\ ChoicesFit(writes, agent, chosen)
      /\ step \in 0..6
  BY DEF SecretsInductive, FileForm
<1>3. /\ DOMAIN w = {"files", "slots", "env", "agent", "warns"}
      /\ w.files = Tail(writes.files) /\ w.slots = writes.slots /\ w.env = writes.env
      /\ w.agent = writes.agent /\ w.warns = writes.warns
  BY <1>2 DEF WritesType
<1>4. /\ writes.files \in Seq(FileNames) /\ Len(writes.files) \in Nat \ {0}
      /\ 1 \in DOMAIN writes.files /\ writes.files[1] = f
      /\ Tail(writes.files) \in Seq(FileNames) /\ Len(Tail(writes.files)) = Len(writes.files) - 1
      /\ \A i \in DOMAIN Tail(writes.files) :
           i \in Nat /\ i + 1 \in DOMAIN writes.files /\ Tail(writes.files)[i] = writes.files[i + 1]
  BY <1>1, <1>2 DEF WritesType
<1>5. f \in TextNames =>
        /\ Tail(writes.files) = <<>>
        /\ EnvFits(writes.env) /\ Len(writes.env.lines) <= MaxLines /\ NothingLost(env, writes.env)
  <2> SUFFICES ASSUME f \in TextNames
               PROVE  /\ Tail(writes.files) = <<>>
                      /\ EnvFits(writes.env) /\ Len(writes.env.lines) <= MaxLines
                      /\ NothingLost(env, writes.env)
    OBVIOUS
  <2>1. /\ Len(writes.files) = 1
        /\ EnvFits(writes.env) /\ Len(writes.env.lines) <= MaxLines /\ NothingLost(env, writes.env)
    BY <1>2, <1>4 DEF EnvIsLast
  <2>2. Tail(writes.files) = <<>>
    BY <1>4, <2>1
  <2> QED
    BY <2>1, <2>2
<1> HIDE DEF w, f
<1>6. WritesType(w)
  BY <1>2, <1>3, <1>4 DEF WritesType
<1>7. EnvIsLast(w, env')
  <2>1. CASE f \in TextNames
    <3>1. DOMAIN w.files = {}
      BY <1>3, <1>5, <2>1
    <3> QED
      BY <3>1 DEF EnvIsLast
  <2>2. CASE f \notin TextNames
    <3>1. env' = env
      BY <1>1, <2>2
    <3>2. ASSUME NEW i \in DOMAIN w.files, w.files[i] \in TextNames
          PROVE  /\ i = Len(w.files)
                 /\ EnvFits(w.env) /\ Len(w.env.lines) <= MaxLines /\ NothingLost(env, w.env)
      <4>1. i \in Nat /\ i + 1 \in DOMAIN writes.files /\ writes.files[i + 1] \in TextNames
        BY <1>3, <1>4, <3>2
      <4>2. /\ i + 1 = Len(writes.files)
            /\ EnvFits(writes.env) /\ Len(writes.env.lines) <= MaxLines /\ NothingLost(env, writes.env)
        BY <1>2, <4>1 DEF EnvIsLast
      <4> QED
        BY <1>3, <1>4, <4>1, <4>2
    <3> QED
      BY <3>1, <3>2 DEF EnvIsLast
  <2> QED
    BY <2>1, <2>2
<1>8. Pending(w) = Pending(writes)
  BY <1>3 DEF Pending
<1>9. ChoicesFit(w, agent', chosen')
  BY <1>1, <1>2, <1>3, <1>8 DEF ChoicesFit
<1>10. /\ WritesType(writes') /\ EnvIsLast(writes', env') /\ ChoicesFit(writes', agent', chosen')
       /\ step' \in 0..6
  BY <1>1, <1>2, <1>6, <1>7, <1>9, ContinueFits
<1>11. EnvFits(env') /\ Len(env'.lines) <= MaxLines /\ NothingLost(env, env')
  <2>1. NothingLost(env, env)
    BY DEF NothingLost
  <2> QED
    BY <1>1, <1>2, <1>5, <2>1
<1>12. /\ disk' \in [{"home", "user", "vault", "auth"} -> FileForm]
       /\ \A g \in {"user", "vault", "auth"} : disk[g] = "good" => disk'[g] = "good"
  BY <1>1, <1>2
<1>13. SecretsInductive'
  BY <1>1, <1>10, <1>11, <1>12 DEF SecretsInductive
<1>14. SecretsKept
  BY <1>1, <1>11, <1>12 DEF SecretsKept
<1> QED
  BY <1>13, <1>14

\* A file is not written, or half of it: the command is over.
LEMMA FileFails == SecretsInductive /\ SetupFileFails => SecretsInductive' /\ SecretsKept
<1> SUFFICES ASSUME SecretsInductive, SetupFileFails PROVE SecretsInductive' /\ SecretsKept
  OBVIOUS
<1> DEFINE f == Head(writes.files)
           none == [EmptyEnv EXCEPT !.exists = TRUE]
<1>1. /\ disk \in [{"home", "user", "vault", "auth"} -> FileForm] /\ "empty" \in FileForm
      /\ EnvFits(env) /\ Len(env.lines) <= MaxLines
      /\ agent \in [Agents -> AgentForm] /\ failures \in 0..MaxFailures
  BY DEF SecretsInductive, FileForm
<1>2. /\ writes.files # <<>> /\ StopSetup /\ agent' = agent
      /\ \/ failures' = failures /\ UNCHANGED <<disk, env>>
         \/ /\ failures < MaxFailures /\ failures' = failures + 1
            /\ \/ UNCHANGED <<disk, env>>
               \/ disk' = [disk EXCEPT ![f] = "empty"] /\ env' = env
               \/ f = "rewrite" /\ env' = none /\ disk' = disk
  BY DEF SetupFileFails
<1>3. EnvFits(none) /\ Len(none.lines) <= MaxLines
  BY EmptyFits
<1> HIDE DEF f, none
<1>4. /\ WritesType(writes') /\ EnvIsLast(writes', env') /\ ChoicesFit(writes', agent', chosen')
      /\ step' \in 0..6 /\ chosen' \in [Agents -> Provider \union {None}]
  BY <1>2, StopFits
<1>5. EnvFits(env') /\ Len(env'.lines) <= MaxLines
  BY <1>1, <1>2, <1>3
<1>6. failures' \in 0..MaxFailures
  BY <1>1, <1>2, SecretsAssumption
<1>7. disk' \in [{"home", "user", "vault", "auth"} -> FileForm]
  BY <1>1, <1>2
<1>8. failures + 1 # failures
  BY <1>1
<1>9. ~FailsFor("rewrite") => NothingLost(env, env')
  <2>1. NothingLost(env, env)
    BY DEF NothingLost
  <2> QED
    BY <1>2, <1>8, <2>1 DEF FailsFor, Fails, f
<1>10. \A g \in {"user", "vault", "auth"} : disk[g] = "good" /\ ~FailsFor(g) => disk'[g] = "good"
  <2> SUFFICES ASSUME NEW g \in {"user", "vault", "auth"}, disk[g] = "good", ~FailsFor(g)
               PROVE  disk'[g] = "good"
    OBVIOUS
  <2>1. failures' # failures => f # g
    BY <1>2 DEF FailsFor, Fails, f
  <2> QED
    BY <1>1, <1>2, <1>8, <2>1
<1>11. SecretsInductive'
  BY <1>1, <1>2, <1>4, <1>5, <1>6, <1>7 DEF SecretsInductive
<1>12. SecretsKept
  BY <1>2, <1>9, <1>10 DEF SecretsKept
<1> QED
  BY <1>11, <1>12

\* The agent's file that comes next.
LEMMA NextPending ==
  ASSUME SecretsInductive, writes.slots # {}
  PROVE  /\ NextSlot \in writes.slots /\ NextSlot \in DOMAIN Slot
         /\ Slot[NextSlot] \in Agents /\ Slot[NextSlot] \in Pending(writes)
<1>1. writes.slots \subseteq DOMAIN Slot /\ DOMAIN Slot \in SUBSET Nat
  BY SecretsAssumption DEF SecretsInductive, WritesType
<1>2. FirstOf(writes.slots) \in writes.slots
  BY <1>1, FirstIsSmallest
<1> QED
  BY <1>1, <1>2 DEF NextSlot, Pending, Agents

\* The writes after that one.
LEMMA OneSlotLess ==
  ASSUME SecretsInductive, writes.slots # {}, writes.files = <<>>, NEW w,
         w = [writes EXCEPT !.slots = @ \ {NextSlot}]
  PROVE  /\ WritesType(w) /\ \A e : EnvIsLast(w, e)
         /\ w.agent = writes.agent
         /\ Pending(w) \subseteq Pending(writes) /\ Pending(writes) \subseteq Pending(w) \union {Slot[NextSlot]}
<1>1. WritesType(writes)
  BY DEF SecretsInductive
<1>2. /\ DOMAIN w = {"files", "slots", "env", "agent", "warns"}
      /\ w.files = <<>> /\ w.slots = writes.slots \ {NextSlot}
      /\ w.agent = writes.agent /\ w.warns = writes.warns
  BY <1>1 DEF WritesType
<1>3. WritesType(w)
  BY <1>1, <1>2 DEF WritesType
<1>4. \A e : EnvIsLast(w, e)
  <2>1. DOMAIN w.files = {}
    BY <1>2
  <2> QED
    BY <2>1 DEF EnvIsLast
<1>5. Pending(w) \subseteq Pending(writes) /\ Pending(writes) \subseteq Pending(w) \union {Slot[NextSlot]}
  BY <1>2 DEF Pending
<1> QED
  BY <1>2, <1>3, <1>4, <1>5

LEMMA AgentIsWritten == SecretsInductive /\ AgentWritten => SecretsInductive' /\ SecretsKept
<1> SUFFICES ASSUME SecretsInductive, AgentWritten PROVE SecretsInductive' /\ SecretsKept
  OBVIOUS
<1> DEFINE a == Slot[NextSlot]
           w == [writes EXCEPT !.slots = @ \ {NextSlot}]
<1>1. /\ writes.files = <<>> /\ writes.slots # {}
      /\ agent' = [agent EXCEPT ![a] = writes.agent[a]]
      /\ Continue(w) /\ UNCHANGED <<disk, env, failures, chosen>>
  BY DEF AgentWritten
<1>2. a \in Agents /\ a \in Pending(writes)
  BY <1>1, NextPending
<1>3. /\ WritesType(w) /\ EnvIsLast(w, env') /\ w.agent = writes.agent
      /\ Pending(w) \subseteq Pending(writes) /\ Pending(writes) \subseteq Pending(w) \union {a}
  BY <1>1, OneSlotLess
<1>4. /\ agent \in [Agents -> AgentForm] /\ writes.agent \in [Agents -> AgentForm]
      /\ ChoicesFit(writes, agent, chosen) /\ step \in 0..6
  BY DEF SecretsInductive, WritesType
<1> HIDE DEF a, w
<1>5. agent' \in [Agents -> AgentForm] /\ agent'[a] = writes.agent[a]
      /\ \A b \in Agents \ {a} : agent'[b] = agent[b]
  BY <1>1, <1>2, <1>4
<1>6. ChoicesFit(w, agent', chosen')
  <2>1. \A b \in Pending(w) : w.agent[b].is = "good"
    BY <1>3, <1>4 DEF ChoicesFit
  <2>2. ASSUME NEW b \in Agents, chosen'[b] # None
        PROVE  LET kept == IF b \in Pending(w) THEN w.agent[b] ELSE agent'[b]
               IN kept.is = "good" /\ kept.provider = chosen'[b]
    <3>1. CASE b = a
      BY <1>1, <1>2, <1>3, <1>4, <1>5, <2>2, <3>1 DEF ChoicesFit
    <3>2. CASE b # a
      <4>1. b \in Pending(w) <=> b \in Pending(writes)
        BY <1>3, <3>2
      <4> QED
        BY <1>1, <1>3, <1>4, <1>5, <2>2, <3>2, <4>1 DEF ChoicesFit
    <3> QED
      BY <3>1, <3>2
  <2> QED
    BY <2>1, <2>2 DEF ChoicesFit
<1>7. /\ WritesType(writes') /\ EnvIsLast(writes', env') /\ ChoicesFit(writes', agent', chosen')
      /\ step' \in 0..6
  BY <1>1, <1>3, <1>4, <1>6, ContinueFits
<1>8. SecretsInductive'
  BY <1>1, <1>5, <1>7 DEF SecretsInductive
<1>9. \A b \in Agents : agent[b].is = "good" => agent'[b].is = "good"
  BY <1>2, <1>4, <1>5 DEF ChoicesFit
<1>10. SecretsKept
  BY <1>1, <1>9 DEF SecretsKept, NothingLost
<1> QED
  BY <1>8, <1>10

LEMMA AgentIsNotWritten == SecretsInductive /\ AgentFails => SecretsInductive' /\ SecretsKept
<1> SUFFICES ASSUME SecretsInductive, AgentFails PROVE SecretsInductive' /\ SecretsKept
  OBVIOUS
<1> DEFINE a == Slot[NextSlot]
           w == [writes EXCEPT !.slots = @ \ {NextSlot}]
<1>1. /\ writes.files = <<>> /\ writes.slots # {}
      /\ failures < MaxFailures /\ failures' = failures + 1
      /\ agent' = agent \/ agent' = [agent EXCEPT ![a] = Blank("empty")]
      /\ StopSetup \/ (Unkept({NextSlot}) /\ Continue(w))
      /\ UNCHANGED <<disk, env>>
  BY DEF AgentFails
<1>2. a \in Agents /\ a \in Pending(writes)
  BY <1>1, NextPending
<1>3. /\ WritesType(w) /\ EnvIsLast(w, env') /\ w.agent = writes.agent
      /\ Pending(w) \subseteq Pending(writes) /\ Pending(writes) \subseteq Pending(w) \union {a}
  BY <1>1, OneSlotLess
<1>4. /\ agent \in [Agents -> AgentForm] /\ chosen \in [Agents -> Provider \union {None}]
      /\ ChoicesFit(writes, agent, chosen) /\ step \in 0..6 /\ failures \in 0..MaxFailures
  BY DEF SecretsInductive
<1>5. Unkept({NextSlot}) => chosen' = [b \in Agents |-> IF b = a THEN None ELSE chosen[b]]
  BY DEF Unkept
<1>6. Blank("empty") \in AgentForm
  BY FormsFit DEF FileForm
<1>7. \A b \in Agents : ~FailsForAgent(b) => b # a
  BY <1>1, <1>4 DEF FailsForAgent, Fails
<1> HIDE DEF a, w
<1>8. agent' \in [Agents -> AgentForm] /\ \A b \in Agents \ {a} : agent'[b] = agent[b]
  BY <1>1, <1>2, <1>4, <1>6
<1>9. /\ WritesType(writes') /\ EnvIsLast(writes', env') /\ ChoicesFit(writes', agent', chosen')
      /\ step' \in 0..6 /\ chosen' \in [Agents -> Provider \union {None}]
  <2>1. CASE StopSetup
    BY <1>2, <1>8, <2>1, StopFits
  <2>2. CASE Unkept({NextSlot}) /\ Continue(w)
    <3>1. \A b \in Pending(w) : w.agent[b].is = "good"
      BY <1>3, <1>4 DEF ChoicesFit
    <3>2. ASSUME NEW b \in Agents, chosen'[b] # None
          PROVE  LET kept == IF b \in Pending(w) THEN w.agent[b] ELSE agent'[b]
                 IN kept.is = "good" /\ kept.provider = chosen'[b]
      <4>1. b # a /\ chosen'[b] = chosen[b]
        BY <1>5, <2>2, <3>2
      <4>2. b \in Pending(w) <=> b \in Pending(writes)
        BY <1>3, <4>1
      <4> QED
        BY <1>3, <1>4, <1>8, <3>2, <4>1, <4>2 DEF ChoicesFit
    <3>3. ChoicesFit(w, agent', chosen')
      BY <3>1, <3>2 DEF ChoicesFit
    <3>4. chosen' \in [Agents -> Provider \union {None}]
      BY <1>4, <1>5, <2>2
    <3> QED
      BY <1>3, <1>4, <2>2, <3>3, <3>4, ContinueFits
  <2> QED
    BY <1>1, <2>1, <2>2
<1>10. failures' \in 0..MaxFailures
  BY <1>1, <1>4, SecretsAssumption
<1>11. SecretsInductive'
  BY <1>1, <1>8, <1>9, <1>10 DEF SecretsInductive
<1>12. \A b \in Agents : agent[b].is = "good" /\ ~FailsForAgent(b) => agent'[b].is = "good"
  BY <1>7, <1>8
<1>13. SecretsKept
  BY <1>1, <1>12 DEF SecretsKept, NothingLost
<1> QED
  BY <1>11, <1>13

LEMMA SecretsSteps == SecretsInductive /\ SecretsNext => SecretsInductive' /\ SecretsKept
<1> SUFFICES ASSUME SecretsInductive, SecretsNext PROVE SecretsInductive' /\ SecretsKept
  OBVIOUS
<1>1. CASE Setup \/ SkipStep \/ Abandon \/ NoLLM
  <2>1. UNCHANGED <<disk, env, agent, writes, failures, chosen>>
    BY <1>1 DEF Setup, SkipStep, Abandon, NoLLM
  <2>2. step' \in 0..6
    BY <1>1 DEF Setup, SkipStep, Abandon, NoLLM, NextStep, SecretsInductive
  <2>3. SecretsInductive'
    BY <2>1, <2>2 DEF SecretsInductive, EnvFits, WritesType, EnvIsLast, ChoicesFit
  <2> QED
    BY <2>1, <2>3, BeginsKeeps
<1>2. CASE UserIdentity \/ Vault \/ ChannelStep \/ Auth \/ SetupChannel \/ SkillInstallRequirements
  BY <1>2, FileSteps
<1>3. CASE Bootstrap \/ LLM \/ \E i \in DOMAIN Slot, p \in Provider : AgentSetProvider(i, p)
  BY <1>3, AgentSteps
<1> QED
  BY <1>1, <1>2, <1>3, FileWritten, FileFails, AgentIsWritten, AgentIsNotWritten DEF SecretsNext

LEMMA SecretsGoOn == SecretsInductive /\ [SecretsNext]_secretsVars => SecretsInductive'
<1> SUFFICES ASSUME SecretsInductive, UNCHANGED secretsVars PROVE SecretsInductive'
  BY SecretsSteps
<1> QED
  BY DEF secretsVars, SecretsInductive, EnvFits, WritesType, EnvIsLast, ChoicesFit

\* The files of the setup, and the writes that are left, are what the definitions say
\* they are.
THEOREM SecretsType == SecretsSpec => []SecretsTypeOK
<1>1. SecretsInductive => SecretsTypeOK
  BY DEF SecretsInductive, SecretsTypeOK, EnvFits, WritesType, FileNames, TextNames, Line
<1> QED
  BY <1>1, SecretsStart, SecretsGoOn, PTL DEF SecretsSpec

\* No step of the setup, and of the commands after it, whole, failing or cut short,
\* costs a secret that could be read, a login, a profile or an agent's file, but for
\* the file whose write failed; and when nothing is left to write every agent is with
\* the provider chosen for it: for all agents, providers and sizes of the file, and
\* any number of failures.
THEOREM SetupRerunsSafely == SecretsSpec => SetupIsSafeToRerun
<1> DEFINE Safe == /\ ~FailsFor("rewrite") =>
                        \A k \in Key \ AtRisk :
                          LoadDotEnv(env, k) = "secret" => LoadDotEnv(env', k) = "secret"
                   /\ \A f \in {"user", "vault", "auth"} :
                        disk[f] = "good" /\ ~FailsFor(f) => disk'[f] = "good"
                   /\ \A a \in Agents :
                        agent[a].is = "good" /\ ~FailsForAgent(a) => agent'[a].is = "good"
                   /\ ~Writing' => \A a \in Agents :
                        chosen'[a] # None => agent'[a].provider = chosen'[a]
<1>1. SecretsInductive /\ [SecretsNext]_secretsVars => [Safe]_secretsVars
  <2> SUFFICES ASSUME SecretsInductive, SecretsNext PROVE Safe
    OBVIOUS
  <2>1. SecretsInductive' /\ SecretsKept
    BY SecretsSteps
  <2>2. env.lines \in Seq(Line) /\ env'.lines \in Seq(Line)
    BY <2>1 DEF SecretsInductive, EnvFits
  <2>3. ASSUME ~FailsFor("rewrite"), NEW k \in Key \ AtRisk, LoadDotEnv(env, k) = "secret"
        PROVE  LoadDotEnv(env', k) = "secret"
    <3>1. Reads(env.lines, k)
      BY <2>2, <2>3, LoadReads
    <3>2. env.ended \/ k # env.lines[Len(env.lines)].key
      BY <2>3 DEF AtRisk
    <3>3. Reads(env'.lines, k)
      BY <2>1, <2>3, <3>1, <3>2 DEF NothingLost, SecretsKept
    <3> QED
      BY <2>2, <3>3, LoadReads
  <2>4. ASSUME ~Writing', NEW a \in Agents, chosen'[a] # None
        PROVE  agent'[a].provider = chosen'[a]
    <3>1. Pending(writes') = {}
      BY <2>4 DEF Writing, Pending
    <3> QED
      BY <2>1, <2>4, <3>1 DEF SecretsInductive, ChoicesFit
  <2> QED
    BY <2>1, <2>3, <2>4 DEF SecretsKept
<1> HIDE DEF Safe
<1>2. SecretsSpec => [][Safe]_secretsVars
  BY <1>1, SecretsStart, SecretsGoOn, PTL DEF SecretsSpec
<1> QED
  BY <1>2 DEF Safe, SetupIsSafeToRerun
=============================================================================
