\* Three cron jobs, one of a workflow and one with a bad schedule; two agents, two
\* tasks and a project; two events and a note over four hours; two summary runs
\* over eight quarters of an hour; two messages for the graph; seven memories of
\* which each source gives two, in two chats.
\* Every graph over three ids; two sessions over four days, in weeks of two days and
\* years of a month, in zones that are up to half a day apart, and one outage; two councils,
\* and one command cut short; two agents and two providers, an .env of four lines, and one
\* write that fails or is cut short; texts of up to seven places in parts of two; two
\* searches of four queries in a cache of two; a call of three tools, with two files of a kind.
SPECIFICATION ServicesSpec
CONSTANTS
  a1 = a1
  a2 = a2
  s1 = s1
  n1 = n1
  c1 = c1
  c2 = c2
  q3 = q3
  t1 = t1
  t2 = t2
  t3 = t3
  Id = {i1, i2, i3}
  MaxSessions = 2
  DaysPerWeek = 2
  MonthStart <- Calendar
  MonthsPerYear = 1
  Zones <- HalfDays
  MaxDelay = 1
  MaxOutages = 1
  AgentFile = {a1}
  Skill = {s1}
  Connector = {n1}
  Channel = {}
  Council = {c1, c2}
  Uses <- CouncilUses
  MaxCuts = 1
  Slot <- Slots
  Provider = {"openai", "anthropic"}
  DefaultProvider = "openai"
  ChannelKey = "telegram"
  ServerKey = "server"
  SkillKey = "skill"
  Within <- NameWithin
  MaxLines = 4
  MaxFailures = 1
  Document <- Texts
  Length = {"medium", "xl"}
  Status = {403, 404, 500}
  MaxChunk = 2
  MergeBatch = 2
  MaxText = 6
  MaxWebText = 4
  Searcher = {f1, f2}
  Query = {q1, q2, q3, q4}
  Local = {q4}
  Shop = {m1}
  Similarity <- Alike
  Similar = 1
  MaxEntries = 2
  TTL = 2
  CliCall = {x1}
  Tool = {t1, t2, t3}
  Declared <- Tools
  Levels = {"read", "admin", "none"}
  Default = 1
  ExecMaxTime = 0
  MaxFiles = 2
  Job = {j1, j2, j3}
  WorkflowJob = {j1}
  BadSchedule = {j3}
  CronBusSize = 2
  MaxFirings = 1
  Agent = {b1, b2}
  TaskId = {k1, k2}
  Project = {p1}
  NoRow = norow
  Unassigned = unassigned
  Caller = {a1}
  EventId = {e1, e2}
  NoteId = {n1}
  Latest = 3
  DefaultMinutes = 1
  Absent = absent
  SummaryRun = {r1, r2}
  LastQuarter = 7
  MaxFaults = 2
  Ingest = {i1, i2}
  Name = {me, user, ann}
  Pronoun = {me}
  User = user
  Literal = lit
  Remembered = {i2}
  Memory <- Memories
  MaxPerSource = 2
  MaxTotal = 2
  Chat = {c1, c2}
  LastHour = 5
  KeptFor = 1
  RecentFor = 3
INVARIANTS
  ScheduledWorkRuns
  TasksAreSound
  PlannerStaysSound
  NothingIsForgotten
  OneEntityPerName
  MemoriesAreRight
  Decides
  DaysAreKept
  CouncilsAreStaffed
  SummaryIsWhole
  OldestGoesFirst
  AnswersAreFinal
PROPERTIES
  SetupIsSafeToRerun
CHECK_DEADLOCK FALSE
