\* A skill from a marketplace, converted and saved, as the converter says.
SPECIFICATION ToolsSpec
CONSTANTS
  a1 = a1
  a2 = a2
  s1 = s1
  n1 = n1
  c1 = c1
  c2 = c2
  q3 = q3
  t1 = t1
  t2 = t2
  t3 = t3
  Id = {i1, i2, i3}
  MaxSessions = 2
  DaysPerWeek = 2
  MonthStart <- Calendar
  MonthsPerYear = 1
  Zones <- HalfDays
  MaxDelay = 1
  MaxOutages = 1
  AgentFile = {a1}
  Skill = {s1}
  Connector = {n1}
  Channel = {}
  Council = {c1, c2}
  Uses <- CouncilUses
  MaxCuts = 1
  Slot <- Slots
  Provider = {"openai", "anthropic"}
  DefaultProvider = "openai"
  ChannelKey = "telegram"
  ServerKey = "server"
  SkillKey = "skill"
  Within <- NameWithin
  MaxLines = 4
  MaxFailures = 1
  Document <- Texts
  Length = {"medium", "xl"}
  Status = {403, 404, 500}
  MaxChunk = 2
  MergeBatch = 2
  MaxText = 6
  MaxWebText = 4
  Searcher = {f1, f2}
  Query = {q1, q2, q3, q4}
  Local = {q4}
  Shop = {m1}
  Similarity <- Alike
  Similar = 1
  MaxEntries = 2
  TTL = 2
  CliCall = {x1}
  Tool = {t1, t2, t3}
  Declared <- Tools
  Levels = {"read", "admin", "none"}
  Default = 1
  ExecMaxTime = 0
  MaxFiles = 2
INVARIANTS
  ConvertedSkillsLoad
CHECK_DEADLOCK FALSE
