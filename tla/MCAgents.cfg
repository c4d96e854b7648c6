\* Two turns in one or two sessions of an agent with one skill in one group, and a
\* second skill that find_skill can add.  Two reminders over three steps of time,
\* their job and an agent that changes them, and one fault.
SPECIFICATION AgentsSpec
CONSTANTS
  Turn = {t1, t2}
  Session = {s1, s2}
  Skill = {git, web}
  Boot = {git}
  Group = {read}
  Threshold = 0
  MaxIterations = 2
  MaxToolCalls = 2
  MaxBatch = 2
  MaxTools = 2
  Reminder = {m1, m2}
  Runner = {r1}
  Editor = {a1}
  BusSize = 1
  MaxTime = 2
  MaxTrouble = 1
INVARIANTS
  ToolsComeBack
  GroupsFollowTheTurn
PROPERTIES
  TurnsEnd
  DueGoesOut
CHECK_DEADLOCK FALSE
