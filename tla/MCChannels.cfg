\* Two browser tabs, or two Telegram messages in one chat, and two conversations;
\* two kinds of file and two tool calls; two browsers behind one address, which may
\* have one session; a kernel with a connector of each kind, a channel, a specialist
\* and two skills; two tool calls of an LLM in up to two fragments; two caches of a
\* Gemini client for two turns in two conversations; requests of three messages;
\* windows to 30 tokens.
SPECIFICATION ChannelsSpec
CONSTANTS
  Tab = {t1, t2}
  Handler = {h1, h2}
  Requester = {t1, t2, h1, h2}
  Nobody = nobody
  Chat = {c1}
  MaxConversations = 2
  BusSize = 2
  MaxSends = 2
  Kinds <- KindsOfFile
  MaxCalls = 2
  b1 = b1
  b2 = b2
  Browser = {b1, b2}
  ClientIP <- OneHome
  Cli = cli
  Password = {p1}
  Empty = empty
  TTL = 1
  CookieAge = 2
  MaxSessions = 1
  Burst = 2
  IdleFor = 1
  LastTick = 2
  LastToken = 2
  Remote = {r1}
  Local = {l1}
  Disabled = {d1}
  w1 = w1
  Channel = {w1}
  Priority <- Priorities
  Specialist = {s1}
  k1 = k1
  k2 = k2
  Skill = {k1, k2}
  Template <- SomeTemplates
  Binding <- SomeBindings
  None = none
  Call = {l1, l2}
  MaxText = 2
  MaxFragments = 2
  Caller = {l1, l2}
  Conversation = {v1, v2}
  MaxContents = 2
  MaxCaches = 2
  CallId = {l1, l2}
  Malformed = {l2}
  MaxMessages = 3
  MinBudget = 2
  DefaultBudget = 4
  MaxAsked = {0, 1, 3, 7}
  Limits <- SomeLimits
  MaxWindow = 30
  MaxResult = 6
  MaxResults = 2
INVARIANTS
  OneActive
  AnswersFindTheirTab
  ChatsAreServed
  FilesAreHandedOn
  AccessIsKept
  LifeInOrder
  AnswerIsWhole
  CachesAreLive
  RequestsAreAcceptable
  BudgetsFit
CHECK_DEADLOCK FALSE
