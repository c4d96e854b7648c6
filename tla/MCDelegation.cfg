\* Three requests, two agents, two sessions; a bus and inboxes that fill up.
SPECIFICATION Spec
CONSTANTS
  Request = {r1, r2, r3}
  Agent = {executive, helper}
  Executive = executive
  Unknown = unknown
  Session = {s1, s2}
  NoRequest = none
  BusSize = 2
  InboxSize = 1
  MaxConcurrency = 2
SYMMETRY Symmetry
INVARIANTS
  TurnsAreSerial
  OneReply
  ReplyIsComing
CHECK_DEADLOCK FALSE
