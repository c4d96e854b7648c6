\* A bus with room for everything in flight, one slot per agent, so that an
\* executive that delegates to itself waits for its own slot.
SPECIFICATION FairSpec
CONSTANTS
  Request = {r1, r2, r3}
  Agent = {executive}
  Executive = executive
  Unknown = unknown
  Session = {s1}
  NoRequest = none
  BusSize = 3
  InboxSize = 1
  MaxConcurrency = 1
PROPERTIES
  RequestsEnd
  UserHears
CHECK_DEADLOCK FALSE
