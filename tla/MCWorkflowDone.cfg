\* The engine sends on a full bus it alone empties.
SPECIFICATION ReliableSpec
CONSTANTS
  Flow = {w1, w2}
  Task = {t1, t2}
  Foreign = foreign
  NoId = noid
  BusSize = 2
  MaxSteps = 2
  MaxOther = 1
  ErrorReports = FALSE
PROPERTIES
  DoneIsAnnounced
CHECK_DEADLOCK FALSE
