\* A bus with room for everything in flight: every workflow of up
\* to three tasks, joins and chains included, finishes.
SPECIFICATION ReliableSpec
CONSTANTS
  Flow = {w1, w2}
  Task = {t1, t2, t3}
  Foreign = foreign
  NoId = noid
  BusSize = 5
  MaxSteps = 3
  MaxOther = 0
  ErrorReports = FALSE
INVARIANTS
  NeverWedged
PROPERTIES
  WorkflowsFinish
  ImplementsTaskGraph
CHECK_DEADLOCK FALSE
