\* Two workflows of two tasks, one of which may be the other's template, on a
\* bus of two events that other traffic competes for, with every fault.
SPECIFICATION Spec
CONSTANTS
  Flow = {w1, w2}
  Task = {t1, t2, t3, t4}
  Foreign = foreign
  NoId = noid
  BusSize = 2
  MaxSteps = 2
  MaxOther = 1
  ErrorReports = TRUE
SYMMETRY Symmetry
INVARIANTS
  DependencyOrder
  HandedOutOnce
  ToldOnceWhenDone
CHECK_DEADLOCK FALSE
