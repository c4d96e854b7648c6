\* Nothing fails: is every exchange whole when the next turn begins?
SPECIFICATION ReliableSpec
CONSTANTS
  Agent = {executive, helper}
  Executive = executive
  Turn = {t1, t2}
  Call = {c1, c2}
  NoCall = nocall
  HistoryTurns = 10
  MaxRows = 6
SYMMETRY Symmetry
INVARIANTS
  TurnLockSuffices
CHECK_DEADLOCK FALSE
