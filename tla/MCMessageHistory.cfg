\* Two requests at a time, to one agent or to two, with two tool calls and every
\* fault; a window of one turn, which moves with every message of the user.
SPECIFICATION Spec
CONSTANTS
  Agent = {executive, helper}
  Executive = executive
  Turn = {t1, t2}
  Call = {c1, c2}
  NoCall = nocall
  HistoryTurns = 1
  MaxRows = 4
SYMMETRY Symmetry
INVARIANTS
  CallsAreAnswered
  ExchangesDoNotMix
