-------------------------- MODULE MCMessageHistory --------------------------
EXTENDS HistoryInvariant, TLC

Symmetry == Permutations(Turn) \cup Permutations(Call)
==============================================================================
