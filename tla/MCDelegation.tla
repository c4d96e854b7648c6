---------------------------- MODULE MCDelegation ----------------------------
EXTENDS DelegationInvariant, TLC

Symmetry == Permutations(Request) \cup Permutations(Session)
==============================================================================
