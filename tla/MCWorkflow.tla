----------------------------- MODULE MCWorkflow -----------------------------
EXTENDS WorkflowInvariant, TLC

Symmetry == Permutations(Flow) \cup Permutations(Task)
==============================================================================
