--------------------------- MODULE MCOrchestration ---------------------------
EXTENDS Orchestration, TLC

Symmetry == Permutations(Runnable)
=============================================================================
