----------------------------- MODULE MCWorklist -----------------------------
EXTENDS Worklist, TLC

Symmetry == Permutations(Breed)
=============================================================================
