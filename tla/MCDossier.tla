------------------------------ MODULE MCDossier ------------------------------
EXTENDS Dossier, TLC

Symmetry == Permutations(Request) \cup Permutations(Proposal)
=============================================================================
