---------------------------- MODULE MCTurnChanges ----------------------------
EXTENDS TurnChanges, TLC
Symmetry == Permutations(Files) \cup Permutations(Versions)
=============================================================================
