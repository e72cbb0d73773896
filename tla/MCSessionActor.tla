--------------------------- MODULE MCSessionActor ---------------------------
EXTENDS SessionActor, TLC
Symmetry == Permutations(Requests)
=============================================================================
