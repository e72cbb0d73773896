--------------------------- MODULE MCHostAdmission ---------------------------
EXTENDS HostAdmission, TLC
Symmetry == Permutations(Sessions) \cup Permutations(Clients)
=============================================================================
