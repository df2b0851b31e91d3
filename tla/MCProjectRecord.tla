--------------------------- MODULE MCProjectRecord ---------------------------
EXTENDS ProjectRecord, TLC

Symmetry == Permutations(Requests) \cup Permutations(Users) \cup Permutations(Files)
=============================================================================
