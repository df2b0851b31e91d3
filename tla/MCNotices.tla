------------------------------ MODULE MCNotices ------------------------------
EXTENDS Notices, TLC

Symmetry == Permutations(Requests)
=============================================================================
