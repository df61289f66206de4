---------------------------- MODULE MCConfigCache ----------------------------
EXTENDS ConfigCache, TLC

Symmetry == Permutations(Callers) \cup Permutations(Requests)
=============================================================================
