---------------------------- MODULE MCAssignment ----------------------------
EXTENDS Assignment, TLC
Symmetry == Permutations(Ids) \cup Permutations(Envs)
=============================================================================
