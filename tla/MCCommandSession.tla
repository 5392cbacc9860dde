-------------------------- MODULE MCCommandSession --------------------------
EXTENDS CommandSession, TLC

\* Verifiers are interchangeable, and so are loops.
Symmetry == Permutations(Verifiers) \cup Permutations(Loops)
=============================================================================
