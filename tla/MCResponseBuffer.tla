-------------------------- MODULE MCResponseBuffer --------------------------
EXTENDS ResponseBuffer, TLC

Symmetry == Permutations(Threads)
=============================================================================
