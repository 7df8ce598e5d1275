------------------------ MODULE MCConnectionThreads ------------------------
EXTENDS ConnectionThreads, TLC

Symmetry == Permutations(Conn)
=============================================================================
