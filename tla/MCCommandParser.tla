-------------------------- MODULE MCCommandParser --------------------------
EXTENDS CommandParser, TLC

MCArity == [k \in AllKinds \cup {"none"} |-> IF k = "register" THEN 2 ELSE 0]

Symmetry == Permutations(Threads)
=============================================================================
