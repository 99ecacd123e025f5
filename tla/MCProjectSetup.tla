--------------------------- MODULE MCProjectSetup ---------------------------
(* Small instance of ProjectSetup for TLC. *)
EXTENDS ProjectSetup, TLC

CONSTANTS k1, k2, p1, p2, a1, a2, q1, q2, x1, x2

Symmetry == Permutations(Actors) \cup Permutations(Projects) \cup Permutations(Accounts)
            \cup Permutations(Periods) \cup Permutations(Tasks)
=============================================================================
