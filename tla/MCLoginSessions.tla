-------------------------- MODULE MCLoginSessions --------------------------
(* Small instance of LoginSessions for TLC. *)
EXTENDS LoginSessions, TLC

CONSTANTS d, a, p1, p2, f1, s1, s2, q1, q2, k1, k2

Symmetry == Permutations(Projects) \cup Permutations(Sessions) \cup Permutations(Requests)
            \cup Permutations(Admins)
=============================================================================
