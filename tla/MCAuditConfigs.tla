--------------------------- MODULE MCAuditConfigs ---------------------------
(* Small instance of AuditConfigs for TLC. *)
EXTENDS AuditConfigs, TLC

CONSTANTS d, b, k1, k2, p1, c1, t1, g1, g2, m1

Symmetry == Permutations(Actors)
=============================================================================
