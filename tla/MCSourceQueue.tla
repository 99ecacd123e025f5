--------------------------- MODULE MCSourceQueue ---------------------------
(* Values for the constants of SourceQueue. *)
EXTENDS SourceQueue

\* LEAST(86400, 300 * 2^LEAST(n, 8)) in ticks of 300 s, capped at two ticks.
ShortDelay == [n \in 0 .. MaxAttempts |-> IF n = 0 THEN 1 ELSE 2]
=============================================================================
