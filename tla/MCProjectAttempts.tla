------------------------- MODULE MCProjectAttempts -------------------------
EXTENDS ProjectAttempts

CONSTANTS RetryDelay, MaxRetryDelay

Smaller(a, b) == IF a < b THEN a ELSE b

\* retry_delay_for_attempt, for the attempts that may be retried
DoublingDelay == [n \in 1 .. MaxAttempts |-> Smaller(RetryDelay * 2 ^ (n - 1), MaxRetryDelay)]

FirstOnly == {1}
=============================================================================
