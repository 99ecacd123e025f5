----------------------------- MODULE FreshReads -----------------------------
(***************************************************************************)
(* What the query cache promises, without revisions, nodes or entries: a   *)
(* read answers with data that is at least as new as the last invalidation *)
(* that ended before the read began.                                       *)
(***************************************************************************)
EXTENDS Naturals

CONSTANT Readers

VARIABLES
    data,    \* version of the business data
    settled, \* its version at the last invalidation
    phase,   \* "idle", "reading" or "answered"
    low,     \* what was settled when a read began
    got      \* what it answered

vars == <<data, settled, phase, low, got>>

Init ==
    /\ data = 0 /\ settled = 0
    /\ phase = [r \in Readers |-> "idle"]
    /\ low = [r \in Readers |-> 0]
    /\ got = [r \in Readers |-> 0]

Write == data' = data + 1 /\ UNCHANGED <<settled, phase, low, got>>

Settle == settled' = data /\ UNCHANGED <<data, phase, low, got>>

Begin(r) ==
    /\ phase[r] = "idle"
    /\ phase' = [phase EXCEPT ![r] = "reading"]
    /\ low' = [low EXCEPT ![r] = settled]
    /\ UNCHANGED <<data, settled, got>>

Answer(r) ==
    /\ phase[r] = "reading"
    /\ phase' = [phase EXCEPT ![r] = "answered"]
    /\ \E v \in low[r] .. data : got' = [got EXCEPT ![r] = v]
    /\ UNCHANGED <<data, settled, low>>

\* Readers go, answered or not.
Leave(R) ==
    /\ phase' = [r \in Readers |-> IF r \in R THEN "idle" ELSE phase[r]]
    /\ low' = [r \in Readers |-> IF r \in R THEN 0 ELSE low[r]]
    /\ got' = [r \in Readers |-> IF r \in R THEN 0 ELSE got[r]]
    /\ UNCHANGED <<data, settled>>

Next ==
    \/ Write \/ Settle
    \/ \E r \in Readers : Begin(r) \/ Answer(r)
    \/ \E R \in SUBSET Readers : Leave(R)

Spec == Init /\ [][Next]_vars
=============================================================================
