-------------------------- MODULE ExclusiveLedger --------------------------
(***************************************************************************)
(* What the run ledger promises, without leases, clocks or tasks: a run    *)
(* is opened once and closed once, at most one open run writes business    *)
(* data, and nobody closes the run of a writer but the writer itself.      *)
(***************************************************************************)
CONSTANTS Invocations, NoRun

VARIABLES
    row,     \* "none", "running" or "closed"
    writer   \* the run that may write business data, or NoRun

Running == {x \in Invocations : row[x] = "running"}
CloseAll(S) == row' = [x \in Invocations |-> IF x \in S THEN "closed" ELSE row[x]]

Init == row = [x \in Invocations |-> "none"] /\ writer = NoRun

Open(x) ==
    /\ row[x] = "none"
    /\ row' = [row EXCEPT ![x] = "running"]
    /\ UNCHANGED writer

Enter(x) ==
    /\ writer = NoRun /\ x \in Running
    /\ writer' = x
    /\ UNCHANGED row

\* The writer goes, with its run closed or, after a fault, still open.
Depart ==
    /\ writer # NoRun /\ writer' = NoRun
    /\ \/ UNCHANGED row
       \/ writer \in Running /\ CloseAll({writer})

\* Runs that do not write are closed: refused ones and orphans.
Reclaim(S) ==
    /\ S \subseteq Running \ {writer}
    /\ CloseAll(S)
    /\ UNCHANGED writer

Next ==
    \/ \E x \in Invocations : Open(x) \/ Enter(x)
    \/ Depart
    \/ \E S \in SUBSET Invocations : Reclaim(S)

Spec == Init /\ [][Next]_<<row, writer>>
=============================================================================
