------------------------- MODULE MCWorkflowLedger -------------------------
(* Small instances of WorkflowLedger for TLC. *)
EXTENDS WorkflowLedger, TLC

CONSTANTS i1, i2, a, b, c, s1, s2

\* Two invocations compete for one write_lock, the recovery loop of the
\* other instance competes with them for the lease.
HomeThree == a :> i1 @@ b :> i1 @@ c :> i2
EntryThree == a :> "operation" @@ b :> "scheduled" @@ c :> "recovery"

\* Two callers of one instance wait for each other; the other instance only
\* runs its recovery loop.
HomeWaiting == a :> i1 @@ b :> i1
EntryWaiting == a :> "operation" @@ b :> "request"
============================================================================
