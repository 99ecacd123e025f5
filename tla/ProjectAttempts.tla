--------------------------- MODULE ProjectAttempts ---------------------------
(***************************************************************************)
(* One batch of an automatic workflow: the projects it runs side by side,  *)
(* the attempts of each, their steps and the time they are given           *)
(* (run_workflow_inner, run_activity_workflow_with_retry,                  *)
(* run_activity_workflow and tracked_step of src/src/workflow.rs).  The    *)
(* run, its lease and its closing are WorkflowLedger's; here the run is    *)
(* open, until its batch returns or the heartbeat drops it.                *)
(*                                                                         *)
(* A project is an activity scope.  Every action is one await point of     *)
(* its future.  A call on workflow_step in Faults may fail, before or      *)
(* after the database applied it; a call that a time-out drops may still   *)
(* be applied later.  held[p] counts the time since the deadline of p was  *)
(* set, timer[p] counts down to the expiry of the timer p sleeps on or is  *)
(* cancelled by, and late[p] how long an expired timer has gone unseen.    *)
(***************************************************************************)
EXTENDS Naturals, FiniteSets

CONSTANTS
    N,              \* how many activity scopes the batch has
    Kind,           \* WorkflowKind: "morning", "periodic" or "night"
    NoticeEnabled,  \* the scopes with audit_notice_enabled
    Concurrency,    \* WORKFLOW_PROJECT_CONCURRENCY
    MaxAttempts,    \* WORKFLOW_PROJECT_MAX_ATTEMPTS
    Budget,         \* WORKFLOW_PROJECT_TIMEOUT_SECONDS
    Delay,          \* Delay[n]: retry_delay_for_attempt after n attempts
    Slack,          \* how late a due timer is seen at most
    Faults          \* the calls on workflow_step that may fail

Projects == 1 .. N
Calls == {"start", "finish", "cleanup"}

ASSUME BatchConstants ==
    /\ N \in Nat
    /\ Kind \in {"morning", "periodic", "night"}
    /\ NoticeEnabled \subseteq Projects
    /\ Concurrency \in Nat \ {0}
    /\ MaxAttempts \in Nat \ {0}
    /\ Budget \in Nat \ {0}
    /\ Delay \in [1 .. MaxAttempts -> Nat \ {0}]
    /\ Slack \in Nat
    /\ Faults \subseteq Calls

VARIABLES
    batch,    \* the future of run_workflow_inner
    outcome,  \* what it returned
    phase,    \* where each project is
    attempt,  \* the number of its attempt
    at,       \* the step the attempt has come to
    op,       \* how the operation of that step ended
    held,     \* time since its deadline was set, while it is timed
    timer,    \* time left on its timer
    late,     \* time since its timer expired
    row,      \* workflow_step.status of each of its steps
    by,       \* the attempt that last opened the row (started_at)
    adrift,   \* the dropped call on workflow_step that may yet be applied
    result,   \* what it contributes to the outcomes
    mishap    \* a call on its rows failed or was dropped

control == <<phase, attempt, at, op>>
clock   == <<held, timer, late>>
rows    == <<row, by, adrift, mishap>>
vars    == <<batch, outcome, control, clock, rows, result>>

\* xingtu_export, pending_import, table_sync and, in the night,
\* audit_result_sync or, in the morning, audit_notice.
Steps == 1 .. 4
Last(p) == IF Kind = "night" \/ (Kind = "morning" /\ p \in NoticeEnabled) THEN 4 ELSE 3

Errors == {"transient", "permanent"}  \* is_retryable_workflow_error
InAttempt == {"opening", "starting", "inside", "ending"}
Timed     == InAttempt \cup {"sleeping"}
InSlot    == Timed \cup {"cleaning", "reporting"}
RowState  == {"none", "running", "succeeded", "failed"}

ControlType ==
    /\ phase \in [Projects -> InSlot \cup {"waiting", "done"}]
    /\ attempt \in [Projects -> 0 .. MaxAttempts]
    /\ at \in [Projects -> Steps]
    /\ op \in [Projects -> Errors \cup {"ok"}]

ClockType ==
    /\ held \in [Projects -> Nat]
    /\ timer \in [Projects -> Nat]
    /\ late \in [Projects -> 0 .. Slack]

RowType ==
    /\ row \in [Projects -> [Steps -> RowState]]
    /\ by \in [Projects -> [Steps -> 0 .. MaxAttempts]]
    /\ adrift \in [Projects -> SUBSET (Steps \X RowState)]
    /\ mishap \in [Projects -> BOOLEAN]

TypeOK ==
    /\ batch \in {"reading", "running", "returned", "dropped"}
    /\ outcome \in {"none", "ok", "partial", "all_failed", "error"}
    /\ result \in [Projects -> {"none", "ok", "failed"}]
    /\ ControlType /\ ClockType /\ RowType

Init ==
    /\ batch = "reading" /\ outcome = "none"
    /\ phase = [p \in Projects |-> "waiting"]
    /\ attempt = [p \in Projects |-> 0]
    /\ at = [p \in Projects |-> 1]
    /\ op = [p \in Projects |-> "ok"]
    /\ held = [p \in Projects |-> 0]
    /\ timer = [p \in Projects |-> 0]
    /\ late = [p \in Projects |-> 0]
    /\ row = [p \in Projects |-> [s \in Steps |-> "none"]]
    /\ by = [p \in Projects |-> [s \in Steps |-> 0]]
    /\ adrift = [p \in Projects |-> {}]
    /\ result = [p \in Projects |-> "none"]
    /\ mishap = [p \in Projects |-> FALSE]

-----------------------------------------------------------------------------
(* The control of one project. *)

MoveTo(p, f) == phase' = [phase EXCEPT ![p] = f]

\* deadline.saturating_duration_since(now)
Remaining(p) == IF held[p] < Budget THEN Budget - held[p] ELSE 0

\* A new timer of t ticks.
Arm(p, t) ==
    /\ timer' = [timer EXCEPT ![p] = t]
    /\ late' = [late EXCEPT ![p] = 0]

\* p is not timed any more: its clocks are not read again.
Disarm(p) ==
    /\ held' = [held EXCEPT ![p] = 0]
    /\ Arm(p, 0)

\* tokio::time::timeout(remaining, run_activity_workflow): from its start.
BeginAttempt(p, n) ==
    /\ MoveTo(p, "opening")
    /\ attempt' = [attempt EXCEPT ![p] = n]
    /\ at' = [at EXCEPT ![p] = 1]
    /\ Arm(p, Remaining(p))
    /\ UNCHANGED <<op, held>>

\* Return Err: the error notices are sent before the slot is freed.
GiveUp(p) ==
    /\ MoveTo(p, "reporting")
    /\ Disarm(p)
    /\ UNCHANGED <<attempt, at, op, result>>

MayRetry(p, e) ==
    /\ e = "transient"
    /\ attempt[p] < MaxAttempts
    /\ Delay[attempt[p]] < Remaining(p)

\* The attempt of p ended with an error e.
AttemptFails(p, e) ==
    \/ /\ MayRetry(p, e)
       /\ MoveTo(p, "sleeping")
       /\ Arm(p, Delay[attempt[p]])
       /\ UNCHANGED <<attempt, at, op, held, result>>
    \/ ~MayRetry(p, e) /\ GiveUp(p)

\* The step of p is behind it: the next one, or Ok.
Proceed(p) ==
    IF at[p] < Last(p)
    THEN /\ MoveTo(p, "starting")
         /\ at' = [at EXCEPT ![p] = at[p] + 1]
         /\ UNCHANGED <<attempt, op, clock, result>>
    ELSE /\ MoveTo(p, "done")
         /\ result' = [result EXCEPT ![p] = "ok"]
         /\ Disarm(p)
         /\ UNCHANGED <<attempt, at, op>>

\* What the call on workflow_step that p awaits writes.
Verdict(p) == IF op[p] = "ok" THEN "succeeded" ELSE "failed"
Pending(p) ==
    IF phase[p] = "starting" THEN {<<at[p], "running">>}
    ELSE IF phase[p] = "ending" THEN {<<at[p], Verdict(p)>>} ELSE {}

WriteRow(p, s, v) ==
    /\ row' = [row EXCEPT ![p][s] = v]
    /\ by' = IF v = "running" THEN [by EXCEPT ![p][s] = attempt[p]] ELSE by

-----------------------------------------------------------------------------
(* run_workflow_inner *)

ReadScopes ==
    /\ batch = "reading"
    /\ \/ batch' = "running" /\ UNCHANGED outcome
       \/ batch' = "returned" /\ outcome' = "error"
    /\ UNCHANGED <<control, clock, rows, result>>

Taken == {q \in Projects : phase[q] \in InSlot}

\* buffer_unordered polls the futures in their order, Concurrency at a time.
Start(p) ==
    /\ batch = "running"
    /\ phase[p] = "waiting" /\ \A q \in 1 .. (p - 1) : phase[q] # "waiting"
    /\ Cardinality(Taken) < Concurrency
    /\ BeginAttempt(p, 1)
    /\ UNCHANGED <<batch, outcome, rows, result>>

\* aggregate_activity_outcomes and the match on failed_activities
Aggregate ==
    IF \A p \in Projects : result[p] = "ok" THEN "ok"
    ELSE IF \E p \in Projects : result[p] = "ok" THEN "partial" ELSE "all_failed"

Return ==
    /\ batch = "running"
    /\ \A p \in Projects : phase[p] = "done"
    /\ batch' = "returned" /\ outcome' = Aggregate
    /\ UNCHANGED <<control, clock, rows, result>>

\* with_run_heartbeat drops the operation; what is awaited may go on.
Drop ==
    /\ batch \in {"reading", "running"}
    /\ batch' = "dropped"
    /\ adrift' = [p \in Projects |-> adrift[p] \cup Pending(p)]
    /\ mishap' = [p \in Projects |-> mishap[p] \/ Pending(p) # {}]
    /\ UNCHANGED <<outcome, control, clock, row, by, result>>

-----------------------------------------------------------------------------
(* run_activity_workflow and tracked_step *)

Runs(p, f) == batch = "running" /\ phase[p] = f

Failed(p) == mishap' = [mishap EXCEPT ![p] = TRUE]

\* client_for_project
Opened(p) ==
    /\ Runs(p, "opening")
    /\ \/ MoveTo(p, "starting") /\ UNCHANGED <<attempt, at, op, clock, result>>
       \/ \E e \in Errors : AttemptFails(p, e)
    /\ UNCHANGED <<batch, outcome, rows>>

\* start_step: the row of an earlier attempt is opened again.
StepOpened(p) ==
    /\ Runs(p, "starting")
    /\ WriteRow(p, at[p], "running")
    /\ MoveTo(p, "inside")
    /\ UNCHANGED <<batch, outcome, attempt, at, op, clock, adrift, mishap, result>>

StepOpenFails(p) ==
    /\ Runs(p, "starting") /\ "start" \in Faults
    /\ WriteRow(p, at[p], "running") \/ UNCHANGED <<row, by>>
    /\ Failed(p)
    /\ \E e \in Errors : AttemptFails(p, e)
    /\ UNCHANGED <<batch, outcome, adrift>>

\* operation.await
OperationEnds(p) ==
    /\ Runs(p, "inside")
    /\ \E o \in Errors \cup {"ok"} : op' = [op EXCEPT ![p] = o]
    /\ MoveTo(p, "ending")
    /\ UNCHANGED <<batch, outcome, attempt, at, clock, rows, result>>

\* finish_step_success, finish_step_failure
StepClosed(p) ==
    /\ Runs(p, "ending")
    /\ WriteRow(p, at[p], Verdict(p))
    /\ IF op[p] = "ok" THEN Proceed(p) ELSE AttemptFails(p, op[p])
    /\ UNCHANGED <<batch, outcome, adrift, mishap>>

\* The error of the write takes the place of the error of the operation,
\* and an operation that succeeded is done again.
StepCloseFails(p) ==
    /\ Runs(p, "ending") /\ "finish" \in Faults
    /\ WriteRow(p, at[p], Verdict(p)) \/ UNCHANGED <<row, by>>
    /\ Failed(p)
    /\ \E e \in Errors : AttemptFails(p, e)
    /\ UNCHANGED <<batch, outcome, adrift>>

-----------------------------------------------------------------------------
(* run_activity_workflow_with_retry *)

\* The sleep is over; the budget may be, too, if it was seen late.
Wake(p) ==
    /\ Runs(p, "sleeping") /\ timer[p] = 0
    /\ IF Remaining(p) = 0 THEN GiveUp(p)
                           ELSE BeginAttempt(p, attempt[p] + 1) /\ UNCHANGED result
    /\ UNCHANGED <<batch, outcome, rows>>

\* Mutant: only the operation is timed, not the calls around it.
TimeOutInside(p) ==
    /\ Runs(p, "inside") /\ timer[p] = 0
    /\ MoveTo(p, "cleaning")
    /\ Disarm(p)
    /\ UNCHANGED <<batch, outcome, attempt, at, op, rows, result>>

\* Mutant: the rows of a cancelled attempt are left as they are.
TimeOutUnrecorded(p) ==
    /\ batch = "running" /\ phase[p] \in InAttempt /\ timer[p] = 0
    /\ GiveUp(p)
    /\ adrift' = [adrift EXCEPT ![p] = Pending(p)]
    /\ mishap' = [mishap EXCEPT ![p] = mishap[p] \/ Pending(p) # {}]
    /\ UNCHANGED <<batch, outcome, row, by>>

\* The timer is polled after the attempt, so an attempt that has ended by
\* then is not cancelled.
TimeOut(p) ==
    /\ batch = "running" /\ phase[p] \in InAttempt /\ timer[p] = 0
    /\ MoveTo(p, "cleaning")
    /\ Disarm(p)
    /\ adrift' = [adrift EXCEPT ![p] = Pending(p)]
    /\ mishap' = [mishap EXCEPT ![p] = mishap[p] \/ Pending(p) # {}]
    /\ UNCHANGED <<batch, outcome, attempt, at, op, row, by, result>>

\* fail_running_steps_for_activity
CloseRows(p) ==
    row' = [row EXCEPT ![p] =
               [s \in Steps |-> IF row[p][s] = "running" THEN "failed" ELSE row[p][s]]]

CleanUp(p) ==
    /\ Runs(p, "cleaning")
    /\ \/ CloseRows(p) /\ UNCHANGED mishap
       \/ "cleanup" \in Faults /\ (CloseRows(p) \/ UNCHANGED row) /\ Failed(p)
    /\ MoveTo(p, "reporting")
    /\ UNCHANGED <<batch, outcome, attempt, at, op, clock, by, adrift, result>>

\* send_workflow_error_notices, whatever becomes of the notices.
Reported(p) ==
    /\ Runs(p, "reporting")
    /\ MoveTo(p, "done")
    /\ result' = [result EXCEPT ![p] = "failed"]
    /\ UNCHANGED <<batch, outcome, attempt, at, op, clock, rows>>

-----------------------------------------------------------------------------
(* The environment. *)

\* The database applies a dropped call, or never does.
Land(p) ==
    /\ \E c \in adrift[p] : WriteRow(p, c[1], c[2])
    /\ adrift' = [adrift EXCEPT ![p] = {}]
    /\ UNCHANGED <<batch, outcome, control, clock, mishap, result>>

Sink(p) ==
    /\ adrift[p] # {}
    /\ adrift' = [adrift EXCEPT ![p] = {}]
    /\ UNCHANGED <<batch, outcome, control, clock, row, by, mishap, result>>

IsTimed(p) == phase[p] \in Timed

Tick ==
    /\ batch = "running"
    /\ \E p \in Projects : IsTimed(p)
    /\ \A p \in Projects : IsTimed(p) => timer[p] > 0 \/ late[p] < Slack
    /\ held' = [p \in Projects |-> IF IsTimed(p) THEN held[p] + 1 ELSE held[p]]
    /\ timer' = [p \in Projects |->
                    IF IsTimed(p) /\ timer[p] > 0 THEN timer[p] - 1 ELSE timer[p]]
    /\ late' = [p \in Projects |->
                   IF IsTimed(p) /\ timer[p] = 0 THEN late[p] + 1 ELSE late[p]]
    /\ UNCHANGED <<batch, outcome, control, rows, result>>

\* The future of p goes on.
Advance(p) ==
    \/ Opened(p) \/ StepOpened(p) \/ StepOpenFails(p)
    \/ OperationEnds(p) \/ StepClosed(p) \/ StepCloseFails(p)

\* It is woken by a timer, or by a call that is always answered.
Serve(p) == Start(p) \/ Wake(p) \/ TimeOut(p) \/ CleanUp(p) \/ Reported(p)

Next ==
    \/ ReadScopes \/ Return \/ Drop \/ Tick
    \/ \E p \in Projects : Advance(p) \/ Serve(p) \/ Land(p) \/ Sink(p)

Spec == Init /\ [][Next]_vars

\* An operation may never be answered: Advance is not fair.
FairSpec ==
    /\ Spec
    /\ WF_vars(ReadScopes) /\ WF_vars(Return) /\ WF_vars(Tick)
    /\ \A p \in Projects : WF_vars(Serve(p))

-----------------------------------------------------------------------------
(* Properties *)

\* A project is worked on for its budget and no longer, however many
\* attempts and pauses it has: the time between them is taken from the same
\* deadline (README.md:105, docs/api.md:374).
BudgetKept == \A p \in Projects : IsTimed(p) => held[p] <= Budget + Slack

\* All the steps of p were done by its last attempt.
Whole(p) == \A s \in 1 .. Last(p) : row[p][s] = "succeeded" /\ by[p][s] = attempt[p]

\* A project is reported as processed, and a batch as succeeded, only when
\* one and the same attempt did all of its steps and the ledger shows them
\* so: rows left by earlier attempts, failed writes and dropped calls do not
\* show through.
ReportIsTrue ==
    /\ \A p \in Projects : result[p] = "ok" => Whole(p)
    /\ outcome = "ok" => \A p \in Projects : Whole(p)

\* When the slot of a project is free again, no step of it is left running,
\* unless a write to its rows failed or was under way when it was dropped.
NothingLeftRunning ==
    \A p \in Projects, s \in Steps :
        phase[p] = "done" /\ ~mishap[p] => row[p][s] # "running"

\* What a batch reports and what its step rows show is what happened, over
\* attempts that are dropped half-way and writes that fail or land late.
RowsTellTheTruth == ReportIsTrue /\ NothingLeftRunning

\* A batch ends, whatever its operations do: the time-out frees the slot of
\* a project that hangs, and the projects behind it have their turn.
BatchEnds == <>(batch \in {"returned", "dropped"})
=============================================================================
