--------------------------- MODULE WorkflowLedger ---------------------------
(***************************************************************************)
(* The run ledger and the cross-instance lease of the write workflows      *)
(* (src/src/workflow_run.rs, the entry points of src/src/workflow.rs and   *)
(* the recovery loop of src/src/server/scheduler.rs).                      *)
(*                                                                         *)
(* An invocation is one call of a write entry point in one server          *)
(* instance; it inserts at most one row into workflow_run, so the row is   *)
(* named by its invocation.  Every action is one await point: one          *)
(* statement or transaction on PostgreSQL and what the caller does with    *)
(* the answer.  The calls in Faults may fail, before or after the          *)
(* database applied them.                                                  *)
(*                                                                         *)
(* Time is relative: leaseLeft counts down to the expiry of the lease,     *)
(* age[x] counts up from workflow_run.heartbeat_at, lag[x] counts the time *)
(* a live invocation has spent since its last await was answered.  Timely  *)
(* bounds lag, as a process that is scheduled and a database that answers  *)
(* do; without it an instance may stall for ever.                          *)
(***************************************************************************)
EXTENDS Naturals, FiniteSets

CONSTANTS
    Instances,    \* server processes that share the database
    Invocations,  \* calls of write entry points; also the ids of their rows
    Home,         \* Home[x]: the instance that serves invocation x
    Entry,        \* Entry[x]: the entry point, one of the Entries
    Steps,        \* workflow_step rows a run may have (activity, step name)
    NoRun,        \* the NULL of workflow_execution_lease.workflow_run_id
    Lease,        \* WORKFLOW_LEASE_SECONDS (60 s), in ticks
    BeatEvery,    \* WORKFLOW_LOCK_HEARTBEAT_SECONDS (15 s)
    StartupAge,   \* age of a stale run at start-up (120 s)
    OrphanAge,    \* ORPHAN_MINIMUM_AGE (300 s)
    Slack,        \* longest wait for the scheduler and one database answer
    Timely,       \* TRUE: no live invocation waits longer than Slack
    Faults        \* which of the Calls to the database may fail

Calls == {"start", "acquire", "heartbeat", "step", "finish", "release"}
Entries == {"scheduled", "request", "operation", "recovery"}

ASSUME LedgerConstants ==
    /\ Home \in [Invocations -> Instances]
    /\ Entry \in [Invocations -> Entries]
    /\ NoRun \notin Invocations
    /\ Lease \in Nat /\ BeatEvery \in Nat /\ Slack \in Nat
    /\ StartupAge \in Nat /\ OrphanAge \in Nat
    /\ StartupAge <= OrphanAge
    /\ Timely \in BOOLEAN /\ Faults \subseteq Calls

\* The margins 60 s, 15 s, 120 s leave for slow answers.
ASSUME LedgerMargins ==
    /\ BeatEvery + 2 * Slack < Lease
    /\ 2 * Slack < StartupAge

VARIABLES
    status,     \* workflow_run.status, "none" before the INSERT
    step,       \* workflow_step.status of each step of each run
    age,        \* now() - workflow_run.heartbeat_at of a running row
    holder,     \* workflow_execution_lease.workflow_run_id
    leaseLeft,  \* workflow_execution_lease.lease_until - now()
    pc,         \* where each invocation is
    ahead,      \* who holds or waits for the write_lock before it (FIFO)
    lag,        \* time since its last answer
    work,       \* what it knows of its own steps
    outcome,    \* how its run is going to be closed
    up,         \* which instances run
    catchUp     \* catch_up_required of each instance's recovery loop

ledger == <<status, step, age>>
lease  == <<holder, leaseLeft>>
local  == <<pc, ahead, lag, work, outcome>>
procs  == <<up, catchUp>>
vars   == <<ledger, lease, local, procs>>

Closed    == {"succeeded", "partial_failed", "failed", "blocked"}
InRun     == {"entering", "working", "finishing"}  \* between acquire and finish
AwaitsDb  == {"acquiring", "entering", "closing", "finishing", "releasing"}
PastLock  == AwaitsDb \cup {"working", "notifying"}
Pcs       == PastLock \cup {"unborn", "queued", "ended"}
Outcomes  == {"ok", "partial", "all_failed", "error", "blocked", "lock_failed"}
StepState == {"none", "running", "succeeded", "failed"}
WorkState == {"idle", "open", "ok", "bad"}

LedgerType ==
    /\ status \in [Invocations -> Closed \cup {"none", "running"}]
    /\ step \in [Invocations -> [Steps -> StepState]]
    /\ age \in [Invocations -> 0 .. OrphanAge]

LeaseType ==
    /\ holder \in Invocations \cup {NoRun}
    /\ leaseLeft \in 0 .. Lease

LocalType ==
    /\ pc \in [Invocations -> Pcs]
    /\ ahead \in [Invocations -> SUBSET Invocations]
    /\ lag \in [Invocations -> 0 .. (BeatEvery + Slack)]
    /\ work \in [Invocations -> [Steps -> WorkState]]
    /\ outcome \in [Invocations -> Outcomes]

ProcsType ==
    /\ up \in [Instances -> BOOLEAN]
    /\ catchUp \in [Instances -> BOOLEAN]

TypeOK == LedgerType /\ LeaseType /\ LocalType /\ ProcsType

Live(x) == pc[x] \notin {"unborn", "ended"}

Init ==
    /\ status = [x \in Invocations |-> "none"]
    /\ step = [x \in Invocations |-> [s \in Steps |-> "none"]]
    /\ age = [x \in Invocations |-> 0]
    /\ holder = NoRun /\ leaseLeft = 0
    /\ pc = [x \in Invocations |-> "unborn"]
    /\ ahead = [x \in Invocations |-> {}]
    /\ lag = [x \in Invocations |-> 0]
    /\ work = [x \in Invocations |-> [s \in Steps |-> "idle"]]
    /\ outcome = [x \in Invocations |-> "ok"]
    /\ up = [i \in Instances |-> TRUE]
    /\ catchUp = [i \in Instances |-> FALSE]

-----------------------------------------------------------------------------
(* The control of one invocation. *)

MoveTo(x, p) ==
    /\ pc' = [pc EXCEPT ![x] = p]
    /\ lag' = [lag EXCEPT ![x] = 0]

Fail(x, o, p) ==
    /\ MoveTo(x, p)
    /\ outcome' = [outcome EXCEPT ![x] = o]
    /\ UNCHANGED <<ahead, work>>

\* Mutant: a dropped invocation keeps its place in the queue of the lock.
LeaveAllLocked(gone) ==
    /\ pc' = [y \in Invocations |-> IF y \in gone THEN "ended" ELSE pc[y]]
    /\ lag' = [y \in Invocations |-> IF y \in gone THEN 0 ELSE lag[y]]
    /\ work' = [y \in Invocations |->
                   IF y \in gone THEN [s \in Steps |-> "idle"] ELSE work[y]]
    /\ outcome' = [y \in Invocations |-> IF y \in gone THEN "ok" ELSE outcome[y]]
    /\ UNCHANGED ahead

\* The invocations of gone return or are dropped: their guards of the
\* write_lock are released and whoever waited behind them moves up.
LeaveAll(gone) ==
    /\ pc' = [y \in Invocations |-> IF y \in gone THEN "ended" ELSE pc[y]]
    /\ lag' = [y \in Invocations |-> IF y \in gone THEN 0 ELSE lag[y]]
    /\ ahead' = [y \in Invocations |-> IF y \in gone THEN {} ELSE ahead[y] \ gone]
    /\ work' = [y \in Invocations |->
                   IF y \in gone THEN [s \in Steps |-> "idle"] ELSE work[y]]
    /\ outcome' = [y \in Invocations |-> IF y \in gone THEN "ok" ELSE outcome[y]]

Leave(x) == LeaveAll({x})

Neighbours(x) == {y \in Invocations : Live(y) /\ Home[y] = Home[x]}

\* write_lock.lock().await: every entry point but the scheduler's waits.
Arrive(x) ==
    /\ pc[x] = "unborn" /\ up[Home[x]] /\ Entry[x] # "recovery"
    /\ Entry[x] = "scheduled" => Neighbours(x) = {}
    /\ MoveTo(x, "queued")
    /\ ahead' = [ahead EXCEPT ![x] = Neighbours(x)]
    /\ UNCHANGED <<ledger, lease, work, outcome, procs>>

\* try_lock failed: the scheduled trigger is skipped, not queued.
SkipTrigger(x) ==
    /\ pc[x] = "unborn" /\ up[Home[x]] /\ Entry[x] = "scheduled"
    /\ Neighbours(x) # {}
    /\ Leave(x)
    /\ UNCHANGED <<ledger, lease, procs>>

HasLock(x) == ahead[x] = {}

-----------------------------------------------------------------------------
(* The statements of WorkflowRunRepository. *)

OpenRow(x) ==
    /\ status' = [status EXCEPT ![x] = "running"]
    /\ age' = [age EXCEPT ![x] = 0]
    /\ UNCHANGED step

\* Mutant: without the condition on lease_until.
TakeLeaseAlways(x) == holder' = x /\ leaseLeft' = Lease

\* UPDATE ... WHERE lease_until <= now(), by a run of any status.
TakeLease(x) ==
    /\ leaseLeft = 0
    /\ holder' = x /\ leaseLeft' = Lease

\* lease_until is not compared: an expired lease nobody took is revived.
Renew(x) ==
    /\ holder = x
    /\ leaseLeft' = Lease
    /\ age' = IF status[x] = "running" THEN [age EXCEPT ![x] = 0] ELSE age
    /\ UNCHANGED <<holder, status, step>>

CloseSteps(x) ==
    [s \in Steps |-> IF step[x][s] = "running" THEN "failed" ELSE step[x][s]]

StatusOf(o) ==
    CASE o = "ok" -> "succeeded"
      [] o = "partial" -> "partial_failed"
      [] o = "blocked" -> "blocked"
      [] OTHER -> "failed"

\* Unconditional on the present status; only finish_run_failure closes steps.
CloseRow(x) ==
    /\ status' = [status EXCEPT ![x] = StatusOf(outcome[x])]
    /\ step' = IF outcome[x] \in {"error", "blocked", "lock_failed"}
               THEN [step EXCEPT ![x] = CloseSteps(x)] ELSE step
    /\ age' = [age EXCEPT ![x] = 0]  \* the age of a closed row is never read

DropLease(x) ==
    IF holder = x THEN holder' = NoRun /\ leaseLeft' = 0 ELSE UNCHANGED lease

\* A failed call may or may not have been applied.
EitherApplied(call, effect, unchanged) == call \in Faults /\ (effect \/ unchanged)

-----------------------------------------------------------------------------
(* begin_exclusive_run *)

StartRun(x) ==
    /\ pc[x] = "queued" /\ HasLock(x)
    /\ OpenRow(x)
    /\ MoveTo(x, "acquiring")
    /\ UNCHANGED <<lease, ahead, work, outcome, procs>>

StartRunFails(x) ==
    /\ pc[x] = "queued" /\ HasLock(x)
    /\ EitherApplied("start", OpenRow(x), UNCHANGED ledger)
    /\ Leave(x)
    /\ UNCHANGED <<lease, procs>>

Acquire(x) ==
    /\ pc[x] = "acquiring"
    /\ TakeLease(x)
    /\ MoveTo(x, "entering")
    /\ UNCHANGED <<ledger, ahead, work, outcome, procs>>

AcquireBusy(x) ==
    /\ pc[x] = "acquiring" /\ leaseLeft > 0
    /\ Fail(x, "blocked", "closing")
    /\ UNCHANGED <<ledger, lease, procs>>

AcquireFails(x) ==
    /\ pc[x] = "acquiring"
    /\ EitherApplied("acquire", TakeLease(x), UNCHANGED lease)
    /\ Fail(x, "lock_failed", "closing")
    /\ UNCHANGED <<ledger, procs>>

\* finish_run_failure of a run that never worked; the lease is left alone.
CloseRejected(x) ==
    /\ pc[x] = "closing"
    /\ CloseRow(x) \/ EitherApplied("finish", CloseRow(x), UNCHANGED ledger)
    /\ Leave(x)
    /\ UNCHANGED <<lease, procs>>

-----------------------------------------------------------------------------
(* with_run_heartbeat and the tracked steps of the operation *)

BeatDue(x) == pc[x] = "entering" \/ (pc[x] = "working" /\ lag[x] >= BeatEvery)

Heartbeat(x) ==
    /\ BeatDue(x)
    /\ holder = x /\ status[x] = "running"
    /\ Renew(x)
    /\ MoveTo(x, "working")
    /\ UNCHANGED <<ahead, work, outcome, procs>>

\* heartbeat_run answered false: the operation is dropped where it stands.
HeartbeatRefused(x) ==
    /\ BeatDue(x)
    /\ IF holder = x THEN status[x] # "running" /\ Renew(x)
                     ELSE UNCHANGED <<ledger, lease>>
    /\ Fail(x, "error", "finishing")
    /\ UNCHANGED procs

HeartbeatFails(x) ==
    /\ BeatDue(x)
    /\ EitherApplied("heartbeat", Renew(x), UNCHANGED <<ledger, lease>>)
    /\ Fail(x, "error", "finishing")
    /\ UNCHANGED procs

SetWork(x, s, w) == work' = [work EXCEPT ![x][s] = w]
SetStep(x, s, v) == step' = [step EXCEPT ![x][s] = v]

\* The retry loop of a project runs its steps again; an operation has one.
MayBegin(x, s) ==
    IF Entry[x] = "operation" THEN \A t \in Steps : work[x][t] = "idle"
                              ELSE work[x][s] \in {"idle", "bad"}

\* start_step: INSERT ... ON CONFLICT DO UPDATE, whatever the run's status.
BeginStep(x, s) ==
    /\ pc[x] = "working" /\ MayBegin(x, s)
    /\ \/ SetStep(x, s, "running") /\ SetWork(x, s, "open")
       \/ EitherApplied("step", SetStep(x, s, "running"), UNCHANGED step) /\ SetWork(x, s, "bad")
    /\ UNCHANGED <<status, age, lease, pc, ahead, lag, outcome, procs>>

\* finish_step_success, finish_step_failure or, after a time-out,
\* fail_running_steps_for_activity; a failed write leaves the row running.
EndStep(x, s) ==
    /\ pc[x] = "working" /\ work[x][s] = "open"
    /\ \/ SetStep(x, s, "succeeded") /\ SetWork(x, s, "ok")
       \/ SetStep(x, s, "failed") /\ SetWork(x, s, "bad")
       \/ EitherApplied("step", SetStep(x, s, "succeeded"), UNCHANGED step) /\ SetWork(x, s, "bad")
    /\ UNCHANGED <<status, age, lease, pc, ahead, lag, outcome, procs>>

Did(x, w) == \E s \in Steps : work[x][s] = w

\* Mutant: a workflow succeeds when one of its projects does.
VerdictsLenient(x) ==
    IF Did(x, "ok") THEN {"ok"}
    ELSE IF Entry[x] = "operation" /\ ~Did(x, "bad") THEN {} ELSE {"error"}

\* Ok or Err of its one step for an operation.  aggregate_activity_outcomes,
\* or Err before it, for a workflow: a project may also fail before its first
\* step (client_for_project) or between two, and leave no failed step.
Verdicts(x) ==
    IF Entry[x] = "operation"
    THEN {o \in {"ok", "error"} : IF o = "ok" THEN Did(x, "ok") /\ ~Did(x, "bad")
                                             ELSE Did(x, "bad")}
    ELSE {o \in {"ok", "partial", "all_failed", "error"} :
             /\ o = "ok" => ~Did(x, "bad")
             /\ o = "partial" => Did(x, "ok")
             /\ o = "error" => ~Did(x, "ok") /\ ~Did(x, "bad")}

Complete(x) ==
    /\ pc[x] = "working" /\ ~Did(x, "open")
    /\ \E o \in Verdicts(x) : Fail(x, o, "finishing")
    /\ UNCHANGED <<ledger, lease, procs>>

-----------------------------------------------------------------------------
(* The end of run_workflow_exclusive and of the one-shot operations *)

Finish(x) ==
    /\ pc[x] = "finishing"
    /\ CloseRow(x)
    /\ MoveTo(x, "releasing")
    /\ UNCHANGED <<lease, ahead, work, outcome, procs>>

\* The `?` after the finish call: the lease is not released.
FinishFails(x) ==
    /\ pc[x] = "finishing"
    /\ EitherApplied("finish", CloseRow(x), UNCHANGED ledger)
    /\ Leave(x)
    /\ UNCHANGED <<lease, procs>>

Release(x) ==
    /\ pc[x] = "releasing"
    /\ DropLease(x)
    /\ MoveTo(x, "notifying")
    /\ UNCHANGED <<ledger, ahead, work, outcome, procs>>

ReleaseFails(x) ==
    /\ pc[x] = "releasing"
    /\ EitherApplied("release", DropLease(x), UNCHANGED lease)
    /\ Leave(x)
    /\ UNCHANGED <<ledger, procs>>

\* The error notices are sent, if any, and the write_lock is given up.
Return(x) ==
    /\ pc[x] = "notifying"
    /\ Leave(x)
    /\ UNCHANGED <<ledger, lease, procs>>

\* A one-shot operation runs inside its HTTP handler: a client that hangs
\* up drops it at whatever await it is in.
Cancel(x) ==
    /\ Entry[x] = "operation" /\ Live(x)
    /\ Leave(x)
    /\ UNCHANGED <<ledger, lease, procs>>

-----------------------------------------------------------------------------
(* Crash, start-up, orphan recovery, time *)

HasLease(x) == holder = x /\ leaseLeft > 0

Old(minimumAge) == {x \in Invocations : status[x] = "running" /\ age[x] >= minimumAge}

\* Mutant: only the run whose lease has expired is an orphan.
OrphansWithLease(minimumAge) ==
    {x \in Old(minimumAge) : holder = x /\ leaseLeft = 0}

Orphans(minimumAge) == {x \in Old(minimumAge) : ~HasLease(x)}

\* Mutant: clears the lease without looking at lease_until.
ClearAny(minimumAge) ==
    IF Old(minimumAge) # {} THEN holder' = NoRun /\ leaseLeft' = 0 ELSE UNCHANGED lease

ClearExpired(minimumAge) ==
    IF Old(minimumAge) # {} /\ leaseLeft = 0
    THEN holder' = NoRun /\ UNCHANGED leaseLeft ELSE UNCHANGED lease

\* reconcile_orphaned_runs_if_idle, one transaction.
Reconcile(minimumAge) ==
    LET orphans == Orphans(minimumAge) IN
    /\ status' = [x \in Invocations |-> IF x \in orphans THEN "failed" ELSE status[x]]
    /\ step' = [x \in Invocations |-> IF x \in orphans THEN CloseSteps(x) ELSE step[x]]
    /\ age' = [x \in Invocations |-> IF x \in orphans THEN 0 ELSE age[x]]
    /\ ClearExpired(minimumAge)

Crash(i) ==
    /\ up[i]
    /\ up' = [up EXCEPT ![i] = FALSE]
    /\ catchUp' = [catchUp EXCEPT ![i] = FALSE]
    /\ LeaveAll({x \in Invocations : Live(x) /\ Home[x] = i})
    /\ UNCHANGED <<ledger, lease>>

\* build_state: stale runs are reclaimed before the scheduler starts.
Restart(i) ==
    /\ ~up[i]
    /\ Reconcile(StartupAge)
    /\ up' = [up EXCEPT ![i] = TRUE]
    /\ catchUp' = [catchUp EXCEPT ![i] = Orphans(StartupAge) # {}]
    /\ UNCHANGED local

Recoveries(i, p) ==
    {x \in Invocations : Entry[x] = "recovery" /\ Home[x] = i /\ pc[x] \in p}

\* One turn of run_orphan_recovery_loop.  The loop makes its compensation
\* run first; Invocations bounds how many of those there are.
RecoverOrphans(i) ==
    /\ up[i]
    /\ Recoveries(i, Pcs \ {"unborn", "ended"}) = {}
    /\ catchUp[i] => Recoveries(i, {"unborn"}) = {}
    /\ Old(OrphanAge) # {}
    /\ Reconcile(OrphanAge)
    /\ catchUp' = [catchUp EXCEPT ![i] = @ \/ Orphans(OrphanAge) # {}]
    /\ UNCHANGED <<local, up>>

\* catch_up_required is reset whatever the compensation run comes to.
CatchUp(x) ==
    /\ pc[x] = "unborn" /\ Entry[x] = "recovery"
    /\ up[Home[x]] /\ catchUp[Home[x]]
    /\ Recoveries(Home[x], Pcs \ {"unborn", "ended"}) = {}
    /\ catchUp' = [catchUp EXCEPT ![Home[x]] = FALSE]
    /\ MoveTo(x, "queued")
    /\ ahead' = [ahead EXCEPT ![x] = Neighbours(x)]
    /\ UNCHANGED <<ledger, lease, work, outcome, up>>

MaxLag(x) == IF pc[x] = "working" THEN BeatEvery + Slack ELSE Slack
Timed(x) == pc[x] \in AwaitsDb \cup {"working"}

Tick ==
    /\ Timely => \A x \in Invocations : Timed(x) => lag[x] < MaxLag(x)
    /\ leaseLeft' = IF leaseLeft > 0 THEN leaseLeft - 1 ELSE 0
    /\ age' = [x \in Invocations |->
                 IF status[x] = "running" /\ age[x] < OrphanAge THEN age[x] + 1 ELSE age[x]]
    /\ lag' = [x \in Invocations |->
                 IF Timed(x) /\ lag[x] < MaxLag(x) THEN lag[x] + 1 ELSE lag[x]]
    /\ UNCHANGED <<status, step, holder, pc, ahead, work, outcome, procs>>

Proceed(x) ==
    \/ StartRun(x) \/ StartRunFails(x)
    \/ Acquire(x) \/ AcquireBusy(x) \/ AcquireFails(x) \/ CloseRejected(x)
    \/ Heartbeat(x) \/ HeartbeatRefused(x) \/ HeartbeatFails(x)
    \/ \E s \in Steps : BeginStep(x, s) \/ EndStep(x, s)
    \/ Complete(x)
    \/ Finish(x) \/ FinishFails(x) \/ Release(x) \/ ReleaseFails(x) \/ Return(x)

Next ==
    \/ \E x \in Invocations : Arrive(x) \/ SkipTrigger(x) \/ CatchUp(x)
    \/ \E x \in Invocations : Proceed(x) \/ Cancel(x)
    \/ \E i \in Instances : Crash(i) \/ Restart(i) \/ RecoverOrphans(i)
    \/ Tick

Spec == Init /\ [][Next]_vars

(* A live instance runs its tasks and its recovery loop, time passes, and a *)
(* crashed instance is started again.  A step ends because every outgoing   *)
(* request and every project has a time-out; an operation runs out of steps *)
(* to retry because max_attempts bounds them, hence the strong fairness.    *)
Fairness ==
    /\ \A x \in Invocations :
          /\ WF_vars(Proceed(x))
          /\ WF_vars(\E s \in Steps : BeginStep(x, s))
          /\ \A s \in Steps : WF_vars(EndStep(x, s))
          /\ SF_vars(Complete(x))
          /\ WF_vars(CatchUp(x))
    /\ \A i \in Instances : WF_vars(Restart(i)) /\ WF_vars(RecoverOrphans(i))
    /\ WF_vars(Tick)

FairSpec == Spec /\ Fairness

-----------------------------------------------------------------------------
(* Properties *)

\* The write_lock: whatever the timing and whatever fails, one instance
\* never has two invocations between the lock and their return
\* (workflow.rs, `let _guard = self.write_lock...`).
LocalExclusion ==
    \A x, y \in Invocations :
        x # y /\ Home[x] = Home[y] /\ pc[x] \in PastLock => pc[y] \notin PastLock

\* The lease: at any moment at most one invocation of all the instances is
\* between acquiring the lease and closing its run, so business tables have
\* one writer.  It takes Timely: see LedgerMargins.
SingleWriter ==
    \A x, y \in Invocations : pc[x] \in InRun /\ pc[y] \in InRun => x = y

\* A run whose task still renews its lease is never reclaimed as an orphan
\* under it (the promise of the comment at workflow_run.rs:612-615).
LiveRunNotReclaimed ==
    \A x \in Invocations :
        pc[x] \in InRun \cup {"acquiring", "closing"} => status[x] = "running"

\* A closed row keeps its status: the finish calls, which update by id
\* alone, never overwrite what another path has recorded.
ClosedStaysClosed ==
    [][\A x \in Invocations : status[x] \in Closed => status'[x] = status[x]]_vars

\* A lease that has not expired changes hands only when its owner's task
\* gives it up, stalls and database faults included.
UnexpiredLeaseIsKept ==
    [][leaseLeft > 0 /\ holder # NoRun /\ holder' # holder
         => pc[holder] = "releasing"]_vars

\* When a run is closed and its task has gone, the ledger shows no step of
\* it as running: orphan recovery and the finish calls close both tables.
NoStepLeftRunning ==
    \A x \in Invocations :
        status[x] \in Closed /\ ~Live(x) => \A s \in Steps : step[x][s] # "running"

\* A run recorded as succeeded has no step that failed or never ended.
SuccessMeansSteps ==
    \A x \in Invocations :
        status[x] = "succeeded" => \A s \in Steps : step[x][s] \in {"none", "succeeded"}

\* The steps and the runs of the ledger agree, which list_project_runs shows
\* side by side although calls that fail, crashes, cancellations and orphan
\* recovery close them in transactions of their own.
StepsAgree == NoStepLeftRunning /\ SuccessMeansSteps

\* With prompt tasks the lease, the heartbeat and the recovery together
\* implement the exclusive ledger.
writer ==
    IF \E x \in Invocations : pc[x] \in InRun
    THEN CHOOSE x \in Invocations : pc[x] \in InRun ELSE NoRun
row == [x \in Invocations |-> IF status[x] \in Closed THEN "closed" ELSE status[x]]

Exclusive == INSTANCE ExclusiveLedger
ImplementsExclusiveLedger == Exclusive!Spec

\* Whatever crashes, is cancelled or loses its answer, no run stays
\* "running" for ever: its task or orphan recovery closes the row.
RowsClose == \A x \in Invocations : status[x] = "running" ~> status[x] \in Closed

\* Nobody waits for the write_lock for ever.
QueueMoves == \A x \in Invocations : pc[x] = "queued" ~> pc[x] # "queued"
=============================================================================
