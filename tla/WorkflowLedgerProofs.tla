------------------------ MODULE WorkflowLedgerProofs ------------------------
(***************************************************************************)
(* Theorems about WorkflowLedger, for every set of instances and           *)
(* invocations and every choice of the time constants that keeps the       *)
(* margins.                                                                *)
(***************************************************************************)
EXTENDS WorkflowLedger, TLAPS

(***************************************************************************)
(* Type correctness.                                                       *)
(***************************************************************************)

\* Giving up the write_lock keeps the local state well typed.
LEMMA LeaveAllType ==
    ASSUME LocalType, NEW gone \in SUBSET Invocations, LeaveAll(gone)
    PROVE  LocalType'
  <1>1. pc' \in [Invocations -> Pcs]  BY DEF LocalType, LeaveAll, Pcs
  <1>2. ahead' \in [Invocations -> SUBSET Invocations]  BY DEF LocalType, LeaveAll
  <1>3. lag' \in [Invocations -> 0 .. (BeatEvery + Slack)]
    BY LedgerConstants DEF LocalType, LeaveAll, LedgerConstants
  <1>4. work' \in [Invocations -> [Steps -> WorkState]]
    BY DEF LocalType, LeaveAll, WorkState
  <1>5. outcome' \in [Invocations -> Outcomes]  BY DEF LocalType, LeaveAll, Outcomes
  <1> QED  BY <1>1, <1>2, <1>3, <1>4, <1>5 DEF LocalType

\* A step along the control of one invocation keeps its state well typed.
LEMMA MoveToType ==
    ASSUME LocalType, NEW x \in Invocations, NEW p \in Pcs, MoveTo(x, p)
    PROVE  /\ pc' \in [Invocations -> Pcs]
           /\ lag' \in [Invocations -> 0 .. (BeatEvery + Slack)]
  BY LedgerConstants DEF LocalType, MoveTo, LedgerConstants

LEMMA FailType ==
    ASSUME LocalType, NEW x \in Invocations, NEW o \in Outcomes, NEW p \in Pcs,
           Fail(x, o, p)
    PROVE  LocalType'
  BY MoveToType DEF LocalType, Fail

LEMMA OpenRowType ==
    ASSUME LedgerType, NEW x \in Invocations, OpenRow(x)
    PROVE  LedgerType'
  BY LedgerConstants DEF LedgerType, OpenRow, LedgerConstants, Closed

LEMMA StatusOfClosed == ASSUME NEW o PROVE StatusOf(o) \in Closed
  BY DEF StatusOf, Closed

LEMMA CloseRowType ==
    ASSUME LedgerType, LocalType, NEW x \in Invocations, CloseRow(x)
    PROVE  LedgerType'
  <1>1. StatusOf(outcome[x]) \in Closed  BY StatusOfClosed
  <1>2. CloseSteps(x) \in [Steps -> StepState]
    BY DEF LedgerType, CloseSteps, StepState
  <1>3. status' \in [Invocations -> Closed \cup {"none", "running"}]
    BY <1>1 DEF LedgerType, CloseRow
  <1>4. step' \in [Invocations -> [Steps -> StepState]]
    BY <1>2 DEF LedgerType, CloseRow
  <1>5. age' \in [Invocations -> 0 .. OrphanAge]
    BY LedgerConstants DEF LedgerType, CloseRow, LedgerConstants
  <1> QED  BY <1>3, <1>4, <1>5 DEF LedgerType

LEMMA LeaseTypes ==
    ASSUME LeaseType, LedgerType, NEW x \in Invocations
    PROVE  /\ TakeLease(x) => LeaseType'
           /\ DropLease(x) => LeaseType'
           /\ Renew(x) => LeaseType' /\ LedgerType'
  <1>1. Lease \in 0 .. Lease /\ 0 \in 0 .. Lease /\ 0 \in 0 .. OrphanAge
    BY LedgerConstants DEF LedgerConstants
  <1>2. TakeLease(x) => LeaseType'  BY <1>1 DEF LeaseType, TakeLease
  <1>3. DropLease(x) => LeaseType'  BY <1>1 DEF LeaseType, DropLease, lease
  <1>4. Renew(x) => LeaseType' /\ LedgerType'
    BY <1>1 DEF LeaseType, LedgerType, Renew
  <1> QED  BY <1>2, <1>3, <1>4

LEMMA ReconcileType ==
    ASSUME LedgerType, LeaseType, NEW minimumAge, Reconcile(minimumAge)
    PROVE  LedgerType' /\ LeaseType'
  <1>1. \A x \in Invocations : CloseSteps(x) \in [Steps -> StepState]
    BY DEF LedgerType, CloseSteps, StepState
  <1>2. status' \in [Invocations -> Closed \cup {"none", "running"}]
    BY DEF LedgerType, Reconcile, Closed
  <1>3. step' \in [Invocations -> [Steps -> StepState]]
    BY <1>1 DEF LedgerType, Reconcile
  <1>4. age' \in [Invocations -> 0 .. OrphanAge]
    BY LedgerConstants DEF LedgerType, Reconcile, LedgerConstants
  <1>5. LeaseType'  BY DEF LeaseType, Reconcile, ClearExpired, lease
  <1> QED  BY <1>2, <1>3, <1>4, <1>5 DEF LedgerType

\* One step of one invocation keeps the state well typed.
LEMMA ProceedType ==
    ASSUME TypeOK, NEW x \in Invocations, Proceed(x)
    PROVE  TypeOK'
  <1> USE DEF TypeOK, ledger, lease, local, procs, EitherApplied
  <1>p. PastLock \subseteq Pcs /\ AwaitsDb \subseteq PastLock
        /\ {"working", "notifying"} \subseteq PastLock
    BY DEF Pcs, PastLock
  <1>1. CASE StartRun(x)
    <2>1. LocalType'
      BY <1>1, <1>p, MoveToType DEF StartRun, LocalType, AwaitsDb
    <2> QED  BY <1>1, <2>1, OpenRowType DEF StartRun, LeaseType, ProcsType
  <1>2. CASE StartRunFails(x)
    <2>1. LocalType'  BY <1>2, LeaveAllType DEF StartRunFails, Leave
    <2>2. LedgerType'  BY <1>2, OpenRowType DEF StartRunFails, LedgerType
    <2> QED  BY <1>2, <2>1, <2>2 DEF StartRunFails, LeaseType, ProcsType
  <1>3. CASE Acquire(x)
    <2>1. LocalType'
      BY <1>3, <1>p, MoveToType DEF Acquire, LocalType, AwaitsDb
    <2> QED  BY <1>3, <2>1, LeaseTypes DEF Acquire, LedgerType, ProcsType
  <1>4. CASE AcquireBusy(x)
    BY <1>4, <1>p, FailType
       DEF AcquireBusy, LedgerType, LeaseType, ProcsType, AwaitsDb, Outcomes
  <1>5. CASE AcquireFails(x)
    <2>1. LocalType'
      BY <1>5, <1>p, FailType DEF AcquireFails, AwaitsDb, Outcomes
    <2>2. LeaseType'  BY <1>5, LeaseTypes DEF AcquireFails, LeaseType
    <2> QED  BY <1>5, <2>1, <2>2 DEF AcquireFails, LedgerType, ProcsType
  <1>6. CASE CloseRejected(x)
    <2>1. LocalType'  BY <1>6, LeaveAllType DEF CloseRejected, Leave
    <2>2. LedgerType'  BY <1>6, CloseRowType DEF CloseRejected, LedgerType
    <2> QED  BY <1>6, <2>1, <2>2 DEF CloseRejected, LeaseType, ProcsType
  <1>7. CASE Heartbeat(x)
    <2>1. LocalType'
      BY <1>7, <1>p, MoveToType DEF Heartbeat, LocalType
    <2> QED  BY <1>7, <2>1, LeaseTypes DEF Heartbeat, ProcsType
  <1>8. CASE HeartbeatRefused(x)
    <2>1. LocalType'
      BY <1>8, <1>p, FailType DEF HeartbeatRefused, AwaitsDb, Outcomes
    <2>2. LeaseType' /\ LedgerType'
      BY <1>8, LeaseTypes DEF HeartbeatRefused, LeaseType, LedgerType
    <2> QED  BY <1>8, <2>1, <2>2 DEF HeartbeatRefused, ProcsType
  <1>9. CASE HeartbeatFails(x)
    <2>1. LocalType'
      BY <1>9, <1>p, FailType DEF HeartbeatFails, AwaitsDb, Outcomes
    <2>2. LeaseType' /\ LedgerType'
      BY <1>9, LeaseTypes DEF HeartbeatFails, LeaseType, LedgerType
    <2> QED  BY <1>9, <2>1, <2>2 DEF HeartbeatFails, ProcsType
  <1>10. ASSUME NEW s \in Steps, BeginStep(x, s) \/ EndStep(x, s)
         PROVE  TypeOK'
    <2>1. \A w \in WorkState : SetWork(x, s, w) => work' \in [Invocations -> [Steps -> WorkState]]
      BY DEF SetWork, LocalType
    <2>2. \A v \in StepState : SetStep(x, s, v) => step' \in [Invocations -> [Steps -> StepState]]
      BY DEF SetStep, LedgerType
    <2>3. work' \in [Invocations -> [Steps -> WorkState]]
      BY <1>10, <2>1 DEF BeginStep, EndStep, WorkState
    <2>4. step' \in [Invocations -> [Steps -> StepState]]
      BY <1>10, <2>2 DEF BeginStep, EndStep, StepState, LedgerType
    <2> QED
      BY <1>10, <2>3, <2>4
         DEF BeginStep, EndStep, LedgerType, LeaseType, LocalType, ProcsType
  <1>11. CASE Complete(x)
    <2>1. Verdicts(x) \subseteq Outcomes  BY DEF Verdicts, Outcomes
    <2> QED
      BY <1>11, <1>p, <2>1, FailType
         DEF Complete, LedgerType, LeaseType, ProcsType, AwaitsDb
  <1>12. CASE Finish(x)
    <2>1. LocalType'
      BY <1>12, <1>p, MoveToType DEF Finish, LocalType, AwaitsDb
    <2> QED  BY <1>12, <2>1, CloseRowType DEF Finish, LeaseType, ProcsType
  <1>13. CASE FinishFails(x)
    <2>1. LocalType'  BY <1>13, LeaveAllType DEF FinishFails, Leave
    <2>2. LedgerType'  BY <1>13, CloseRowType DEF FinishFails, LedgerType
    <2> QED  BY <1>13, <2>1, <2>2 DEF FinishFails, LeaseType, ProcsType
  <1>14. CASE Release(x)
    <2>1. LocalType'
      BY <1>14, <1>p, MoveToType DEF Release, LocalType
    <2> QED  BY <1>14, <2>1, LeaseTypes DEF Release, LedgerType, ProcsType
  <1>15. CASE ReleaseFails(x)
    <2>1. LocalType'  BY <1>15, LeaveAllType DEF ReleaseFails, Leave
    <2>2. LeaseType'  BY <1>15, LeaseTypes DEF ReleaseFails, LeaseType
    <2> QED  BY <1>15, <2>1, <2>2 DEF ReleaseFails, LedgerType, ProcsType
  <1>16. CASE Return(x)
    BY <1>16, LeaveAllType DEF Return, Leave, LedgerType, LeaseType, ProcsType
  <1> QED
    BY <1>1, <1>2, <1>3, <1>4, <1>5, <1>6, <1>7, <1>8, <1>9, <1>10, <1>11,
       <1>12, <1>13, <1>14, <1>15, <1>16 DEF Proceed

\* Every step keeps the state well typed.
LEMMA NextType == ASSUME TypeOK, [Next]_vars PROVE TypeOK'
  <1> USE DEF TypeOK
  <1>p. "queued" \in Pcs  BY DEF Pcs
  <1>1. CASE UNCHANGED vars
    BY <1>1 DEF vars, ledger, lease, local, procs, LedgerType, LeaseType, LocalType, ProcsType
  <1>2. ASSUME NEW x \in Invocations, Arrive(x) PROVE TypeOK'
    <2>1. Neighbours(x) \subseteq Invocations  BY DEF Neighbours
    <2>2. LocalType'  BY <1>p, <1>2, <2>1, MoveToType DEF Arrive, LocalType
    <2> QED
      BY <1>2, <2>2 DEF Arrive, ledger, lease, procs, LedgerType, LeaseType, ProcsType
  <1>3. ASSUME NEW x \in Invocations, SkipTrigger(x) PROVE TypeOK'
    BY <1>3, LeaveAllType
       DEF SkipTrigger, Leave, ledger, lease, procs, LedgerType, LeaseType, ProcsType
  <1>4. ASSUME NEW x \in Invocations, CatchUp(x) PROVE TypeOK'
    <2>1. Neighbours(x) \subseteq Invocations  BY DEF Neighbours
    <2>2. LocalType'  BY <1>p, <1>4, <2>1, MoveToType DEF CatchUp, LocalType
    <2>3. ProcsType'  BY <1>4 DEF CatchUp, ProcsType
    <2> QED  BY <1>4, <2>2, <2>3 DEF CatchUp, ledger, lease, LedgerType, LeaseType
  <1>5. ASSUME NEW x \in Invocations, Proceed(x) PROVE TypeOK'
    BY <1>5, ProceedType
  <1>6. ASSUME NEW x \in Invocations, Cancel(x) PROVE TypeOK'
    BY <1>6, LeaveAllType
       DEF Cancel, Leave, ledger, lease, procs, LedgerType, LeaseType, ProcsType
  <1>7. ASSUME NEW i \in Instances, Crash(i) PROVE TypeOK'
    <2>1. LocalType'  BY <1>7, LeaveAllType DEF Crash
    <2>2. ProcsType'  BY <1>7 DEF Crash, ProcsType
    <2> QED  BY <1>7, <2>1, <2>2 DEF Crash, ledger, lease, LedgerType, LeaseType
  <1>8. ASSUME NEW i \in Instances, Restart(i) PROVE TypeOK'
    <2>1. LedgerType' /\ LeaseType'  BY <1>8, ReconcileType DEF Restart
    <2>2. ProcsType'  BY <1>8 DEF Restart, ProcsType
    <2> QED  BY <1>8, <2>1, <2>2 DEF Restart, local, LocalType
  <1>9. ASSUME NEW i \in Instances, RecoverOrphans(i) PROVE TypeOK'
    <2>1. LedgerType' /\ LeaseType'  BY <1>9, ReconcileType DEF RecoverOrphans
    <2>2. ProcsType'  BY <1>9 DEF RecoverOrphans, ProcsType
    <2> QED  BY <1>9, <2>1, <2>2 DEF RecoverOrphans, local, LocalType
  <1>10. ASSUME Tick PROVE TypeOK'
    <2>1. LeaseType'  BY <1>10, LedgerConstants DEF Tick, LeaseType, LedgerConstants
    <2>2. age' \in [Invocations -> 0 .. OrphanAge]
      BY <1>10, LedgerConstants DEF Tick, LedgerType, LedgerConstants
    <2>3. lag' \in [Invocations -> 0 .. (BeatEvery + Slack)]
      BY <1>10, LedgerConstants DEF Tick, LocalType, LedgerConstants, MaxLag
    <2> QED
      BY <1>10, <2>1, <2>2, <2>3 DEF Tick, procs, LedgerType, LocalType, ProcsType
  <1> QED
    BY <1>1, <1>2, <1>3, <1>4, <1>5, <1>6, <1>7, <1>8, <1>9, <1>10 DEF Next

LEMMA InitType == ASSUME Init PROVE TypeOK
  <1>1. LedgerType  BY LedgerConstants DEF Init, LedgerType, LedgerConstants, StepState
  <1>2. LeaseType  BY LedgerConstants DEF Init, LeaseType, LedgerConstants
  <1>3. LocalType
    BY LedgerConstants DEF Init, LocalType, LedgerConstants, Pcs, WorkState, Outcomes
  <1> QED  BY <1>1, <1>2, <1>3 DEF TypeOK, Init, ProcsType

\* The variables keep their types: no lease longer than Lease, no age beyond
\* the threshold of recovery, whatever stalls or fails.
THEOREM TypeCorrect == Spec => []TypeOK
  BY InitType, NextType, PTL DEF Spec

(***************************************************************************)
(* The write_lock.  Two live invocations of one instance are ordered by    *)
(* arrival, and one that is past the lock has nobody ahead of it.          *)
(***************************************************************************)
LockInv ==
    /\ \A x \in Invocations : pc[x] \in PastLock => ahead[x] = {}
    /\ \A x, y \in Invocations :
         x # y /\ Home[x] = Home[y] /\ Live(x) /\ Live(y)
           => x \in ahead[y] \/ y \in ahead[x]

\* Whoever leaves is taken out of every queue; nobody else moves.
LEMMA LeaveAllLock ==
    ASSUME LocalType, LockInv, NEW gone \in SUBSET Invocations, LeaveAll(gone)
    PROVE  LockInv'
  <1>1. \A x \in Invocations : Live(x)' => x \notin gone /\ Live(x)
    BY DEF LocalType, LeaveAll, Live
  <1>2. \A x \in Invocations :
          x \notin gone => pc'[x] = pc[x] /\ ahead'[x] = ahead[x] \ gone
    BY DEF LocalType, LeaveAll
  <1>3. \A x \in Invocations : pc'[x] \in PastLock => x \notin gone
    BY DEF LocalType, LeaveAll, PastLock, AwaitsDb
  <1>4. \A x \in Invocations : pc'[x] \in PastLock => ahead'[x] = {}
    BY <1>2, <1>3 DEF LockInv
  <1> QED  BY <1>1, <1>2, <1>4 DEF LockInv

\* A newcomer takes its place behind all the live invocations of its home.
LEMMA EnqueueLock ==
    ASSUME LocalType, LockInv, NEW x \in Invocations, pc[x] = "unborn",
           MoveTo(x, "queued"), ahead' = [ahead EXCEPT ![x] = Neighbours(x)]
    PROVE  LockInv'
  <1>1. \A y \in Invocations \ {x} : pc'[y] = pc[y] /\ ahead'[y] = ahead[y]
    BY DEF LocalType, MoveTo
  <1>2. pc'[x] = "queued" /\ ahead'[x] = Neighbours(x)
    BY DEF LocalType, MoveTo
  <1>3. \A y \in Invocations : pc'[y] \in PastLock => y # x
    BY <1>2 DEF PastLock, AwaitsDb
  <1>4. \A y \in Invocations \ {x} : Live(y)' /\ Home[y] = Home[x] => y \in ahead'[x]
    BY <1>1, <1>2 DEF Neighbours, Live
  <1>5. \A y, z \in Invocations \ {x} :
          y # z /\ Home[y] = Home[z] /\ Live(y)' /\ Live(z)'
            => y \in ahead'[z] \/ z \in ahead'[y]
    BY <1>1 DEF LockInv, Live
  <1>6. \A y \in Invocations : pc'[y] \in PastLock => ahead'[y] = {}
    BY <1>1, <1>3 DEF LockInv
  <1> QED  BY <1>4, <1>5, <1>6 DEF LockInv

\* A step of the holder of the lock does not reorder anybody.
LEMMA MoveLock ==
    ASSUME LocalType, LockInv, NEW x \in Invocations, NEW p,
           Live(x), ahead[x] = {}, MoveTo(x, p), UNCHANGED ahead
    PROVE  LockInv'
  BY DEF LocalType, LockInv, MoveTo, Live

LEMMA NextLock == ASSUME TypeOK, LockInv, [Next]_vars PROVE LockInv'
  <1> USE DEF TypeOK
  <1>1. CASE UNCHANGED <<pc, ahead>>
    BY <1>1 DEF LockInv, Live
  <1>2. ASSUME NEW x \in Invocations, Arrive(x) \/ CatchUp(x) PROVE LockInv'
    BY <1>2, EnqueueLock DEF Arrive, CatchUp
  <1>3. ASSUME NEW gone \in SUBSET Invocations, LeaveAll(gone) PROVE LockInv'
    BY <1>3, LeaveAllLock
  <1>4. ASSUME NEW x \in Invocations, Live(x), ahead[x] = {}, NEW p,
               MoveTo(x, p), UNCHANGED ahead
        PROVE  LockInv'
    BY <1>4, MoveLock
  <1>5. ASSUME NEW x \in Invocations, NEW o, NEW p, pc[x] \in PastLock, Fail(x, o, p)
        PROVE  LockInv'
    <2>1. Live(x) /\ ahead[x] = {}
      BY <1>5 DEF LockInv, Live, PastLock, AwaitsDb
    <2> QED  BY <1>4, <1>5, <2>1 DEF Fail
  <1>6. ASSUME NEW x \in Invocations, Proceed(x) PROVE LockInv'
    <2>1. CASE StartRun(x)
      BY <2>1, <1>4 DEF StartRun, HasLock, Live
    <2>2. CASE Acquire(x) \/ Heartbeat(x) \/ Finish(x) \/ Release(x)
      <3>1. pc[x] \in PastLock
        BY <2>2 DEF Acquire, Heartbeat, BeatDue, Finish, Release, PastLock, AwaitsDb
      <3>2. Live(x) /\ ahead[x] = {}
        BY <3>1 DEF LockInv, Live, PastLock, AwaitsDb
      <3> QED  BY <2>2, <3>2, <1>4 DEF Acquire, Heartbeat, Finish, Release
    <2>3. CASE AcquireBusy(x) \/ AcquireFails(x)
      BY <2>3, <1>5 DEF AcquireBusy, AcquireFails, PastLock, AwaitsDb
    <2>4. CASE HeartbeatRefused(x) \/ HeartbeatFails(x) \/ Complete(x)
      BY <2>4, <1>5
         DEF HeartbeatRefused, HeartbeatFails, Complete, BeatDue, PastLock, AwaitsDb
    <2>5. CASE \E s \in Steps : BeginStep(x, s) \/ EndStep(x, s)
      BY <2>5, <1>1 DEF BeginStep, EndStep
    <2>6. CASE \/ StartRunFails(x) \/ CloseRejected(x) \/ FinishFails(x)
               \/ ReleaseFails(x) \/ Return(x)
      BY <2>6, <1>3
         DEF StartRunFails, CloseRejected, FinishFails, ReleaseFails, Return, Leave
    <2> QED
      BY <1>6, <2>1, <2>2, <2>3, <2>4, <2>5, <2>6 DEF Proceed
  <1>7. ASSUME NEW x \in Invocations, SkipTrigger(x) \/ Cancel(x) PROVE LockInv'
    BY <1>7, <1>3 DEF SkipTrigger, Cancel, Leave
  <1>8. ASSUME NEW i \in Instances, Crash(i) \/ Restart(i) \/ RecoverOrphans(i)
        PROVE  LockInv'
    BY <1>8, <1>1, <1>3 DEF Crash, Restart, RecoverOrphans, local
  <1>9. CASE Tick \/ UNCHANGED vars
    BY <1>9, <1>1 DEF Tick, vars, local
  <1> QED  BY <1>2, <1>6, <1>7, <1>8, <1>9 DEF Next

\* One instance never has two invocations between the write_lock and their
\* return, however they stall, fail, crash or are cancelled.
THEOREM LockExcludes == Spec => []LocalExclusion
  <1>1. Init => LockInv  BY DEF Init, LockInv, Live, PastLock, AwaitsDb
  <1>2. LockInv => LocalExclusion
    BY DEF LockInv, LocalExclusion, Live, PastLock, AwaitsDb
  <1> QED  BY <1>1, <1>2, NextLock, TypeCorrect, PTL DEF Spec

(***************************************************************************)
(* The lease.  With Timely, what a run has left of its lease is what the   *)
(* time since its last renewal has not used up, so it is still the holder  *)
(* when it closes its row; and a run that does not hold the lease is       *)
(* younger than any orphan.  Spent(x) is the longest time before the       *)
(* present await.                                                          *)
(***************************************************************************)
Spent(x) == IF pc[x] = "finishing" THEN BeatEvery + Slack ELSE 0
Waited(x) == IF pc[x] = "closing" THEN Slack ELSE 0

LeaseInvAt(x) ==
    /\ Timed(x) => lag[x] <= MaxLag(x)
    /\ pc[x] \in InRun =>
         /\ holder = x /\ status[x] = "running"
         /\ leaseLeft + lag[x] + Spent(x) >= Lease
    /\ pc[x] \in {"acquiring", "closing"} =>
         /\ status[x] = "running"
         /\ age[x] <= lag[x] + Waited(x)
    /\ pc[x] \in {"unborn", "queued"} => status[x] = "none"

LeaseInv == \A x \in Invocations : LeaseInvAt(x)

USE DEF Timed, AwaitsDb, InRun

\* A run between acquire and finish has an unexpired lease.
LEMMA InRunHasLease ==
    ASSUME TypeOK, LeaseInv, NEW x \in Invocations, pc[x] \in InRun
    PROVE  HasLease(x)
  <1>1. lag[x] <= MaxLag(x) /\ leaseLeft + lag[x] + Spent(x) >= Lease /\ holder = x
    BY DEF LeaseInv, LeaseInvAt
  <1>2. /\ leaseLeft \in Nat /\ lag[x] \in Nat
        /\ BeatEvery \in Nat /\ Slack \in Nat /\ Lease \in Nat
    BY LedgerConstants DEF TypeOK, LeaseType, LocalType, LedgerConstants
  <1>3. MaxLag(x) + Spent(x) <= BeatEvery + 2 * Slack
    BY <1>2 DEF MaxLag, Spent
  <1>4. MaxLag(x) \in Nat /\ Spent(x) \in Nat  BY <1>2 DEF MaxLag, Spent
  <1>5. leaseLeft > 0
    BY <1>1, <1>2, <1>3, <1>4, LedgerMargins DEF LedgerMargins
  <1> QED  BY <1>1, <1>5 DEF HasLease

\* What a step leaves alone keeps its part of the invariant.
LEMMA LeaseFrame ==
    ASSUME NEW x \in Invocations, LeaseInvAt(x),
           pc'[x] = pc[x], lag'[x] = lag[x],
           status'[x] = status[x], age'[x] = age[x],
           pc[x] \in InRun => UNCHANGED <<holder, leaseLeft>>
    PROVE  LeaseInvAt(x)'
  BY DEF LeaseInvAt, MaxLag, Spent, Waited

\* Giving up, with the leaver's own row or lease changed or not.
LEMMA LeaveLease ==
    ASSUME TypeOK, LeaseInv, NEW gone \in SUBSET Invocations, LeaveAll(gone),
           \A y \in Invocations \ gone : status'[y] = status[y] /\ age'[y] = age[y],
           \A y \in Invocations \ gone : pc[y] \in InRun => UNCHANGED <<holder, leaseLeft>>
    PROVE  LeaseInv'
  <1>1. ASSUME NEW y \in gone PROVE LeaseInvAt(y)'
    <2>1. pc'[y] = "ended"  BY DEF LeaveAll
    <2> QED  BY <2>1 DEF LeaseInvAt
  <1>2. ASSUME NEW y \in Invocations \ gone PROVE LeaseInvAt(y)'
    <2>1. pc'[y] = pc[y] /\ lag'[y] = lag[y]  BY DEF LeaveAll
    <2> QED  BY <2>1, LeaseFrame DEF LeaseInv
  <1> QED  BY <1>1, <1>2 DEF LeaseInv

\* A step along the control of x leaves the others alone.
LEMMA MoveLease ==
    ASSUME TypeOK, LeaseInv, NEW x \in Invocations, NEW p, MoveTo(x, p),
           \A y \in Invocations \ {x} : status'[y] = status[y] /\ age'[y] = age[y],
           \A y \in Invocations \ {x} : pc[y] \in InRun => UNCHANGED <<holder, leaseLeft>>,
           LeaseInvAt(x)'
    PROVE  LeaseInv'
  <1>1. ASSUME NEW y \in Invocations \ {x} PROVE LeaseInvAt(y)'
    <2>1. pc'[y] = pc[y] /\ lag'[y] = lag[y]  BY DEF MoveTo, TypeOK, LocalType
    <2> QED  BY <2>1, LeaseFrame DEF LeaseInv
  <1> QED  BY <1>1 DEF LeaseInv

\* Reclaiming spares every run that is not idle or gone.
LEMMA ReclaimedAreGone ==
    ASSUME TypeOK, LeaseInv, NEW minimumAge \in {StartupAge, OrphanAge},
           NEW x \in Orphans(minimumAge)
    PROVE  /\ pc[x] \notin InRun \cup {"acquiring", "closing", "unborn", "queued"}
           /\ x \in Invocations /\ status[x] = "running"
  <1>1. x \in Invocations /\ status[x] = "running" /\ ~HasLease(x) /\ age[x] >= minimumAge
    BY DEF Orphans, Old
  <1>2. pc[x] \notin InRun  BY <1>1, InRunHasLease
  <1>3. pc[x] \notin {"unborn", "queued"}  BY <1>1 DEF LeaseInv, LeaseInvAt
  <1>4. pc[x] \notin {"acquiring", "closing"}
    <2>1. SUFFICES ASSUME pc[x] \in {"acquiring", "closing"} PROVE FALSE
      OBVIOUS
    <2>2. age[x] <= lag[x] + Waited(x) /\ lag[x] <= MaxLag(x)
      BY <1>1, <2>1 DEF LeaseInv, LeaseInvAt
    <2>3. MaxLag(x) = Slack  BY <2>1 DEF MaxLag
    <2>4. age[x] \in Nat /\ lag[x] \in Nat /\ Slack \in Nat /\ StartupAge \in Nat /\ OrphanAge \in Nat
          /\ StartupAge <= OrphanAge
      BY <1>1, LedgerConstants DEF TypeOK, LedgerType, LocalType, LedgerConstants
    <2>5. Waited(x) \in Nat /\ Waited(x) <= Slack  BY <2>4 DEF Waited
    <2>6. age[x] <= 2 * Slack  BY <2>2, <2>3, <2>4, <2>5
    <2>7. minimumAge \in Nat /\ minimumAge >= StartupAge  BY <2>4
    <2> QED  BY <1>1, <2>4, <2>6, <2>7, LedgerMargins DEF LedgerMargins
  <1> QED  BY <1>1, <1>2, <1>3, <1>4

LEMMA ReconcileLease ==
    ASSUME TypeOK, LeaseInv, NEW minimumAge \in {StartupAge, OrphanAge},
           Reconcile(minimumAge), UNCHANGED local
    PROVE  LeaseInv'
  <1>1. ASSUME NEW x \in Invocations \ Orphans(minimumAge) PROVE LeaseInvAt(x)'
    <2>1. /\ status'[x] = status[x] /\ age'[x] = age[x]
          /\ pc'[x] = pc[x] /\ lag'[x] = lag[x]
      BY DEF Reconcile, local
    <2>2. pc[x] \in InRun => leaseLeft # 0
      BY InRunHasLease DEF HasLease
    <2>3. pc[x] \in InRun => UNCHANGED <<holder, leaseLeft>>
      BY <2>2 DEF Reconcile, ClearExpired, lease
    <2> QED  BY <2>1, <2>3, LeaseFrame DEF LeaseInv
  <1>2. ASSUME NEW x \in Invocations, x \in Orphans(minimumAge) PROVE LeaseInvAt(x)'
    <2>1. pc[x] \notin InRun \cup {"acquiring", "closing", "unborn", "queued"}
      BY <1>2, ReclaimedAreGone
    <2>2. pc'[x] = pc[x] /\ lag'[x] = lag[x]  BY DEF local
    <2>3. (Timed(x) => lag[x] <= MaxLag(x))
      BY <1>2 DEF LeaseInv, LeaseInvAt
    <2> QED  BY <2>1, <2>2, <2>3 DEF LeaseInvAt, MaxLag
  <1> QED  BY <1>1, <1>2 DEF LeaseInv

\* Time wears the lease down no faster than it wears the patience of the
\* task; this is where Timely is used.
LEMMA TickLease ==
    ASSUME Timely, TypeOK, LeaseInv, Tick
    PROVE  LeaseInv'
  <1> SUFFICES ASSUME NEW x \in Invocations PROVE LeaseInvAt(x)'
    BY DEF LeaseInv
  <1>0. LeaseInvAt(x)  BY DEF LeaseInv
  <1>1. /\ pc'[x] = pc[x] /\ status'[x] = status[x] /\ holder' = holder
        /\ lag'[x] = IF Timed(x) /\ lag[x] < MaxLag(x) THEN lag[x] + 1 ELSE lag[x]
        /\ age'[x] = IF status[x] = "running" /\ age[x] < OrphanAge
                     THEN age[x] + 1 ELSE age[x]
        /\ leaseLeft' = IF leaseLeft > 0 THEN leaseLeft - 1 ELSE 0
    BY DEF Tick
  <1>2. /\ leaseLeft \in Nat /\ lag[x] \in Nat /\ age[x] \in Nat
        /\ BeatEvery \in Nat /\ Slack \in Nat /\ Lease \in Nat
    BY LedgerConstants DEF TypeOK, LeaseType, LocalType, LedgerType, LedgerConstants
  <1>3. MaxLag(x) \in Nat /\ Spent(x) \in Nat /\ Waited(x) \in Nat
    BY <1>2 DEF MaxLag, Spent, Waited
  <1>4. MaxLag(x)' = MaxLag(x) /\ Spent(x)' = Spent(x) /\ Waited(x)' = Waited(x)
        /\ (Timed(x)' <=> Timed(x))
    BY <1>1 DEF MaxLag, Spent, Waited
  <1>5. Timed(x) => lag'[x] = lag[x] + 1 /\ lag'[x] <= MaxLag(x)
    BY <1>1, <1>2, <1>3 DEF Tick
  <1>6. CASE pc[x] \in InRun
    <2>1. leaseLeft + lag[x] + Spent(x) >= Lease /\ leaseLeft > 0
      BY <1>6, <1>0, InRunHasLease DEF LeaseInvAt, HasLease
    <2>2. leaseLeft' + lag'[x] + Spent(x) >= Lease
      BY <1>1, <1>2, <1>3, <1>5, <1>6, <2>1
    <2> QED  BY <1>0, <1>1, <1>4, <1>5, <1>6, <2>2 DEF LeaseInvAt
  <1>7. CASE pc[x] \in {"acquiring", "closing"}
    <2>1. age'[x] <= age[x] + 1  BY <1>1, <1>2
    <2>2. age[x] <= lag[x] + Waited(x) /\ age'[x] \in Nat
      BY <1>0, <1>1, <1>2, <1>7 DEF LeaseInvAt
    <2>3. age'[x] <= lag'[x] + Waited(x)
      BY <1>2, <1>3, <1>5, <1>7, <2>1, <2>2
    <2> QED  BY <1>0, <1>1, <1>4, <1>5, <1>7, <2>3 DEF LeaseInvAt
  <1>8. CASE pc[x] \notin InRun \cup {"acquiring", "closing"}
    BY <1>0, <1>1, <1>4, <1>5, <1>8 DEF LeaseInvAt
  <1> QED  BY <1>6, <1>7, <1>8

\* One step of one invocation.
LEMMA ProceedLease ==
    ASSUME TypeOK, LeaseInv, NEW x \in Invocations, Proceed(x)
    PROVE  LeaseInv'
  <1> USE DEF ledger, lease, EitherApplied
  <1>0. LeaseInvAt(x)  BY DEF LeaseInv
  <1>n. /\ BeatEvery \in Nat /\ Slack \in Nat /\ Lease \in Nat
        /\ leaseLeft \in Nat /\ lag[x] \in Nat /\ age[x] \in Nat
    BY LedgerConstants DEF LedgerConstants, TypeOK, LeaseType, LocalType, LedgerType
  <1>f. leaseLeft = 0 => \A y \in Invocations : pc[y] \notin InRun
    BY InRunHasLease DEF HasLease
  <1>h. \A y \in Invocations : pc[y] \in InRun => holder = y
    BY DEF LeaseInv, LeaseInvAt
  <1>r. /\ OpenRow(x) \/ CloseRow(x) \/ Renew(x) =>
             \A y \in Invocations \ {x} : status'[y] = status[y] /\ age'[y] = age[y]
        /\ DropLease(x) /\ pc[x] \notin InRun =>
             \A y \in Invocations \ {x} : pc[y] \in InRun => UNCHANGED <<holder, leaseLeft>>
    BY <1>h DEF OpenRow, CloseRow, Renew, DropLease, TypeOK, LedgerType
  <1>m. \A p \in Pcs : MoveTo(x, p) => pc'[x] = p /\ lag'[x] = 0
    BY DEF MoveTo, TypeOK, LocalType
  <1>p. {"acquiring", "entering", "working", "closing", "finishing", "releasing", "notifying"}
          \subseteq Pcs
    BY DEF Pcs, PastLock
  <1>1. CASE StartRun(x)
    <2>1. /\ pc'[x] = "acquiring" /\ lag'[x] = 0 /\ MoveTo(x, "acquiring")
          /\ status'[x] = "running" /\ age'[x] = 0
      BY <1>1, <1>m, <1>p DEF StartRun, OpenRow, TypeOK, LedgerType
    <2>2. LeaseInvAt(x)'  BY <2>1, <1>n DEF LeaseInvAt, MaxLag, Waited
    <2> QED  BY <1>1, <1>r, <2>1, <2>2, MoveLease DEF StartRun
  <1>2. CASE StartRunFails(x)
    BY <1>2, <1>r, LeaveLease DEF StartRunFails, Leave
  <1>3. CASE Acquire(x)
    <2>1. /\ pc'[x] = "entering" /\ lag'[x] = 0 /\ MoveTo(x, "entering")
          /\ holder' = x /\ leaseLeft' = Lease /\ status'[x] = "running"
      BY <1>0, <1>3, <1>m, <1>p DEF Acquire, TakeLease, LeaseInvAt
    <2>2. LeaseInvAt(x)'  BY <2>1, <1>n DEF LeaseInvAt, MaxLag, Spent
    <2> QED  BY <1>3, <1>f, <2>1, <2>2, MoveLease DEF Acquire, TakeLease
  <1>4. CASE AcquireBusy(x) \/ AcquireFails(x)
    <2>1. /\ pc'[x] = "closing" /\ lag'[x] = 0 /\ MoveTo(x, "closing")
          /\ status' = status /\ age' = age
      BY <1>4, <1>m, <1>p DEF AcquireBusy, AcquireFails, Fail
    <2>2. age[x] <= Slack /\ status[x] = "running"
      BY <1>0, <1>4, <1>n DEF AcquireBusy, AcquireFails, LeaseInvAt, MaxLag, Waited
    <2>3. LeaseInvAt(x)'  BY <2>1, <2>2, <1>n DEF LeaseInvAt, MaxLag, Waited
    <2> QED
      BY <1>4, <1>f, <2>1, <2>3, MoveLease DEF AcquireBusy, AcquireFails, TakeLease
  <1>5. CASE CloseRejected(x) \/ FinishFails(x)
    BY <1>5, <1>r, LeaveLease DEF CloseRejected, FinishFails, Leave
  <1>6. CASE Heartbeat(x)
    <2>1. /\ pc'[x] = "working" /\ lag'[x] = 0 /\ MoveTo(x, "working")
          /\ status'[x] = "running" /\ holder' = x /\ leaseLeft' = Lease
      BY <1>6, <1>m, <1>p DEF Heartbeat, Renew
    <2>2. LeaseInvAt(x)'  BY <2>1, <1>n DEF LeaseInvAt, MaxLag, Spent
    <2>3. \A y \in Invocations \ {x} : pc[y] \notin InRun
      BY <1>6, <1>h DEF Heartbeat
    <2> QED  BY <1>6, <1>r, <2>1, <2>2, <2>3, MoveLease DEF Heartbeat
  <1>7. CASE HeartbeatRefused(x) \/ HeartbeatFails(x)
    <2>1. pc[x] \in {"entering", "working"} /\ holder = x /\ status[x] = "running"
      BY <1>0, <1>7 DEF HeartbeatRefused, HeartbeatFails, BeatDue, LeaseInvAt
    <2>2. /\ pc'[x] = "finishing" /\ lag'[x] = 0 /\ MoveTo(x, "finishing")
          /\ status' = status /\ holder' = holder
          /\ leaseLeft' \in {Lease, leaseLeft}
      BY <1>7, <2>1, <1>m, <1>p DEF HeartbeatRefused, HeartbeatFails, Fail, Renew
    <2>3. leaseLeft + BeatEvery + Slack >= Lease
      BY <2>1, <1>0, <1>n DEF LeaseInvAt, MaxLag, Spent
    <2>4. LeaseInvAt(x)'
      BY <2>1, <2>2, <2>3, <1>n DEF LeaseInvAt, MaxLag, Spent
    <2>5. \A y \in Invocations \ {x} : pc[y] \notin InRun  BY <2>1, <1>h
    <2>6. \A y \in Invocations \ {x} : status'[y] = status[y] /\ age'[y] = age[y]
      BY <1>7, <2>1, <1>r DEF HeartbeatRefused, HeartbeatFails
    <2> QED  BY <2>2, <2>4, <2>5, <2>6, MoveLease
  <1>8. ASSUME NEW s \in Steps, BeginStep(x, s) \/ EndStep(x, s) PROVE LeaseInv'
    BY <1>8, LeaseFrame DEF BeginStep, EndStep, LeaseInv
  <1>9. CASE Complete(x)
    <2>1. /\ pc'[x] = "finishing" /\ lag'[x] = 0 /\ MoveTo(x, "finishing")
          /\ status' = status /\ age' = age /\ holder' = holder /\ leaseLeft' = leaseLeft
      BY <1>9, <1>m, <1>p DEF Complete, Fail
    <2>2. /\ holder = x /\ status[x] = "running"
          /\ leaseLeft + BeatEvery + Slack >= Lease
      BY <1>9, <1>0, <1>n DEF Complete, LeaseInvAt, MaxLag, Spent
    <2>3. LeaseInvAt(x)'  BY <2>1, <2>2, <1>n DEF LeaseInvAt, MaxLag, Spent
    <2> QED  BY <2>1, <2>3, MoveLease
  <1>10. CASE Finish(x)
    <2>1. pc'[x] = "releasing" /\ lag'[x] = 0 /\ MoveTo(x, "releasing")
      BY <1>10, <1>m, <1>p DEF Finish
    <2>2. LeaseInvAt(x)'  BY <2>1, <1>n DEF LeaseInvAt, MaxLag
    <2> QED  BY <1>10, <1>r, <2>1, <2>2, MoveLease DEF Finish
  <1>11. CASE Release(x)
    <2>1. pc'[x] = "notifying" /\ lag'[x] = 0 /\ MoveTo(x, "notifying")
      BY <1>11, <1>m, <1>p DEF Release
    <2>2. LeaseInvAt(x)'  BY <2>1 DEF LeaseInvAt
    <2> QED  BY <1>11, <1>r, <2>1, <2>2, MoveLease DEF Release
  <1>12. CASE ReleaseFails(x) \/ Return(x)
    BY <1>12, <1>r, LeaveLease DEF ReleaseFails, Return, Leave
  <1> QED
    BY <1>1, <1>2, <1>3, <1>4, <1>5, <1>6, <1>7, <1>8, <1>9, <1>10, <1>11, <1>12
       DEF Proceed

LEMMA NextLease ==
    ASSUME Timely, TypeOK, LeaseInv, [Next]_vars
    PROVE  LeaseInv'
  <1>1. ASSUME NEW x \in Invocations, Arrive(x) \/ CatchUp(x) PROVE LeaseInv'
    <2>1. pc[x] = "unborn" /\ MoveTo(x, "queued") /\ UNCHANGED <<status, age, holder, leaseLeft>>
      BY <1>1 DEF Arrive, CatchUp, ledger, lease
    <2>2. pc'[x] = "queued" /\ status[x] = "none"
      BY <2>1 DEF MoveTo, TypeOK, LocalType, LeaseInv, LeaseInvAt
    <2>3. LeaseInvAt(x)'  BY <2>1, <2>2 DEF LeaseInvAt
    <2> QED  BY <2>1, <2>3, MoveLease
  <1>2. ASSUME NEW x \in Invocations, SkipTrigger(x) \/ Cancel(x) PROVE LeaseInv'
    BY <1>2, LeaveLease DEF SkipTrigger, Cancel, Leave, ledger, lease
  <1>3. ASSUME NEW x \in Invocations, Proceed(x) PROVE LeaseInv'
    BY <1>3, ProceedLease
  <1>4. ASSUME NEW i \in Instances, Crash(i) PROVE LeaseInv'
    BY <1>4, LeaveLease DEF Crash, ledger, lease
  <1>5. ASSUME NEW i \in Instances, Restart(i) \/ RecoverOrphans(i) PROVE LeaseInv'
    BY <1>5, ReconcileLease DEF Restart, RecoverOrphans
  <1>6. CASE Tick  BY <1>6, TickLease
  <1>7. CASE UNCHANGED vars
    BY <1>7, LeaseFrame DEF vars, ledger, lease, local, LeaseInv
  <1> QED  BY <1>1, <1>2, <1>3, <1>4, <1>5, <1>6, <1>7 DEF Next

LEMMA InitLease == ASSUME Init PROVE LeaseInv
  BY DEF Init, LeaseInv, LeaseInvAt

LEMMA LeaseCorrect == ASSUME Timely PROVE Spec => [](TypeOK /\ LeaseInv)
  <1>1. Init => LeaseInv  BY InitLease
  <1>2. TypeOK /\ LeaseInv /\ [Next]_vars => LeaseInv'  BY NextLease
  <1> QED  BY <1>1, <1>2, TypeCorrect, PTL DEF Spec

\* Whatever crashes, is cancelled or fails, no two invocations of any
\* instances write business data at the same time, as long as no task
\* stalls for longer than the margins of the lease.
THEOREM LeaseExcludes == ASSUME Timely PROVE Spec => []SingleWriter
  <1>1. LeaseInv => SingleWriter  BY DEF LeaseInv, LeaseInvAt, SingleWriter
  <1> QED  BY <1>1, LeaseCorrect, PTL

\* The run of a prompt task is never taken for an orphan.
THEOREM PromptRunsAreSpared == ASSUME Timely PROVE Spec => []LiveRunNotReclaimed
  <1>1. LeaseInv => LiveRunNotReclaimed
    BY DEF LeaseInv, LeaseInvAt, LiveRunNotReclaimed
  <1> QED  BY <1>1, LeaseCorrect, PTL

(***************************************************************************)
(* The ledger.  What each step does to the status of the rows.             *)
(***************************************************************************)

\* A row is opened from nothing and closed from "running", and a finish
\* call finds the row as its own task left it.
RowStep(x) ==
    \/ status'[x] = status[x]
    \/ status[x] = "none" /\ status'[x] = "running" /\ pc[x] = "queued"
    \/ status[x] = "running" /\ status'[x] \in Closed

LEMMA ProceedRows ==
    ASSUME TypeOK, LeaseInv, NEW x \in Invocations, Proceed(x)
    PROVE  RowStep(x) /\ \A y \in Invocations \ {x} : status'[y] = status[y]
  <1> USE DEF ledger, EitherApplied, RowStep
  <1>0. LeaseInvAt(x)  BY DEF LeaseInv
  <1>1. CASE StartRun(x) \/ StartRunFails(x)
    <2>1. status[x] = "none" /\ pc[x] = "queued"
      BY <1>0, <1>1 DEF StartRun, StartRunFails, LeaseInvAt
    <2> QED
      BY <1>1, <2>1 DEF StartRun, StartRunFails, OpenRow, TypeOK, LedgerType
  <1>2. CASE CloseRejected(x) \/ Finish(x) \/ FinishFails(x)
    <2>1. status[x] = "running"
      BY <1>0, <1>2 DEF CloseRejected, Finish, FinishFails, LeaseInvAt
    <2>2. StatusOf(outcome[x]) \in Closed  BY StatusOfClosed
    <2> QED
      BY <1>2, <2>1, <2>2
         DEF CloseRejected, Finish, FinishFails, CloseRow, TypeOK, LedgerType
  <1>3. CASE UNCHANGED status
    BY <1>3
  <1>4. CASE \/ Acquire(x) \/ AcquireBusy(x) \/ AcquireFails(x)
             \/ Heartbeat(x) \/ HeartbeatRefused(x) \/ HeartbeatFails(x)
             \/ \E s \in Steps : BeginStep(x, s) \/ EndStep(x, s)
             \/ Complete(x) \/ Release(x) \/ ReleaseFails(x) \/ Return(x)
    BY <1>3, <1>4
       DEF Acquire, AcquireBusy, AcquireFails, Heartbeat, HeartbeatRefused,
           HeartbeatFails, Renew, BeginStep, EndStep, Complete, Release,
           ReleaseFails, Return
  <1> QED  BY <1>1, <1>2, <1>3, <1>4 DEF Proceed

LEMMA ReconcileRows ==
    ASSUME NEW minimumAge, Reconcile(minimumAge), NEW x \in Invocations
    PROVE  RowStep(x)
  BY DEF Reconcile, Orphans, Old, RowStep, Closed

LEMMA NextRows ==
    ASSUME TypeOK, LeaseInv, [Next]_vars, NEW x \in Invocations
    PROVE  RowStep(x)
  <1>1. CASE UNCHANGED status
    BY <1>1 DEF RowStep
  <1>2. ASSUME NEW y \in Invocations, Proceed(y) PROVE RowStep(x)
    BY <1>2, ProceedRows DEF RowStep
  <1>3. ASSUME NEW i \in Instances, Restart(i) \/ RecoverOrphans(i) PROVE RowStep(x)
    BY <1>3, ReconcileRows DEF Restart, RecoverOrphans
  <1>4. ASSUME NEW y \in Invocations,
               Arrive(y) \/ SkipTrigger(y) \/ CatchUp(y) \/ Cancel(y)
        PROVE  UNCHANGED status
    BY <1>4 DEF Arrive, SkipTrigger, CatchUp, Cancel, ledger
  <1>5. ASSUME NEW i \in Instances, Crash(i) PROVE UNCHANGED status
    BY <1>5 DEF Crash, ledger
  <1>6. Tick \/ UNCHANGED vars => UNCHANGED status
    BY DEF Tick, vars, ledger
  <1> QED  BY <1>1, <1>2, <1>3, <1>4, <1>5, <1>6 DEF Next

\* No finish call and no reconciliation rewrites a closed row.
THEOREM ClosedRowsKeepTheirStatus == ASSUME Timely PROVE Spec => ClosedStaysClosed
  <1>1. TypeOK /\ LeaseInv /\ [Next]_vars
          => [\A x \in Invocations : status[x] \in Closed => status'[x] = status[x]]_vars
    BY NextRows DEF RowStep, Closed
  <1> QED  BY <1>1, LeaseCorrect, PTL DEF Spec, ClosedStaysClosed

(***************************************************************************)
(* The refinement.                                                         *)
(***************************************************************************)

\* The abstract writer is the one invocation in its run, if there is one.
LEMMA WriterIs ==
    ASSUME LeaseInv
    PROVE  /\ \A x \in Invocations : pc[x] \in InRun => writer = x
           /\ (\A x \in Invocations : pc[x] \notin InRun) => writer = NoRun
  <1>1. \A x \in Invocations : pc[x] \in InRun => holder = x
    BY DEF LeaseInv, LeaseInvAt
  <1>2. ASSUME NEW x \in Invocations, pc[x] \in InRun PROVE writer = x
    <2>1. writer \in Invocations /\ pc[writer] \in InRun  BY <1>2 DEF writer
    <2> QED  BY <1>1, <1>2, <2>1
  <1>3. (\A x \in Invocations : pc[x] \notin InRun) => writer = NoRun
    BY DEF writer
  <1> QED  BY <1>2, <1>3

LEMMA SameWriter ==
    ASSUME LeaseInv, LeaseInv',
           \A x \in Invocations : pc'[x] \in InRun <=> pc[x] \in InRun
    PROVE  writer' = writer
  <1>1. \A x \in Invocations : pc'[x] \in InRun => holder' = x
    BY DEF LeaseInv, LeaseInvAt
  <1>2. CASE \E x \in Invocations : pc[x] \in InRun
    <2>1. PICK x \in Invocations : pc[x] \in InRun  BY <1>2
    <2>2. writer = x  BY <2>1, WriterIs
    <2>3. writer' \in Invocations /\ pc'[writer'] \in InRun  BY <2>1 DEF writer
    <2> QED  BY <1>1, <2>1, <2>2, <2>3
  <1>3. CASE \A x \in Invocations : pc[x] \notin InRun
    BY <1>3, WriterIs DEF writer
  <1> QED  BY <1>2, <1>3

\* An invocation that leaves takes the abstract writer with it, if it is it.
LEMMA LeaveRefines ==
    ASSUME TypeOK, LeaseInv, LeaseInv', NEW gone \in SUBSET Invocations,
           LeaveAll(gone), UNCHANGED status
    PROVE  [Exclusive!Next]_<<row, writer>>
  <1>1. row' = row  BY DEF row
  <1>2. \A y \in Invocations :
          /\ y \in gone => pc'[y] = "ended"
          /\ y \notin gone => pc'[y] = pc[y]
    BY DEF LeaveAll
  <1>3. CASE \E x \in gone : pc[x] \in InRun
    <2>1. PICK x \in gone : pc[x] \in InRun  BY <1>3
    <2>2. writer = x /\ x \in Invocations /\ x # NoRun
      BY <2>1, WriterIs, LedgerConstants DEF LedgerConstants
    <2>3. \A y \in Invocations : pc[y] \in InRun => y = x
      BY <2>1 DEF LeaseInv, LeaseInvAt
    <2>4. \A y \in Invocations : pc'[y] \notin InRun
      BY <1>2, <2>1, <2>3
    <2>5. writer' = NoRun  BY <2>4 DEF writer
    <2> QED  BY <1>1, <2>2, <2>5 DEF Exclusive!Next, Exclusive!Depart
  <1>4. CASE \A x \in gone : pc[x] \notin InRun
    <2>1. \A y \in Invocations : pc'[y] \in InRun <=> pc[y] \in InRun
      BY <1>2, <1>4
    <2> QED  BY <1>1, <2>1, SameWriter
  <1> QED  BY <1>3, <1>4

\* The rows of S, none of them the writer's, go from running to closed.
LEMMA ReclaimRefines ==
    ASSUME LeaseInv, LeaseInv', NEW S \in SUBSET Invocations,
           \A x \in S : status[x] = "running" /\ status'[x] \in Closed /\ pc[x] \notin InRun,
           \A x \in Invocations \ S : status'[x] = status[x],
           \A x \in Invocations : pc'[x] \in InRun <=> pc[x] \in InRun
    PROVE  Exclusive!Next
  <1>1. writer' = writer  BY SameWriter
  <1>2. S \subseteq Exclusive!Running \ {writer}
    <2>1. \A x \in S : row[x] = "running"  BY DEF row, Closed
    <2>2. writer \notin S
      <3>1. CASE \E x \in Invocations : pc[x] \in InRun
        BY <3>1, WriterIs
      <3>2. CASE \A x \in Invocations : pc[x] \notin InRun
        BY <3>2, WriterIs, LedgerConstants DEF LedgerConstants
      <3> QED  BY <3>1, <3>2
    <2> QED  BY <2>1, <2>2 DEF Exclusive!Running
  <1>3. Exclusive!CloseAll(S)
    BY DEF Exclusive!CloseAll, row
  <1> QED  BY <1>1, <1>2, <1>3 DEF Exclusive!Next, Exclusive!Reclaim

\* A step that changes no status and no membership of InRun is a stutter.
LEMMA StutterRefines ==
    ASSUME LeaseInv, LeaseInv', UNCHANGED status,
           \A x \in Invocations : pc'[x] \in InRun <=> pc[x] \in InRun
    PROVE  UNCHANGED <<row, writer>>
  BY SameWriter DEF row

LEMMA ProceedRefines ==
    ASSUME TypeOK, TypeOK', LeaseInv, LeaseInv', NEW x \in Invocations, Proceed(x)
    PROVE  [Exclusive!Next]_<<row, writer>>
  <1> USE DEF ledger, EitherApplied
  <1>0. LeaseInvAt(x)  BY DEF LeaseInv
  <1>m. \A p \in Pcs : MoveTo(x, p) =>
          pc'[x] = p /\ \A y \in Invocations \ {x} : pc'[y] = pc[y]
    BY DEF MoveTo, TypeOK, LocalType
  <1>p. {"acquiring", "entering", "working", "closing", "finishing", "releasing", "notifying"}
          \subseteq Pcs
    BY DEF Pcs, PastLock
  <1>l. Leave(x) =>
          pc'[x] = "ended" /\ \A y \in Invocations \ {x} : pc'[y] = pc[y]
    BY DEF Leave, LeaveAll
  <1>1. CASE StartRun(x) \/ (StartRunFails(x) /\ OpenRow(x))
    <2>1. /\ status[x] = "none" /\ pc[x] = "queued"
          /\ pc'[x] \in {"acquiring", "ended"}
          /\ \A y \in Invocations \ {x} : pc'[y] = pc[y]
      BY <1>0, <1>1, <1>m, <1>p, <1>l DEF StartRun, StartRunFails, LeaseInvAt
    <2>2. writer' = writer  BY <2>1, SameWriter
    <2>3. row[x] = "none" /\ row' = [row EXCEPT ![x] = "running"]
      BY <1>1, <2>1 DEF StartRun, StartRunFails, OpenRow, row, Closed, TypeOK, LedgerType
    <2> QED  BY <2>2, <2>3 DEF Exclusive!Next, Exclusive!Open
  <1>2. CASE Acquire(x)
    <2>1. leaseLeft = 0 /\ status' = status /\ status[x] = "running"
      BY <1>0, <1>2 DEF Acquire, TakeLease, LeaseInvAt
    <2>2. writer = NoRun  BY <2>1, InRunHasLease, WriterIs DEF HasLease
    <2>3. pc'[x] = "entering"  BY <1>2, <1>m, <1>p DEF Acquire
    <2>4. writer' \in Invocations /\ pc'[writer'] \in InRun  BY <2>3 DEF writer
    <2>5. \A y \in Invocations : pc'[y] \in InRun => holder' = y
      BY DEF LeaseInv, LeaseInvAt
    <2>6. writer' = x  BY <2>3, <2>4, <2>5
    <2>7. x \in Exclusive!Running /\ row' = row
      BY <2>1 DEF Exclusive!Running, row, Closed
    <2> QED  BY <2>2, <2>6, <2>7 DEF Exclusive!Next, Exclusive!Enter
  <1>3. CASE CloseRejected(x) /\ CloseRow(x)
    <2>1. /\ status[x] = "running" /\ pc[x] = "closing" /\ pc'[x] = "ended"
          /\ \A y \in Invocations \ {x} : pc'[y] = pc[y]
      BY <1>0, <1>3, <1>l DEF CloseRejected, LeaseInvAt
    <2>2. /\ status'[x] \in Closed
          /\ \A y \in Invocations \ {x} : status'[y] = status[y]
      BY <1>3, StatusOfClosed DEF CloseRow, TypeOK, LedgerType
    <2> QED  BY <2>1, <2>2, ReclaimRefines
  <1>4. CASE (Finish(x) \/ FinishFails(x)) /\ CloseRow(x)
    <2>1. /\ pc[x] = "finishing" /\ status[x] = "running"
          /\ pc'[x] \in {"releasing", "ended"}
          /\ \A y \in Invocations \ {x} : pc'[y] = pc[y]
      BY <1>0, <1>4, <1>l, <1>m, <1>p DEF Finish, FinishFails, LeaseInvAt
    <2>2. writer = x /\ x # NoRun
      BY <2>1, WriterIs, LedgerConstants DEF LedgerConstants
    <2>3. \A y \in Invocations : pc[y] \in InRun => y = x
      BY <2>1 DEF LeaseInv, LeaseInvAt
    <2>4. \A y \in Invocations : pc'[y] \notin InRun  BY <2>1, <2>3
    <2>5. writer' = NoRun  BY <2>4 DEF writer
    <2>6. /\ status'[x] \in Closed
          /\ \A y \in Invocations \ {x} : status'[y] = status[y]
      BY <1>4, StatusOfClosed DEF CloseRow, TypeOK, LedgerType
    <2>7. x \in Exclusive!Running /\ Exclusive!CloseAll({x})
      BY <2>1, <2>6 DEF Exclusive!Running, Exclusive!CloseAll, row, Closed
    <2> QED  BY <2>2, <2>5, <2>7 DEF Exclusive!Next, Exclusive!Depart
  <1>5. CASE \/ StartRunFails(x) /\ UNCHANGED status
             \/ CloseRejected(x) /\ UNCHANGED status
             \/ FinishFails(x) /\ UNCHANGED status
             \/ ReleaseFails(x) \/ Return(x)
    <2>1. LeaveAll({x}) /\ UNCHANGED status
      BY <1>5 DEF StartRunFails, CloseRejected, FinishFails, ReleaseFails, Return, Leave
    <2> QED  BY <2>1, LeaveRefines
  <1>6. CASE \/ AcquireBusy(x) \/ AcquireFails(x) \/ Release(x)
             \/ Heartbeat(x) \/ HeartbeatRefused(x) \/ HeartbeatFails(x)
             \/ \E s \in Steps : BeginStep(x, s) \/ EndStep(x, s)
             \/ Complete(x)
    <2>1. UNCHANGED status
      BY <1>6 DEF AcquireBusy, AcquireFails, Release, Heartbeat, HeartbeatRefused,
                  HeartbeatFails, BeginStep, EndStep, Complete, Renew
    <2>2. \A y \in Invocations : pc'[y] \in InRun <=> pc[y] \in InRun
      BY <1>6, <1>m, <1>p
         DEF AcquireBusy, AcquireFails, Release, Heartbeat, HeartbeatRefused,
             HeartbeatFails, BeginStep, EndStep, Complete, Fail, BeatDue
    <2> QED  BY <2>1, <2>2, StutterRefines
  <1>7. CASE StartRunFails(x)
    BY <1>1, <1>5, <1>7 DEF StartRunFails
  <1>8. CASE CloseRejected(x)
    BY <1>3, <1>5, <1>8 DEF CloseRejected
  <1>9. CASE Finish(x) \/ FinishFails(x)
    BY <1>4, <1>5, <1>9 DEF Finish, FinishFails
  <1> QED
    BY <1>1, <1>2, <1>5, <1>6, <1>7, <1>8, <1>9 DEF Proceed

LEMMA NextRefines ==
    ASSUME TypeOK, TypeOK', LeaseInv, LeaseInv', [Next]_vars
    PROVE  [Exclusive!Next]_<<row, writer>>
  <1>1. ASSUME NEW x \in Invocations, Arrive(x) \/ CatchUp(x)
        PROVE  UNCHANGED <<row, writer>>
    <2>1. UNCHANGED status /\ pc[x] = "unborn" /\ pc' = [pc EXCEPT ![x] = "queued"]
      BY <1>1 DEF Arrive, CatchUp, MoveTo, ledger
    <2>2. \A y \in Invocations : pc'[y] \in InRun <=> pc[y] \in InRun
      BY <2>1 DEF TypeOK, LocalType
    <2> QED  BY <2>1, <2>2, StutterRefines
  <1>2. ASSUME NEW x \in Invocations, SkipTrigger(x) \/ Cancel(x)
        PROVE  [Exclusive!Next]_<<row, writer>>
    BY <1>2, LeaveRefines DEF SkipTrigger, Cancel, Leave, ledger
  <1>3. ASSUME NEW x \in Invocations, Proceed(x)
        PROVE  [Exclusive!Next]_<<row, writer>>
    BY <1>3, ProceedRefines
  <1>4. ASSUME NEW i \in Instances, Crash(i)
        PROVE  [Exclusive!Next]_<<row, writer>>
    BY <1>4, LeaveRefines DEF Crash, ledger
  <1>5. ASSUME NEW i \in Instances, Restart(i) \/ RecoverOrphans(i)
        PROVE  [Exclusive!Next]_<<row, writer>>
    <2>1. PICK m \in {StartupAge, OrphanAge} : Reconcile(m)
      BY <1>5 DEF Restart, RecoverOrphans
    <2>2. UNCHANGED pc  BY <1>5 DEF Restart, RecoverOrphans, local
    <2>3. \A x \in Orphans(m) : x \in Invocations /\ status[x] = "running" /\ pc[x] \notin InRun
      BY <2>1, ReclaimedAreGone
    <2>4. /\ \A x \in Orphans(m) : status'[x] \in Closed
          /\ \A x \in Invocations \ Orphans(m) : status'[x] = status[x]
      BY <2>1, <2>3 DEF Reconcile, Closed
    <2> QED  BY <2>2, <2>3, <2>4, ReclaimRefines
  <1>6. CASE Tick \/ UNCHANGED vars
    <2>1. UNCHANGED <<status, pc>>  BY <1>6 DEF Tick, vars, ledger, local
    <2> QED  BY <2>1, StutterRefines
  <1> QED  BY <1>1, <1>2, <1>3, <1>4, <1>5, <1>6 DEF Next

\* With prompt tasks the lease, the heartbeat, the unconditional finish
\* calls and the recovery behave as the exclusive ledger: one writer, every
\* row opened once and closed once, nobody's run closed under it.
THEOREM LedgerRefines == ASSUME Timely PROVE Spec => ImplementsExclusiveLedger
  <1>1. Init => Exclusive!Init
    <2>1. Init => writer = NoRun  BY DEF Init, writer
    <2>2. Init => row = [x \in Invocations |-> "none"]  BY DEF Init, row, Closed
    <2> QED  BY <2>1, <2>2 DEF Exclusive!Init
  <1>2. /\ TypeOK /\ LeaseInv /\ (TypeOK /\ LeaseInv)' /\ [Next]_vars
          => [Exclusive!Next]_<<row, writer>>
    BY NextRefines
  <1> QED
    BY <1>1, <1>2, LeaseCorrect, PTL
       DEF Spec, ImplementsExclusiveLedger, Exclusive!Spec

(***************************************************************************)
(* The steps.  What a task knows of its steps is what their rows say, as   *)
(* long as its own writes are the only ones: a run under work is neither   *)
(* closed nor reclaimed, which is LeaseInv.  Strict adds what is lost when *)
(* the write of a step fails.                                              *)
(***************************************************************************)
Strict == "step" \notin Faults

ClosedAgree(x) ==
    /\ status[x] = "succeeded" => \A s \in Steps : step[x][s] \in {"none", "succeeded"}
    /\ Strict /\ status[x] \in Closed => \A s \in Steps : step[x][s] # "running"

\* The work of a task and the row of the step.
Tracked(x, s) ==
    /\ work[x][s] = "idle" => step[x][s] = "none"
    /\ work[x][s] = "ok" => step[x][s] = "succeeded"
    /\ Strict /\ work[x][s] = "bad" => step[x][s] = "failed"

\* What the finish call is going to record agrees with the steps.
Decided(x) ==
    /\ outcome[x] = "ok" => \A s \in Steps : step[x][s] \in {"none", "succeeded"}
    /\ Strict /\ outcome[x] \in {"partial", "all_failed"} => \A s \in Steps : step[x][s] # "running"

StepInvAt(x) ==
    /\ ClosedAgree(x)
    /\ pc[x] \in {"unborn", "queued", "acquiring", "entering"} => \A s \in Steps : work[x][s] = "idle"
    /\ pc[x] \in {"unborn", "queued", "acquiring", "entering", "working"} =>
          \A s \in Steps : Tracked(x, s)
    /\ pc[x] = "closing" => outcome[x] \in {"blocked", "lock_failed"}
    /\ pc[x] = "finishing" => Decided(x)

StepInv == \A x \in Invocations : StepInvAt(x)

\* What a step leaves alone keeps its part of the invariant.
LEMMA StepFrame ==
    ASSUME NEW x \in Invocations, StepInvAt(x),
           pc'[x] = pc[x], work'[x] = work[x], outcome'[x] = outcome[x],
           step'[x] = step[x], status'[x] = status[x]
    PROVE  StepInvAt(x)'
  BY DEF StepInvAt, ClosedAgree, Tracked, Decided

\* An invocation that gives up keeps what its rows say.
LEMMA LeaveSteps ==
    ASSUME TypeOK, StepInv, NEW gone \in SUBSET Invocations, LeaveAll(gone),
           \A y \in Invocations \ gone : step'[y] = step[y] /\ status'[y] = status[y],
           \A y \in gone : ClosedAgree(y)'
    PROVE  StepInv'
  <1>1. ASSUME NEW y \in gone PROVE StepInvAt(y)'
    <2>1. pc'[y] = "ended"  BY DEF LeaveAll
    <2> QED  BY <2>1 DEF StepInvAt
  <1>2. ASSUME NEW y \in Invocations \ gone PROVE StepInvAt(y)'
    <2>1. pc'[y] = pc[y] /\ work'[y] = work[y] /\ outcome'[y] = outcome[y]  BY DEF LeaveAll
    <2> QED  BY <2>1, StepFrame DEF StepInv
  <1> QED  BY <1>1, <1>2 DEF StepInv

\* Nothing but the work on x itself touches what x has to show.
LEMMA OtherSteps ==
    ASSUME TypeOK, StepInv, NEW x \in Invocations, StepInvAt(x)',
           \A y \in Invocations \ {x} :
              /\ pc'[y] = pc[y] /\ work'[y] = work[y] /\ outcome'[y] = outcome[y]
              /\ step'[y] = step[y] /\ status'[y] = status[y]
    PROVE  StepInv'
  BY StepFrame DEF StepInv

LEMMA StatusOfOk == ASSUME NEW o, StatusOf(o) = "succeeded" PROVE o = "ok"
  <1>1. CASE o = "ok"  BY <1>1
  <1>2. CASE o = "partial"  BY <1>2 DEF StatusOf
  <1>3. CASE o = "blocked"  BY <1>3 DEF StatusOf
  <1>4. CASE o \notin {"ok", "partial", "blocked"}  BY <1>4 DEF StatusOf
  <1> QED  BY <1>1, <1>2, <1>3, <1>4

\* A finish call records what agrees with the steps, and closes the steps of
\* a run that was cut short.
LEMMA CloseAgrees ==
    ASSUME TypeOK, NEW x \in Invocations, StepInvAt(x), pc[x] \in {"closing", "finishing"},
           CloseRow(x)
    PROVE  /\ ClosedAgree(x)'
           /\ \A y \in Invocations \ {x} : step'[y] = step[y] /\ status'[y] = status[y]
  <1>1. status'[x] = StatusOf(outcome[x])  BY DEF CloseRow, TypeOK, LedgerType
  <1>2. CASE outcome[x] \in {"error", "blocked", "lock_failed"}
    <2>1. step'[x] = CloseSteps(x)  BY <1>2 DEF CloseRow, TypeOK, LedgerType
    <2>2. \A s \in Steps : step'[x][s] # "running"  BY <2>1 DEF CloseSteps
    <2>3. status'[x] # "succeeded"  BY <1>1, <1>2, StatusOfOk
    <2> QED  BY <2>2, <2>3 DEF ClosedAgree, CloseRow, TypeOK, LedgerType
  <1>3. CASE outcome[x] \notin {"error", "blocked", "lock_failed"}
    <2>1. step' = step /\ pc[x] = "finishing"  BY <1>3 DEF CloseRow, StepInvAt
    <2>2. Decided(x) /\ outcome[x] \in {"ok", "partial", "all_failed"}
      BY <1>3, <2>1 DEF StepInvAt, TypeOK, LocalType, Outcomes
    <2>3. status'[x] = "succeeded" => outcome[x] = "ok"  BY <1>1, StatusOfOk
    <2>4. Strict => \A s \in Steps : step[x][s] # "running"  BY <2>2 DEF Decided
    <2> QED  BY <2>1, <2>2, <2>3, <2>4 DEF ClosedAgree, Decided, CloseRow, TypeOK, LedgerType
  <1> QED  BY <1>2, <1>3

\* Orphan recovery closes the steps with the row, and spares what is at work.
LEMMA ReconcileSteps ==
    ASSUME TypeOK, LeaseInv, StepInv, NEW minimumAge \in {StartupAge, OrphanAge},
           Reconcile(minimumAge), UNCHANGED local
    PROVE  StepInv'
  <1>1. ASSUME NEW x \in Invocations \ Orphans(minimumAge) PROVE StepInvAt(x)'
    <2>1. /\ status'[x] = status[x] /\ step'[x] = step[x]
          /\ pc'[x] = pc[x] /\ work'[x] = work[x] /\ outcome'[x] = outcome[x]
      BY DEF Reconcile, local
    <2> QED  BY <2>1, StepFrame DEF StepInv
  <1>2. ASSUME NEW x \in Invocations, x \in Orphans(minimumAge) PROVE StepInvAt(x)'
    <2>1. pc[x] \notin InRun \cup {"acquiring", "closing", "unborn", "queued"}
      BY <1>2, ReclaimedAreGone
    <2>2. pc'[x] = pc[x]  BY DEF local
    <2>3. status'[x] = "failed" /\ step'[x] = CloseSteps(x)  BY <1>2 DEF Reconcile
    <2>4. \A s \in Steps : step'[x][s] # "running"  BY <2>3 DEF CloseSteps
    <2> QED  BY <2>1, <2>2, <2>3, <2>4 DEF StepInvAt, ClosedAgree
  <1> QED  BY <1>1, <1>2 DEF StepInv

\* The work on one step of a run that is open.
LEMMA WorkSteps ==
    ASSUME TypeOK, LeaseInv, StepInv, NEW x \in Invocations, NEW s \in Steps,
           BeginStep(x, s) \/ EndStep(x, s)
    PROVE  StepInv'
  <1>1. pc[x] = "working" /\ status[x] = "running" /\ pc' = pc /\ status' = status /\ outcome' = outcome
    BY DEF BeginStep, EndStep, LeaseInv, LeaseInvAt
  <1>2. PICK w \in {"open", "ok", "bad"}, v \in {"running", "succeeded", "failed", step[x][s]} :
           /\ work' = [work EXCEPT ![x][s] = w] /\ step' = [step EXCEPT ![x][s] = v]
           /\ w = "ok" => v = "succeeded"
           /\ Strict /\ w = "bad" => v = "failed"
    <2>1. UNCHANGED step => step' = [step EXCEPT ![x][s] = step[x][s]]
      BY DEF TypeOK, LedgerType
    <2> QED  BY <2>1 DEF BeginStep, EndStep, SetWork, SetStep, EitherApplied, Strict
  <1>3. /\ work'[x][s] = w /\ step'[x][s] = v
        /\ \A t \in Steps \ {s} : work'[x][t] = work[x][t] /\ step'[x][t] = step[x][t]
        /\ \A y \in Invocations \ {x} : work'[y] = work[y] /\ step'[y] = step[y]
    BY <1>2 DEF TypeOK, LedgerType, LocalType
  <1>4. \A t \in Steps : Tracked(x, t)  BY <1>1 DEF StepInv, StepInvAt
  <1>5. \A t \in Steps : Tracked(x, t)'  BY <1>2, <1>3, <1>4 DEF Tracked
  <1>6. StepInvAt(x)'  BY <1>1, <1>5 DEF StepInvAt, ClosedAgree, Closed
  <1> QED  BY <1>1, <1>3, <1>6, OtherSteps

\* The verdict on the steps.
LEMMA VerdictAgrees ==
    ASSUME TypeOK, NEW x \in Invocations, StepInvAt(x), Complete(x)
    PROVE  Decided(x)' /\ pc'[x] = "finishing"
  <1>1. PICK o \in Verdicts(x) : Fail(x, o, "finishing")  BY DEF Complete
  <1>2. /\ outcome'[x] = o /\ pc'[x] = "finishing" /\ step' = step
    BY <1>1 DEF Complete, Fail, MoveTo, TypeOK, LocalType, ledger
  <1>3. pc[x] = "working" /\ \A s \in Steps : Tracked(x, s) /\ work[x][s] \in {"idle", "ok", "bad"}
    BY DEF Complete, StepInvAt, Did, TypeOK, LocalType, WorkState
  <1>4. Did(x, "bad") => o # "ok"  BY <1>1 DEF Verdicts
  <1>5. o = "ok" => \A s \in Steps : step[x][s] \in {"none", "succeeded"}
    BY <1>3, <1>4 DEF Did, Tracked
  <1>6. Strict => \A s \in Steps : step[x][s] # "running"  BY <1>3 DEF Tracked
  <1> QED  BY <1>2, <1>5, <1>6 DEF Decided

LEMMA ProceedSteps ==
    ASSUME TypeOK, LeaseInv, StepInv, NEW x \in Invocations, Proceed(x)
    PROVE  StepInv'
  <1> USE DEF ledger, EitherApplied
  <1>0. StepInvAt(x) /\ ClosedAgree(x)  BY DEF StepInv, StepInvAt
  <1>m. \A p \in Pcs : MoveTo(x, p) =>
           pc'[x] = p /\ \A y \in Invocations \ {x} : pc'[y] = pc[y]
    BY DEF MoveTo, TypeOK, LocalType
  <1>p. {"acquiring", "entering", "working", "closing", "finishing", "releasing", "notifying"}
          \subseteq Pcs
    BY DEF Pcs, PastLock
  <1>o. \A o, p : Fail(x, o, p) =>
           /\ MoveTo(x, p) /\ outcome'[x] = o /\ work' = work
           /\ \A y \in Invocations \ {x} : outcome'[y] = outcome[y]
    BY DEF Fail, TypeOK, LocalType
  <1>1. CASE StartRun(x)
    <2>1. /\ pc[x] = "queued" /\ pc'[x] = "acquiring" /\ step' = step /\ work' = work /\ outcome' = outcome
          /\ \A y \in Invocations \ {x} : pc'[y] = pc[y] /\ status'[y] = status[y]
          /\ status'[x] = "running"
      BY <1>1, <1>m, <1>p DEF StartRun, OpenRow, TypeOK, LedgerType
    <2>2. StepInvAt(x)'  BY <1>0, <2>1 DEF StepInvAt, ClosedAgree, Tracked, Closed
    <2> QED  BY <2>1, <2>2, OtherSteps
  <1>2. CASE StartRunFails(x)
    <2>1. /\ step' = step /\ status'[x] \in {"running", status[x]}
          /\ \A y \in Invocations \ {x} : status'[y] = status[y]
      BY <1>2 DEF StartRunFails, OpenRow, TypeOK, LedgerType
    <2>2. ClosedAgree(x)'  BY <1>0, <2>1 DEF ClosedAgree, Closed
    <2> QED  BY <1>2, <2>1, <2>2, LeaveSteps DEF StartRunFails, Leave
  <1>3. CASE Acquire(x) \/ Heartbeat(x)
    <2>1. /\ pc[x] \in {"acquiring", "entering", "working"} /\ pc'[x] \in {"entering", "working"}
          /\ pc[x] # "acquiring" => pc'[x] = "working"
          /\ step' = step /\ work' = work /\ outcome' = outcome /\ status' = status
          /\ \A y \in Invocations \ {x} : pc'[y] = pc[y]
      BY <1>3, <1>m, <1>p DEF Acquire, Heartbeat, BeatDue, Renew
    <2>2. StepInvAt(x)'  BY <1>0, <2>1 DEF StepInvAt, ClosedAgree, Tracked
    <2> QED  BY <2>1, <2>2, OtherSteps
  <1>4. CASE AcquireBusy(x) \/ AcquireFails(x) \/ HeartbeatRefused(x) \/ HeartbeatFails(x)
    <2>1. \E o \in {"blocked", "lock_failed", "error"}, p \in {"closing", "finishing"} :
             Fail(x, o, p) /\ (p = "closing" => o # "error") /\ (p = "finishing" => o = "error")
      BY <1>4 DEF AcquireBusy, AcquireFails, HeartbeatRefused, HeartbeatFails
    <2>2. step' = step /\ status' = status
      BY <1>4 DEF AcquireBusy, AcquireFails, HeartbeatRefused, HeartbeatFails, Renew
    <2>3. /\ pc'[x] \in {"closing", "finishing"} /\ work' = work
          /\ pc'[x] = "closing" => outcome'[x] \in {"blocked", "lock_failed"}
          /\ pc'[x] = "finishing" => outcome'[x] = "error"
          /\ \A y \in Invocations \ {x} : pc'[y] = pc[y] /\ outcome'[y] = outcome[y]
      BY <1>m, <1>o, <1>p, <2>1
    <2>4. StepInvAt(x)'  BY <1>0, <2>2, <2>3 DEF StepInvAt, ClosedAgree, Decided
    <2> QED  BY <2>2, <2>3, <2>4, OtherSteps
  <1>5. CASE CloseRejected(x) \/ FinishFails(x)
    <2>1. LeaveAll({x}) /\ pc[x] \in {"closing", "finishing"} /\ (CloseRow(x) \/ UNCHANGED ledger)
      BY <1>5 DEF CloseRejected, FinishFails, Leave
    <2>2. /\ ClosedAgree(x)'
          /\ \A y \in Invocations \ {x} : step'[y] = step[y] /\ status'[y] = status[y]
      <3>1. CASE CloseRow(x)  BY <1>0, <2>1, <3>1, CloseAgrees
      <3>2. CASE UNCHANGED ledger  BY <1>0, <3>2 DEF ClosedAgree
      <3> QED  BY <2>1, <3>1, <3>2
    <2> QED  BY <2>1, <2>2, LeaveSteps
  <1>6. ASSUME NEW s \in Steps, BeginStep(x, s) \/ EndStep(x, s) PROVE StepInv'
    BY <1>6, WorkSteps
  <1>7. CASE Complete(x)
    <2>1. Decided(x)' /\ pc'[x] = "finishing"  BY <1>0, <1>7, VerdictAgrees
    <2>2. \E o \in Verdicts(x) : Fail(x, o, "finishing")  BY <1>7 DEF Complete
    <2>3. /\ step' = step /\ status' = status /\ work' = work
          /\ \A y \in Invocations \ {x} : pc'[y] = pc[y] /\ outcome'[y] = outcome[y]
      BY <1>7, <1>m, <1>o, <1>p, <2>2 DEF Complete
    <2>4. StepInvAt(x)'  BY <1>0, <2>1, <2>3 DEF StepInvAt, ClosedAgree
    <2> QED  BY <2>3, <2>4, OtherSteps
  <1>8. CASE Finish(x)
    <2>1. /\ pc[x] = "finishing" /\ pc'[x] = "releasing" /\ CloseRow(x) /\ work' = work /\ outcome' = outcome
          /\ \A y \in Invocations \ {x} : pc'[y] = pc[y]
      BY <1>8, <1>m, <1>p DEF Finish
    <2>2. /\ ClosedAgree(x)'
          /\ \A y \in Invocations \ {x} : step'[y] = step[y] /\ status'[y] = status[y]
      BY <1>0, <2>1, CloseAgrees
    <2>3. StepInvAt(x)'  BY <2>1, <2>2 DEF StepInvAt
    <2> QED  BY <2>1, <2>2, <2>3, OtherSteps
  <1>9. CASE Release(x)
    <2>1. /\ pc'[x] = "notifying" /\ step' = step /\ status' = status /\ work' = work /\ outcome' = outcome
          /\ \A y \in Invocations \ {x} : pc'[y] = pc[y]
      BY <1>9, <1>m, <1>p DEF Release
    <2>2. StepInvAt(x)'  BY <1>0, <2>1 DEF StepInvAt, ClosedAgree
    <2> QED  BY <2>1, <2>2, OtherSteps
  <1>10. CASE ReleaseFails(x) \/ Return(x)
    <2>1. LeaveAll({x}) /\ step' = step /\ status' = status
      BY <1>10 DEF ReleaseFails, Return, Leave
    <2>2. ClosedAgree(x)'  BY <1>0, <2>1 DEF ClosedAgree
    <2> QED  BY <2>1, <2>2, LeaveSteps
  <1> QED
    BY <1>1, <1>2, <1>3, <1>4, <1>5, <1>6, <1>7, <1>8, <1>9, <1>10 DEF Proceed

LEMMA NextSteps ==
    ASSUME TypeOK, LeaseInv, StepInv, [Next]_vars
    PROVE  StepInv'
  <1>0. \A y \in Invocations : ClosedAgree(y)  BY DEF StepInv, StepInvAt
  <1>1. ASSUME NEW x \in Invocations, Arrive(x) \/ CatchUp(x) PROVE StepInv'
    <2>1. /\ pc[x] = "unborn" /\ MoveTo(x, "queued") /\ work' = work /\ outcome' = outcome
          /\ step' = step /\ status' = status
      BY <1>1 DEF Arrive, CatchUp, ledger
    <2>2. pc'[x] = "queued" /\ \A y \in Invocations \ {x} : pc'[y] = pc[y]
      BY <2>1 DEF MoveTo, TypeOK, LocalType
    <2>3. StepInvAt(x)'  BY <2>1, <2>2 DEF StepInv, StepInvAt, ClosedAgree, Tracked
    <2> QED  BY <2>1, <2>2, <2>3, OtherSteps
  <1>2. ASSUME NEW gone \in SUBSET Invocations, LeaveAll(gone), UNCHANGED ledger PROVE StepInv'
    <2>1. \A y \in gone : ClosedAgree(y)'  BY <1>0, <1>2 DEF ClosedAgree, ledger
    <2> QED  BY <1>2, <2>1, LeaveSteps DEF ledger
  <1>3. ASSUME NEW x \in Invocations, SkipTrigger(x) \/ Cancel(x) PROVE StepInv'
    BY <1>2, <1>3 DEF SkipTrigger, Cancel, Leave
  <1>4. ASSUME NEW x \in Invocations, Proceed(x) PROVE StepInv'
    BY <1>4, ProceedSteps
  <1>5. ASSUME NEW i \in Instances, Crash(i) PROVE StepInv'
    BY <1>2, <1>5 DEF Crash
  <1>6. ASSUME NEW i \in Instances, Restart(i) \/ RecoverOrphans(i) PROVE StepInv'
    BY <1>6, ReconcileSteps DEF Restart, RecoverOrphans
  <1>7. CASE Tick \/ UNCHANGED vars
    BY <1>7, StepFrame DEF Tick, vars, ledger, local, StepInv
  <1> QED  BY <1>1, <1>3, <1>4, <1>5, <1>6, <1>7 DEF Next

LEMMA StepsCorrect == ASSUME Timely PROVE Spec => []StepInv
  <1>1. Init => StepInv
    BY DEF Init, StepInv, StepInvAt, ClosedAgree, Tracked, Closed
  <1>2. TypeOK /\ LeaseInv /\ StepInv /\ [Next]_vars => StepInv'  BY NextSteps
  <1> QED  BY <1>1, <1>2, LeaseCorrect, PTL DEF Spec

\* A run that is recorded as succeeded did all of its steps, whatever call to
\* the database fails, as long as no task stalls beyond the margins of the
\* lease (aggregate_activity_outcomes, finish_run_success).
THEOREM SuccessIsEarned == ASSUME Timely PROVE Spec => []SuccessMeansSteps
  <1>1. StepInv => SuccessMeansSteps
    BY DEF StepInv, StepInvAt, ClosedAgree, SuccessMeansSteps
  <1> QED  BY <1>1, StepsCorrect, PTL

\* If in addition the writes of the steps themselves do not fail, no closed run
\* leaves a step running: not one that was cancelled, lost its lease, crashed
\* or was reclaimed.
THEOREM RunsAndStepsAgree ==
    ASSUME Timely, "step" \notin Faults PROVE Spec => []StepsAgree
  <1>1. StepInv => StepsAgree
    BY DEF StepInv, StepInvAt, ClosedAgree, Strict, StepsAgree, NoStepLeftRunning,
           SuccessMeansSteps
  <1> QED  BY <1>1, StepsCorrect, PTL

(***************************************************************************)
(* The lease in the hands of its owner.                                    *)
(***************************************************************************)

\* What a step may do to the holder.
HandsOver == holder' = holder \/ leaseLeft = 0 \/ pc[holder] = "releasing"

LEMMA NextHandsOver == ASSUME [Next]_vars PROVE HandsOver
  <1>1. ASSUME NEW x \in Invocations, Release(x) \/ ReleaseFails(x) PROVE HandsOver
    BY <1>1 DEF HandsOver, Release, ReleaseFails, DropLease, EitherApplied, lease
  <1>2. ASSUME NEW x \in Invocations, Acquire(x) \/ AcquireFails(x) PROVE HandsOver
    BY <1>2 DEF HandsOver, Acquire, AcquireFails, TakeLease, EitherApplied, lease
  <1>3. ASSUME NEW x \in Invocations, Heartbeat(x) \/ HeartbeatRefused(x) \/ HeartbeatFails(x)
        PROVE  HandsOver
    BY <1>3 DEF HandsOver, Heartbeat, HeartbeatRefused, HeartbeatFails, Renew, EitherApplied, lease
  <1>4. ASSUME NEW x \in Invocations,
               \/ StartRun(x) \/ StartRunFails(x) \/ AcquireBusy(x) \/ CloseRejected(x)
               \/ Complete(x) \/ Finish(x) \/ FinishFails(x) \/ Return(x)
               \/ Arrive(x) \/ SkipTrigger(x) \/ CatchUp(x) \/ Cancel(x)
        PROVE  HandsOver
    BY <1>4 DEF HandsOver, StartRun, StartRunFails, AcquireBusy, CloseRejected, Complete, Finish,
                FinishFails, Return, Arrive, SkipTrigger, CatchUp, Cancel, lease
  <1>5. ASSUME NEW x \in Invocations, NEW s \in Steps, BeginStep(x, s) \/ EndStep(x, s)
        PROVE  HandsOver
    BY <1>5 DEF HandsOver, BeginStep, EndStep, lease
  <1>6. ASSUME NEW i \in Instances, Crash(i) \/ Restart(i) \/ RecoverOrphans(i) PROVE HandsOver
    BY <1>6 DEF HandsOver, Crash, Restart, RecoverOrphans, Reconcile, ClearExpired, lease
  <1>7. CASE Tick \/ UNCHANGED vars
    BY <1>7 DEF HandsOver, Tick, vars, lease
  <1> QED  BY <1>1, <1>2, <1>3, <1>4, <1>5, <1>6, <1>7 DEF Next, Proceed

\* A lease that has not expired changes hands only when the task that owns it
\* gives it up (release_run_lease): neither start-up nor recovery nor another
\* instance takes it, whatever stalls, crashes or fails.
THEOREM LeaseIsKept == Spec => UnexpiredLeaseIsKept
  <1>1. TypeOK /\ [Next]_vars
          => [leaseLeft > 0 /\ holder # NoRun /\ holder' # holder => pc[holder] = "releasing"]_vars
    BY NextHandsOver DEF HandsOver, TypeOK, LeaseType
  <1> QED  BY <1>1, TypeCorrect, PTL DEF Spec, UnexpiredLeaseIsKept
=============================================================================
