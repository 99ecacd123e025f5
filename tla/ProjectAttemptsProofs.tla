------------------------ MODULE ProjectAttemptsProofs ------------------------
(***************************************************************************)
(* What holds of every batch: of any number of projects, slots, attempts   *)
(* and any retry delays, whatever calls on the rows fail.                  *)
(***************************************************************************)
EXTENDS ProjectAttempts, TLAPS

-----------------------------------------------------------------------------
(* Types *)

\* The attempts of a project are counted from one, and a pause is only made
\* before an attempt that may still be made.
Numbered ==
    \A p \in Projects :
        /\ phase[p] # "waiting" => attempt[p] > 0
        /\ phase[p] = "sleeping" => attempt[p] < MaxAttempts

Typed == TypeOK /\ Numbered

\* What the attempt helpers leave behind.
LEMMA FailureEffect ==
    ASSUME Typed, NEW p \in Projects, NEW e \in Errors,
           phase[p] \in Timed, AttemptFails(p, e)
    PROVE  /\ ControlType' /\ ClockType' /\ Numbered'
           /\ result' = result /\ attempt' = attempt /\ at' = at /\ op' = op
           /\ \/ phase' = [phase EXCEPT ![p] = "sleeping"]
              \/ phase' = [phase EXCEPT ![p] = "reporting"]
<1>1. attempt[p] \in Nat /\ attempt[p] > 0 /\ attempt[p] <= MaxAttempts
    BY BatchConstants DEF Typed, TypeOK, ControlType, Numbered, Timed, InAttempt
<1>2. Delay[attempt[p]] \in Nat
    BY <1>1, BatchConstants
<1>3. CASE MayRetry(p, e) /\ MoveTo(p, "sleeping") /\ Arm(p, Delay[attempt[p]])
           /\ UNCHANGED <<attempt, at, op, held, result>>
    BY <1>1, <1>2, <1>3, BatchConstants
    DEF Typed, TypeOK, ControlType, ClockType, Numbered, MoveTo, Arm, MayRetry,
        Timed, InSlot, InAttempt
<1>4. CASE GiveUp(p)
    BY <1>1, <1>4, BatchConstants
    DEF Typed, TypeOK, ControlType, ClockType, Numbered, MoveTo, Arm, Disarm, GiveUp,
        Timed, InSlot, InAttempt
<1> QED BY <1>3, <1>4 DEF AttemptFails

LEMMA BeginEffect ==
    ASSUME Typed, NEW p \in Projects, NEW n \in 1 .. MaxAttempts, BeginAttempt(p, n)
    PROVE  ControlType' /\ ClockType' /\ Numbered'
<1>1. Remaining(p) \in Nat
    BY BatchConstants DEF Remaining, Typed, TypeOK, ClockType
<1> QED BY <1>1, BatchConstants
    DEF Typed, TypeOK, ControlType, ClockType, Numbered, BeginAttempt, MoveTo, Arm,
        Timed, InSlot, InAttempt, Steps

LEMMA ProceedEffect ==
    ASSUME Typed, NEW p \in Projects, phase[p] \in Timed, Proceed(p)
    PROVE  /\ ControlType' /\ ClockType' /\ Numbered'
           /\ result' \in [Projects -> {"none", "ok", "failed"}]
<1>1. Last(p) \in 3 .. 4
    BY DEF Last
<1>2. at[p] \in 1 .. 4 /\ attempt[p] > 0
    BY DEF Typed, TypeOK, ControlType, Numbered, Timed, InAttempt, Steps
<1>3. phase' \in [Projects -> InSlot \cup {"waiting", "done"}]
    BY DEF Proceed, MoveTo, Typed, TypeOK, ControlType, InSlot, Timed, InAttempt
<1>4. at' \in [Projects -> Steps]
    BY <1>1, <1>2 DEF Proceed, Typed, TypeOK, ControlType, Steps
<1>5. attempt' = attempt /\ op' = op
    BY DEF Proceed
<1>6. result' \in [Projects -> {"none", "ok", "failed"}]
    BY DEF Proceed, Typed, TypeOK
<1>7. ClockType'
    BY BatchConstants DEF Proceed, Disarm, Arm, clock, Typed, TypeOK, ClockType
<1>8. phase' = [phase EXCEPT ![p] = "starting"] \/ phase' = [phase EXCEPT ![p] = "done"]
    BY DEF Proceed, MoveTo
<1>9. Numbered'
    BY <1>2, <1>5, <1>8 DEF Numbered, Typed, TypeOK, ControlType
<1> QED BY <1>3, <1>4, <1>5, <1>6, <1>7, <1>9 DEF Typed, TypeOK, ControlType

LEMMA WriteEffect ==
    ASSUME Typed, NEW p \in Projects, NEW s \in Steps, NEW v \in RowState,
           WriteRow(p, s, v)
    PROVE  /\ row' \in [Projects -> [Steps -> RowState]]
           /\ by' \in [Projects -> [Steps -> 0 .. MaxAttempts]]
BY DEF Typed, TypeOK, RowType, ControlType, WriteRow

LEMMA PendingType ==
    ASSUME Typed, NEW p \in Projects
    PROVE  Pending(p) \in SUBSET (Steps \X RowState)
BY DEF Typed, TypeOK, ControlType, Pending, Verdict, RowState

\* All variables keep their types and attempts stay within their number.
LEMMA TypedStep == Typed /\ [Next]_vars => Typed'
<1> SUFFICES ASSUME Typed, [Next]_vars PROVE Typed'
    OBVIOUS
<1> USE BatchConstants
<1>1. CASE UNCHANGED vars
    BY <1>1 DEF Typed, TypeOK, ControlType, ClockType, RowType, Numbered,
        vars, control, clock, rows
<1>2. CASE ReadScopes \/ Return
    BY <1>2 DEF Typed, TypeOK, ControlType, ClockType, RowType, Numbered,
        ReadScopes, Return, Aggregate, control, clock, rows
<1>3. CASE Drop
    <2>1. adrift' \in [Projects -> SUBSET (Steps \X RowState)]
        BY <1>3, PendingType DEF Drop, Typed, TypeOK, RowType
    <2>2. mishap' \in [Projects -> BOOLEAN]
        BY <1>3 DEF Drop
    <2> QED BY <1>3, <2>1, <2>2 DEF Typed, TypeOK, ControlType, ClockType, RowType,
        Numbered, Drop, control, clock
<1>4. CASE Tick
    <2>1. held' \in [Projects -> Nat]
        BY <1>4 DEF Tick, Typed, TypeOK, ClockType
    <2>2. timer' \in [Projects -> Nat]
        BY <1>4 DEF Tick, Typed, TypeOK, ClockType
    <2>3. late' \in [Projects -> 0 .. Slack]
        <3>1. \A p \in Projects : IsTimed(p) /\ timer[p] = 0 => late[p] < Slack
            BY <1>4 DEF Tick
        <3> QED BY <1>4, <3>1 DEF Tick, Typed, TypeOK, ClockType
    <2> QED BY <1>4, <2>1, <2>2, <2>3 DEF Typed, TypeOK, ControlType, ClockType, RowType,
        Numbered, Tick, control, rows
<1>5. ASSUME NEW p \in Projects, Advance(p) PROVE Typed'
    <2> phase[p] \in Timed <=> phase[p] \in {"opening", "starting", "inside", "ending", "sleeping"}
        BY DEF Timed, InAttempt
    <2>0. at[p] \in Steps /\ attempt[p] \in 0 .. MaxAttempts /\ op[p] \in Errors \cup {"ok"}
        BY DEF Typed, TypeOK, ControlType
    <2>a. mishap' \in [Projects -> BOOLEAN] \/ ~(Failed(p) \/ UNCHANGED mishap)
        BY DEF Failed, Typed, TypeOK, RowType
    <2>1. CASE Opened(p)
        <3>1. CASE MoveTo(p, "starting") /\ UNCHANGED <<attempt, at, op, clock, result>>
            BY <2>1, <3>1 DEF Opened, Runs, Typed, TypeOK, ControlType, ClockType, RowType,
                Numbered, MoveTo, clock, rows, InSlot, Timed, InAttempt
        <3>2. CASE \E e \in Errors : AttemptFails(p, e)
            BY <2>1, <3>2, FailureEffect DEF Opened, Runs, Typed, TypeOK, RowType, rows
        <3> QED BY <2>1, <3>1, <3>2 DEF Opened
    <2>2. CASE StepOpened(p)
        <3>1. row' \in [Projects -> [Steps -> RowState]] /\ by' \in [Projects -> [Steps -> 0 .. MaxAttempts]]
            BY <2>0, <2>2, WriteEffect DEF StepOpened, RowState
        <3> QED BY <2>2, <3>1 DEF StepOpened, Runs, Typed, TypeOK, ControlType, ClockType,
            RowType, Numbered, MoveTo, clock, InSlot, Timed, InAttempt
    <2>3. CASE StepOpenFails(p)
        <3>1. row' \in [Projects -> [Steps -> RowState]] /\ by' \in [Projects -> [Steps -> 0 .. MaxAttempts]]
            BY <2>0, <2>3, WriteEffect DEF StepOpenFails, RowState, Typed, TypeOK, RowType
        <3> QED BY <2>3, <2>a, <3>1, FailureEffect DEF StepOpenFails, Runs, Typed, TypeOK, RowType
    <2>4. CASE OperationEnds(p)
        BY <2>4 DEF OperationEnds, Runs, Typed, TypeOK, ControlType, ClockType,
            RowType, Numbered, MoveTo, clock, rows, InSlot, Timed, InAttempt
    <2>5. CASE StepClosed(p)
        <3>1. row' \in [Projects -> [Steps -> RowState]] /\ by' \in [Projects -> [Steps -> 0 .. MaxAttempts]]
            BY <2>0, <2>5, WriteEffect DEF StepClosed, RowState, Verdict
        <3>2. CASE op[p] = "ok"
            BY <2>5, <3>1, <3>2, ProceedEffect DEF StepClosed, Runs, Typed, TypeOK, RowType
        <3>3. CASE op[p] # "ok"
            BY <2>0, <2>5, <3>1, <3>3, FailureEffect DEF StepClosed, Runs, Typed, TypeOK, RowType
        <3> QED BY <3>2, <3>3
    <2>6. CASE StepCloseFails(p)
        <3>1. row' \in [Projects -> [Steps -> RowState]] /\ by' \in [Projects -> [Steps -> 0 .. MaxAttempts]]
            BY <2>0, <2>6, WriteEffect DEF StepCloseFails, RowState, Verdict, Typed, TypeOK, RowType
        <3> QED BY <2>6, <2>a, <3>1, FailureEffect DEF StepCloseFails, Runs, Typed, TypeOK, RowType
    <2> QED BY <1>5, <2>1, <2>2, <2>3, <2>4, <2>5, <2>6 DEF Advance
<1>6. ASSUME NEW p \in Projects, Serve(p) PROVE Typed'
    <2>1. CASE Start(p)
        <3>1. 1 \in 1 .. MaxAttempts
            OBVIOUS
        <3> QED BY <2>1, <3>1, BeginEffect DEF Start, Typed, TypeOK, RowType, rows
    <2>2. CASE Wake(p)
        <3>1. CASE Remaining(p) = 0
            <4>1. GiveUp(p) /\ phase[p] = "sleeping"
                BY <2>2, <3>1 DEF Wake, Runs
            <4>2. ClockType'
                BY <4>1 DEF GiveUp, Disarm, Arm, Typed, TypeOK, ClockType
            <4>3. ControlType' /\ Numbered'
                BY <4>1 DEF GiveUp, MoveTo, Typed, TypeOK, ControlType, Numbered,
                    InSlot, Timed, InAttempt
            <4> QED BY <2>2, <4>1, <4>2, <4>3 DEF Wake, GiveUp, Typed, TypeOK, RowType, rows
        <3>2. CASE Remaining(p) # 0
            <4>1. attempt[p] + 1 \in 1 .. MaxAttempts
                BY <2>2 DEF Wake, Runs, Typed, TypeOK, ControlType, Numbered
            <4> QED BY <2>2, <3>2, <4>1, BeginEffect DEF Wake, Typed, TypeOK, RowType, rows
        <3> QED BY <3>1, <3>2
    <2>3. CASE TimeOut(p)
        <3>1. adrift' \in [Projects -> SUBSET (Steps \X RowState)]
            BY <2>3, PendingType DEF TimeOut, Typed, TypeOK, RowType
        <3>2. mishap' \in [Projects -> BOOLEAN]
            <4>1. mishap \in [Projects -> BOOLEAN]
                BY DEF Typed, TypeOK, RowType
            <4>2. (mishap[p] \/ Pending(p) # {}) \in BOOLEAN
                OBVIOUS
            <4> QED BY <2>3, <4>1, <4>2 DEF TimeOut
        <3>3. phase[p] # "waiting"
            BY <2>3 DEF TimeOut, InAttempt
        <3> QED BY <2>3, <3>1, <3>2, <3>3 DEF TimeOut, MoveTo, Disarm, Arm, Typed, TypeOK,
            ControlType, ClockType, RowType, Numbered, InSlot, Timed, InAttempt
    <2>4. CASE CleanUp(p)
        <3>1. mishap' \in [Projects -> BOOLEAN]
            BY <2>4 DEF CleanUp, Failed, Typed, TypeOK, RowType
        <3>2. row' \in [Projects -> [Steps -> RowState]]
            <4>1. row \in [Projects -> [Steps -> RowState]]
                BY DEF Typed, TypeOK, RowType
            <4>2. CASE UNCHANGED row
                BY <4>1, <4>2
            <4>3. CASE CloseRows(p)
                BY <4>1, <4>3 DEF CloseRows, RowState
            <4> QED BY <2>4, <4>2, <4>3 DEF CleanUp
        <3> QED BY <2>4, <3>1, <3>2 DEF CleanUp, Runs, MoveTo, Typed, TypeOK,
            ControlType, ClockType, RowType, Numbered, clock, InSlot, Timed, InAttempt
    <2>5. CASE Reported(p)
        BY <2>5 DEF Reported, Runs, MoveTo, Typed, TypeOK,
            ControlType, ClockType, RowType, Numbered, clock, rows, InSlot, Timed, InAttempt
    <2> QED BY <1>6, <2>1, <2>2, <2>3, <2>4, <2>5 DEF Serve
<1>7. ASSUME NEW p \in Projects, Land(p) \/ Sink(p) PROVE Typed'
    <2>1. adrift' \in [Projects -> SUBSET (Steps \X RowState)]
        BY <1>7 DEF Land, Sink, Typed, TypeOK, RowType
    <2>2. row' \in [Projects -> [Steps -> RowState]] /\ by' \in [Projects -> [Steps -> 0 .. MaxAttempts]]
        <3>1. CASE Land(p)
            <4>1. PICK c \in adrift[p] : WriteRow(p, c[1], c[2])
                BY <3>1 DEF Land
            <4>2. c[1] \in Steps /\ c[2] \in RowState
                BY <4>1 DEF Typed, TypeOK, RowType
            <4> QED BY <4>1, <4>2, WriteEffect
        <3>2. CASE Sink(p)
            BY <3>2 DEF Sink, Typed, TypeOK, RowType
        <3> QED BY <1>7, <3>1, <3>2
    <2> QED BY <1>7, <2>1, <2>2 DEF Land, Sink, Typed, TypeOK, ControlType, ClockType,
        RowType, Numbered, control, clock
<1> QED BY <1>1, <1>2, <1>3, <1>4, <1>5, <1>6, <1>7 DEF Next

LEMMA TypedInit == Init => Typed
BY BatchConstants DEF Init, Typed, TypeOK, ControlType, ClockType, RowType, Numbered,
    RowState, Steps, InSlot, Timed, InAttempt

\* The variables of the model of run_workflow_inner keep their types.
THEOREM TypeCorrect == Spec => []TypeOK
<1>1. Spec => []Typed
    BY TypedInit, TypedStep, PTL DEF Spec
<1> QED BY <1>1, PTL DEF Typed

-----------------------------------------------------------------------------
(* Time *)

\* A running timer never reaches beyond the deadline, and one that has run
\* out was passed at most by the time it has gone unseen.
InBudget(p) ==
    /\ phase[p] = "waiting" => held[p] = 0
    /\ phase[p] \in Timed => held[p] + timer[p] <= Budget + late[p]
    /\ phase[p] \in Timed /\ timer[p] > 0 => late[p] = 0

Clocked == \A p \in Projects : InBudget(p)

\* What a step may do to the clocks of a project outside of Tick: nothing,
\* while it stays timed or waits; a new timer within the deadline; or it is
\* not timed any more.
ClockStep(p) ==
    \/ /\ held'[p] = held[p] /\ timer'[p] = timer[p] /\ late'[p] = late[p]
       /\ phase'[p] = phase[p] \/ (phase[p] \in Timed /\ phase'[p] # "waiting")
    \/ /\ held'[p] = held[p] /\ held[p] + timer'[p] <= Budget /\ late'[p] = 0
       /\ phase'[p] \in Timed
    \/ phase'[p] \notin Timed \cup {"waiting"}

LEMMA ClockStepKeeps ==
    ASSUME Typed, Typed', NEW p \in Projects, InBudget(p), ClockStep(p)
    PROVE  InBudget(p)'
<1>1. /\ held[p] \in Nat /\ timer[p] \in Nat /\ late[p] \in Nat
      /\ held'[p] \in Nat /\ timer'[p] \in Nat /\ late'[p] \in Nat
    BY BatchConstants DEF Typed, TypeOK, ClockType
<1>2. "waiting" \notin Timed
    BY DEF Timed, InAttempt
<1> QED BY <1>1, <1>2, BatchConstants DEF InBudget, ClockStep

LEMMA FailureClock ==
    ASSUME Typed, NEW p \in Projects, NEW e \in Errors,
           phase[p] \in Timed, AttemptFails(p, e)
    PROVE  ClockStep(p)
<1>1. attempt[p] \in 1 .. MaxAttempts
    BY BatchConstants DEF Typed, TypeOK, ControlType, Numbered, Timed, InAttempt
<1>2. Delay[attempt[p]] \in Nat /\ held[p] \in Nat
    BY <1>1, BatchConstants DEF Typed, TypeOK, ClockType
<1>3. CASE MayRetry(p, e) /\ MoveTo(p, "sleeping") /\ Arm(p, Delay[attempt[p]])
           /\ UNCHANGED <<attempt, at, op, held, result>>
    <2>1. held[p] + Delay[attempt[p]] <= Budget
        BY <1>2, <1>3, BatchConstants DEF MayRetry, Remaining
    <2> QED BY <1>3, <2>1 DEF MoveTo, Arm, Typed, TypeOK, ControlType, ClockType,
            ClockStep, Timed
<1>4. CASE GiveUp(p)
    BY <1>4 DEF GiveUp, MoveTo, Typed, TypeOK, ControlType, ClockStep, Timed, InAttempt
<1> QED BY <1>3, <1>4 DEF AttemptFails

LEMMA BeginClock ==
    ASSUME Typed, NEW p \in Projects, NEW n \in Nat, BeginAttempt(p, n), Remaining(p) # 0
    PROVE  ClockStep(p)
<1>1. held[p] \in Nat /\ held[p] + Remaining(p) <= Budget
    BY BatchConstants DEF Remaining, Typed, TypeOK, ClockType
<1> QED BY <1>1 DEF BeginAttempt, MoveTo, Arm, Typed, TypeOK, ControlType, ClockType,
        ClockStep, Timed, InAttempt

LEMMA ProceedClock ==
    ASSUME Typed, NEW p \in Projects, phase[p] \in Timed, Proceed(p)
    PROVE  ClockStep(p)
BY DEF Proceed, MoveTo, clock, Typed, TypeOK, ControlType, ClockStep, Timed, InAttempt

\* An action of one project leaves the clocks of the others alone.
LEMMA OthersKeepTime ==
    ASSUME Typed, NEW p \in Projects, Advance(p) \/ Serve(p) \/ Land(p) \/ Sink(p),
           NEW q \in Projects, q # p
    PROVE  /\ phase'[q] = phase[q] /\ held'[q] = held[q]
           /\ timer'[q] = timer[q] /\ late'[q] = late[q]
<1> USE DEF Typed, TypeOK, ControlType, ClockType, MoveTo, Arm, Disarm, GiveUp,
        BeginAttempt, clock
<1>1. ASSUME NEW e, AttemptFails(p, e)
      PROVE  /\ phase'[q] = phase[q] /\ held'[q] = held[q]
             /\ timer'[q] = timer[q] /\ late'[q] = late[q]
    BY <1>1 DEF AttemptFails
<1>2. ASSUME Proceed(p)
      PROVE  /\ phase'[q] = phase[q] /\ held'[q] = held[q]
             /\ timer'[q] = timer[q] /\ late'[q] = late[q]
    BY <1>2 DEF Proceed
<1>3. CASE Opened(p)
    BY <1>1, <1>3 DEF Opened
<1>4. CASE StepOpened(p) \/ OperationEnds(p)
    BY <1>4 DEF StepOpened, OperationEnds
<1>5. CASE StepOpenFails(p) \/ StepCloseFails(p)
    BY <1>1, <1>5 DEF StepOpenFails, StepCloseFails
<1>6. CASE StepClosed(p)
    BY <1>1, <1>2, <1>6 DEF StepClosed
<1>7. CASE Serve(p)
    BY <1>7 DEF Serve, Start, Wake, TimeOut, CleanUp, Reported
<1>8. CASE Land(p) \/ Sink(p)
    BY <1>8 DEF Land, Sink, control
<1> QED BY <1>3, <1>4, <1>5, <1>6, <1>7, <1>8 DEF Advance

LEMMA ClockedStep == Typed /\ Clocked /\ [Next]_vars => Clocked'
<1> SUFFICES ASSUME Typed, Clocked, [Next]_vars PROVE Clocked'
    OBVIOUS
<1>0. Typed'
    BY TypedStep
<1>1. CASE UNCHANGED vars
    BY <1>1 DEF Clocked, InBudget, vars, control, clock
<1>2. CASE ReadScopes \/ Return \/ Drop
    BY <1>2 DEF ReadScopes, Return, Drop, Clocked, InBudget, control, clock
<1>3. CASE Tick
    <2> SUFFICES ASSUME NEW p \in Projects PROVE InBudget(p)'
        BY DEF Clocked
    <2>1. held[p] \in Nat /\ timer[p] \in Nat /\ late[p] \in Nat /\ Budget \in Nat
        BY BatchConstants DEF Typed, TypeOK, ClockType
    <2>2. "waiting" \notin Timed /\ phase' = phase
        BY <1>3 DEF Timed, InAttempt, Tick, control
    <2>3. InBudget(p)
        BY DEF Clocked
    <2>4. CASE phase[p] \in Timed
        <3>1. held'[p] = held[p] + 1
            BY <1>3, <2>4 DEF Tick, IsTimed
        <3>2. timer[p] > 0 => timer'[p] = timer[p] - 1 /\ late'[p] = late[p]
            BY <1>3, <2>1, <2>4 DEF Tick, IsTimed
        <3>3. timer[p] = 0 => timer'[p] = 0 /\ late'[p] = late[p] + 1
            BY <1>3, <2>1, <2>4 DEF Tick, IsTimed
        <3> QED BY <2>1, <2>2, <2>3, <2>4, <3>1, <3>2, <3>3 DEF InBudget
    <2>5. CASE phase[p] \notin Timed
        BY <1>3, <2>2, <2>3, <2>5 DEF InBudget, Tick, IsTimed
    <2> QED BY <2>4, <2>5
<1>4. ASSUME NEW p \in Projects, Advance(p) \/ Serve(p) \/ Land(p) \/ Sink(p) PROVE Clocked'
    <2>0. InBudget(p)
        BY DEF Clocked
    <2>1. ASSUME NEW q \in Projects, q # p PROVE InBudget(q)'
        <3>1. /\ phase'[q] = phase[q] /\ held'[q] = held[q]
              /\ timer'[q] = timer[q] /\ late'[q] = late[q]
            BY <1>4, <2>1, OthersKeepTime
        <3> QED BY <2>1, <3>1 DEF Clocked, InBudget
    <2> op[p] \in Errors \cup {"ok"}
        BY DEF Typed, TypeOK, ControlType
    <2>2. ClockStep(p)
        <3>1. CASE Opened(p)
            <4>1. phase[p] \in Timed
                BY <3>1 DEF Opened, Runs, Timed, InAttempt
            <4>2. CASE MoveTo(p, "starting") /\ UNCHANGED <<attempt, at, op, clock, result>>
                BY <4>1, <4>2 DEF MoveTo, clock, ClockStep, Typed, TypeOK, ControlType, Timed, InAttempt
            <4> QED BY <3>1, <4>1, <4>2, FailureClock DEF Opened
        <3>2. CASE StepOpened(p) \/ OperationEnds(p)
            BY <3>2 DEF StepOpened, OperationEnds, Runs, MoveTo, clock, ClockStep, Typed, TypeOK,
                ControlType, Timed, InAttempt
        <3>3. CASE StepOpenFails(p) \/ StepCloseFails(p)
            <4>1. phase[p] \in Timed
                BY <3>3 DEF StepOpenFails, StepCloseFails, Runs, Timed, InAttempt
            <4> QED BY <3>3, <4>1, FailureClock DEF StepOpenFails, StepCloseFails
        <3>4. CASE StepClosed(p)
            <4>1. phase[p] \in Timed
                BY <3>4 DEF StepClosed, Runs, Timed, InAttempt
            <4> QED BY <3>4, <4>1, FailureClock, ProceedClock DEF StepClosed
        <3>5. CASE Start(p)
            <4>1. held[p] = 0
                BY <2>0, <3>5 DEF Start, InBudget
            <4>2. Remaining(p) # 0
                BY <4>1, BatchConstants DEF Remaining
            <4> QED BY <3>5, <4>2, BeginClock DEF Start
        <3>6. CASE Wake(p)
            <4>1. CASE Remaining(p) = 0
                BY <3>6, <4>1 DEF Wake, GiveUp, MoveTo, ClockStep, Typed, TypeOK, ControlType, Timed, InAttempt
            <4>2. attempt[p] + 1 \in Nat
                BY BatchConstants DEF Typed, TypeOK, ControlType
            <4> QED BY <3>6, <4>1, <4>2, BeginClock DEF Wake
        <3>7. CASE TimeOut(p) \/ CleanUp(p) \/ Reported(p)
            <4>1. phase'[p] \in {"cleaning", "reporting", "done"}
                BY <3>7 DEF TimeOut, CleanUp, Reported, MoveTo, Typed, TypeOK, ControlType
            <4> QED BY <4>1 DEF ClockStep, Timed, InAttempt
        <3>8. CASE Land(p) \/ Sink(p)
            <4>1. phase' = phase /\ held' = held /\ timer' = timer /\ late' = late
                BY <3>8 DEF Land, Sink, control, clock
            <4> QED BY <4>1 DEF ClockStep
        <3> QED BY <1>4, <3>1, <3>2, <3>3, <3>4, <3>5, <3>6, <3>7, <3>8 DEF Advance, Serve
    <2>3. InBudget(p)'
        BY <1>0, <2>0, <2>2, ClockStepKeeps
    <2> QED BY <2>1, <2>3 DEF Clocked
<1> QED BY <1>1, <1>2, <1>3, <1>4 DEF Next

\* The budget of WORKFLOW_PROJECT_TIMEOUT_SECONDS covers all the attempts
\* of a project and the pauses between them.
THEOREM BudgetIsKept == Spec => []BudgetKept
<1>1. Init => Typed /\ Clocked
    BY TypedInit DEF Init, Clocked, InBudget, Timed, InAttempt
<1>2. Typed /\ Clocked /\ [Next]_vars => Typed' /\ Clocked'
    BY TypedStep, ClockedStep
<1>3. Typed /\ Clocked => BudgetKept
    <2> SUFFICES ASSUME Typed, Clocked, NEW p \in Projects, IsTimed(p)
                 PROVE  held[p] <= Budget + Slack
        BY DEF BudgetKept
    <2>1. held[p] \in Nat /\ timer[p] \in Nat /\ late[p] \in 0 .. Slack
        BY DEF Typed, TypeOK, ClockType
    <2> QED BY <2>1, BatchConstants DEF Clocked, InBudget, IsTimed
<1> QED BY <1>1, <1>2, <1>3, PTL DEF Spec

-----------------------------------------------------------------------------
(* Rows *)

\* The step s was done by the present attempt of p.
DoneNow(p, s) == row[p][s] = "succeeded" /\ by[p][s] = attempt[p]

\* No dropped call of a project that goes on, or may be reported as
\* processed, is under way: only what has ended badly leaves one behind.
Calm(p) ==
    /\ batch # "dropped" /\ phase[p] \in Timed \cup {"waiting"} => adrift[p] = {}
    /\ result[p] = "ok" => phase[p] = "done" /\ adrift[p] = {}

\* An attempt has done the steps behind it, and opened the one it is in.
InOrder(p) ==
    /\ phase[p] = "opening" => at[p] = 1
    /\ batch # "dropped" /\ phase[p] \in {"starting", "inside", "ending"} =>
          /\ at[p] <= Last(p)
          /\ \A s \in 1 .. (at[p] - 1) : DoneNow(p, s)
          /\ phase[p] # "starting" => by[p][at[p]] = attempt[p]

Honest(p) == result[p] = "ok" => Whole(p)

Orderly(p) == Calm(p) /\ InOrder(p) /\ Honest(p)

Faithful ==
    /\ \A p \in Projects : Orderly(p)
    /\ outcome = "ok" => \A p \in Projects : result[p] = "ok"

\* An action of one project leaves the rest of the others alone, too.
LEMMA OthersKeepRows ==
    ASSUME Typed, NEW p \in Projects, Advance(p) \/ Serve(p) \/ Land(p) \/ Sink(p),
           NEW q \in Projects, q # p
    PROVE  /\ row'[q] = row[q] /\ by'[q] = by[q] /\ adrift'[q] = adrift[q]
           /\ attempt'[q] = attempt[q] /\ at'[q] = at[q] /\ op'[q] = op[q]
           /\ result'[q] = result[q]
           /\ mishap[q] => mishap'[q]
<1> USE DEF Typed, TypeOK, ControlType, ClockType, RowType, MoveTo, Arm, Disarm, GiveUp,
        BeginAttempt, clock, rows
<1> DEFINE Kept == /\ attempt'[q] = attempt[q] /\ at'[q] = at[q] /\ op'[q] = op[q]
                   /\ result'[q] = result[q]
           RowsKept == row'[q] = row[q] /\ by'[q] = by[q]
<1>1. ASSUME NEW e, AttemptFails(p, e) PROVE Kept
    BY <1>1 DEF AttemptFails
<1>2. ASSUME Proceed(p) PROVE Kept
    BY <1>2 DEF Proceed
<1>w. ASSUME NEW s, NEW v, WriteRow(p, s, v) PROVE RowsKept
    BY <1>w DEF WriteRow
<1>m. Failed(p) => (mishap[q] => mishap'[q])
    BY DEF Failed
<1>3. CASE Opened(p)
    BY <1>1, <1>3 DEF Opened
<1>4. CASE StepOpened(p) \/ OperationEnds(p)
    BY <1>w, <1>4 DEF StepOpened, OperationEnds
<1>5. CASE StepOpenFails(p) \/ StepCloseFails(p)
    BY <1>1, <1>w, <1>m, <1>5 DEF StepOpenFails, StepCloseFails
<1>6. CASE StepClosed(p)
    BY <1>1, <1>2, <1>w, <1>6 DEF StepClosed
<1>7. CASE Start(p) \/ Wake(p) \/ Reported(p)
    BY <1>7 DEF Start, Wake, Reported
<1>8. CASE TimeOut(p)
    BY <1>8 DEF TimeOut
<1>9. CASE CleanUp(p)
    <2>1. RowsKept
        BY <1>9 DEF CleanUp, CloseRows
    <2>2. mishap[q] => mishap'[q]
        BY <1>9, <1>m DEF CleanUp
    <2> QED BY <1>9, <2>1, <2>2 DEF CleanUp
<1>10. CASE Land(p) \/ Sink(p)
    BY <1>10, <1>w DEF Land, Sink, control
<1> QED BY <1>3, <1>4, <1>5, <1>6, <1>7, <1>8, <1>9, <1>10 DEF Advance, Serve

LEMMA OthersStayOrderly ==
    ASSUME Typed, NEW p \in Projects, Advance(p) \/ Serve(p) \/ Land(p) \/ Sink(p),
           NEW q \in Projects, q # p, Orderly(q)
    PROVE  Orderly(q)'
<1>1. /\ row'[q] = row[q] /\ by'[q] = by[q] /\ adrift'[q] = adrift[q]
      /\ attempt'[q] = attempt[q] /\ at'[q] = at[q] /\ result'[q] = result[q]
    BY OthersKeepRows
<1>2. phase'[q] = phase[q]
    BY OthersKeepTime
<1>3. batch' = batch
    BY DEF Advance, Serve, Opened, StepOpened, StepOpenFails, OperationEnds, StepClosed,
        StepCloseFails, Start, Wake, TimeOut, CleanUp, Reported, Land, Sink
<1>4. Last(q)' = Last(q)
    BY DEF Last
<1> QED BY <1>1, <1>2, <1>3, <1>4 DEF Orderly, Calm, InOrder, Honest, Whole, DoneNow

\* What an attempt that fails makes of its project.
LEMMA FailureIsOrderly ==
    ASSUME Typed, NEW p \in Projects, NEW e \in Errors, phase[p] \in Timed,
           AttemptFails(p, e), Orderly(p), batch # "dropped", UNCHANGED <<batch, adrift>>
    PROVE  Orderly(p)'
<1>1. phase'[p] \in {"sleeping", "reporting"} /\ result'[p] = result[p]
    BY FailureEffect DEF Typed, TypeOK, ControlType
<1>2. adrift[p] = {} /\ result[p] # "ok"
    BY DEF Orderly, Calm, Timed, InAttempt
<1> QED BY <1>1, <1>2 DEF Orderly, Calm, InOrder, Honest, Timed, InAttempt

\* The attempt that closed its step goes on to the next, or is whole.
LEMMA SuccessIsOrderly ==
    ASSUME Typed, NEW p \in Projects, Runs(p, "ending"), op[p] = "ok",
           WriteRow(p, at[p], "succeeded"), Proceed(p), Orderly(p),
           UNCHANGED <<batch, adrift>>
    PROVE  Orderly(p)'
<1>1. at[p] \in 1 .. 4 /\ Last(p) \in 3 .. 4 /\ Last(p)' = Last(p)
    BY DEF Typed, TypeOK, ControlType, Steps, Last
<1>2. /\ at[p] <= Last(p) /\ by[p][at[p]] = attempt[p]
      /\ \A s \in 1 .. (at[p] - 1) : DoneNow(p, s)
    BY DEF Runs, Orderly, InOrder
<1>3. attempt' = attempt /\ by' = by
    BY DEF Proceed, WriteRow
<1>4. \A s \in 1 .. at[p] : row'[p][s] = "succeeded" /\ by'[p][s] = attempt'[p]
    <2> SUFFICES ASSUME NEW s \in 1 .. at[p]
                 PROVE  row'[p][s] = "succeeded" /\ by'[p][s] = attempt'[p]
        OBVIOUS
    <2>1. row \in [Projects -> [Steps -> RowState]] /\ s \in Steps
        BY <1>1 DEF Typed, TypeOK, RowType, Steps
    <2>2. CASE s = at[p]
        BY <1>2, <1>3, <2>1, <2>2 DEF WriteRow
    <2>3. CASE s # at[p]
        <3>1. DoneNow(p, s)
            BY <1>1, <1>2, <2>3
        <3> QED BY <1>3, <2>1, <2>3, <3>1 DEF WriteRow, DoneNow
    <2> QED BY <2>2, <2>3
<1>5. adrift[p] = {} /\ result[p] # "ok"
    BY DEF Orderly, Calm, Runs, Timed, InAttempt
<1>6. CASE at[p] < Last(p)
    <2>1. /\ phase'[p] = "starting" /\ at'[p] = at[p] + 1 /\ result'[p] = result[p]
        BY <1>6 DEF Proceed, MoveTo, Typed, TypeOK, ControlType
    <2>2. InOrder(p)'
        BY <1>1, <1>4, <1>6, <2>1 DEF InOrder, DoneNow
    <2> QED BY <1>5, <2>1, <2>2 DEF Orderly, Calm, Honest
<1>7. CASE ~(at[p] < Last(p))
    <2>1. phase'[p] = "done"
        BY <1>7 DEF Proceed, MoveTo, Typed, TypeOK, ControlType
    <2>2. at[p] = Last(p)
        BY <1>1, <1>2, <1>7
    <2>3. Whole(p)'
        BY <1>1, <1>4, <2>2 DEF Whole
    <2> QED BY <1>5, <2>1, <2>3 DEF Orderly, Calm, InOrder, Honest, Timed, InAttempt
<1> QED BY <1>6, <1>7

LEMMA FaithfulStep == Typed /\ Faithful /\ [Next]_vars => Faithful'
<1> SUFFICES ASSUME Typed, Faithful, [Next]_vars PROVE Faithful'
    OBVIOUS
<1>1. CASE UNCHANGED vars
    BY <1>1 DEF Faithful, Orderly, Calm, InOrder, Honest, Whole, DoneNow, Last,
        vars, control, rows
<1>2. CASE ReadScopes \/ Return
    <2>1. \A p \in Projects : Orderly(p)'
        BY <1>2 DEF ReadScopes, Return, Faithful, Orderly, Calm, InOrder, Honest, Whole,
            DoneNow, Last, control, rows
    <2>2. outcome' = "ok" => outcome = "ok" \/ \A p \in Projects : result[p] = "ok"
        BY <1>2 DEF ReadScopes, Return, Aggregate
    <2> QED BY <1>2, <2>1, <2>2 DEF ReadScopes, Return, Faithful
<1>3. CASE Drop
    <2> SUFFICES ASSUME NEW p \in Projects PROVE Orderly(p)'
        BY <1>3 DEF Faithful, Drop
    <2>1. result[p] = "ok" => adrift'[p] = {}
        <3>1. result[p] = "ok" => Pending(p) = {} /\ adrift[p] = {}
            BY DEF Pending, Faithful, Orderly, Calm
        <3> QED BY <1>3, <3>1 DEF Drop
    <2>2. Orderly(p)
        BY DEF Faithful
    <2> QED BY <1>3, <2>1, <2>2 DEF Drop, Orderly, Calm, InOrder, Honest, Whole, Last, control
<1>4. CASE Tick
    BY <1>4 DEF Tick, Faithful, Orderly, Calm, InOrder, Honest, Whole, DoneNow, Last,
        control, rows
<1>5. ASSUME NEW p \in Projects, Advance(p) \/ Serve(p) \/ Land(p) \/ Sink(p) PROVE Faithful'
    <2>0. Orderly(p)
        BY DEF Faithful
    <2>1. \A q \in Projects : q # p => Orderly(q)'
        BY <1>5, OthersStayOrderly DEF Faithful
    <2>2. outcome' = outcome /\ (\A q \in Projects : result[q] = "ok" => result'[q] = "ok")
        <3>1. outcome' = outcome
            BY <1>5 DEF Advance, Serve, Opened, StepOpened, StepOpenFails, OperationEnds, StepClosed,
                StepCloseFails, Start, Wake, TimeOut, CleanUp, Reported, Land, Sink
        <3>2. result[p] = "ok" => result'[p] = "ok"
            <4> SUFFICES ASSUME result[p] = "ok" PROVE result'[p] = "ok"
                OBVIOUS
            <4>1. phase[p] = "done"
                BY <2>0 DEF Orderly, Calm
            <4>2. Land(p) \/ Sink(p)
                BY <1>5, <4>1 DEF Advance, Serve, Opened, StepOpened, StepOpenFails, OperationEnds,
                    StepClosed, StepCloseFails, Start, Wake, TimeOut, CleanUp, Reported, Runs, InAttempt
            <4> QED BY <4>2 DEF Land, Sink
        <3>3. \A q \in Projects : q # p => result'[q] = result[q]
            BY <1>5, OthersKeepRows
        <3> QED BY <3>1, <3>2, <3>3
    <2> op[p] \in Errors \cup {"ok"} /\ at[p] \in Steps
        BY DEF Typed, TypeOK, ControlType
    <2>3. Orderly(p)'
        <3>0. Last(p)' = Last(p) /\ Last(p) \in 3 .. 4
            BY DEF Last
        <3>1. CASE Opened(p)
            <4>0. phase[p] = "opening" /\ phase[p] \in Timed /\ batch # "dropped"
                BY <3>1 DEF Opened, Runs, Timed, InAttempt
            <4>1. CASE MoveTo(p, "starting") /\ UNCHANGED <<attempt, at, op, clock, result>>
                <5>1. phase'[p] = "starting" /\ at' = at /\ result' = result /\ at[p] = 1
                    BY <2>0, <4>0, <4>1 DEF MoveTo, Typed, TypeOK, ControlType, Orderly, InOrder
                <5>2. adrift' = adrift /\ adrift[p] = {} /\ result[p] # "ok"
                    BY <2>0, <3>1, <4>0 DEF Opened, rows, Orderly, Calm, Timed, InAttempt
                <5> QED BY <3>0, <5>1, <5>2 DEF Orderly, Calm, InOrder, Honest
            <4> QED BY <3>1, <4>0, <4>1, <2>0, FailureIsOrderly DEF Opened, rows
        <3>2. CASE StepOpened(p)
            <4>1. /\ phase[p] = "starting" /\ batch # "dropped" /\ phase'[p] = "inside"
                  /\ at' = at /\ attempt' = attempt /\ result' = result /\ adrift' = adrift
                BY <3>2 DEF StepOpened, Runs, MoveTo, Typed, TypeOK, ControlType
            <4>2. adrift[p] = {} /\ result[p] # "ok" /\ at[p] <= Last(p)
                BY <2>0, <4>1 DEF Orderly, Calm, InOrder, Timed, InAttempt
            <4>3. by'[p][at[p]] = attempt[p]
                BY <3>2 DEF StepOpened, WriteRow, Typed, TypeOK, RowType
            <4>4. ASSUME NEW s \in 1 .. (at[p] - 1) PROVE DoneNow(p, s)'
                <5>1. DoneNow(p, s) /\ s # at[p]
                    BY <2>0, <4>1 DEF Orderly, InOrder, Steps
                <5> QED BY <3>2, <4>1, <5>1 DEF StepOpened, WriteRow, DoneNow, Typed, TypeOK, RowType
            <4> QED BY <3>0, <4>1, <4>2, <4>3, <4>4 DEF Orderly, Calm, InOrder, Honest
        <3>3. CASE StepOpenFails(p) \/ StepCloseFails(p)
            <4>1. phase[p] \in Timed /\ batch # "dropped" /\ UNCHANGED <<batch, adrift>>
                BY <3>3 DEF StepOpenFails, StepCloseFails, Runs, Timed, InAttempt
            <4> QED BY <2>0, <3>3, <4>1, FailureIsOrderly DEF StepOpenFails, StepCloseFails
        <3>4. CASE OperationEnds(p)
            <4>1. /\ phase[p] = "inside" /\ batch # "dropped" /\ phase'[p] = "ending"
                  /\ UNCHANGED <<at, attempt, result, adrift, row, by>>
                BY <3>4 DEF OperationEnds, Runs, MoveTo, rows, Typed, TypeOK, ControlType
            <4>2. adrift[p] = {} /\ result[p] # "ok"
                BY <2>0, <4>1 DEF Orderly, Calm, Timed, InAttempt
            <4> QED BY <2>0, <3>0, <4>1, <4>2 DEF Orderly, Calm, InOrder, Honest, DoneNow
        <3>5. CASE StepClosed(p)
            <4>1. Runs(p, "ending") /\ UNCHANGED <<batch, adrift>>
                BY <3>5 DEF StepClosed
            <4>2. CASE op[p] = "ok"
                BY <2>0, <3>5, <4>1, <4>2, SuccessIsOrderly DEF StepClosed, Verdict
            <4>3. CASE op[p] # "ok"
                <5>1. phase[p] \in Timed /\ batch # "dropped"
                    BY <4>1 DEF Runs, Timed, InAttempt
                <5> QED BY <2>0, <3>5, <4>1, <4>3, <5>1, FailureIsOrderly DEF StepClosed
            <4> QED BY <4>2, <4>3
        <3>6. ASSUME NEW n, BeginAttempt(p, n), phase[p] \in Timed \cup {"waiting"},
                     batch # "dropped", UNCHANGED <<batch, adrift, result>>
              PROVE  Orderly(p)'
            <4>1. phase'[p] = "opening" /\ at'[p] = 1
                BY <3>6 DEF BeginAttempt, MoveTo, Typed, TypeOK, ControlType
            <4>2. adrift[p] = {} /\ result[p] # "ok"
                BY <2>0, <3>6 DEF Orderly, Calm, Timed, InAttempt
            <4> QED BY <3>6, <4>1, <4>2 DEF Orderly, Calm, InOrder, Honest
        <3>7. CASE Start(p)
            BY <3>6, <3>7 DEF Start, rows
        <3>8. ASSUME phase'[p] \in {"cleaning", "reporting"}, result'[p] # "ok" PROVE Orderly(p)'
            BY <3>8 DEF Orderly, Calm, InOrder, Honest, Timed, InAttempt
        <3>9. CASE Wake(p)
            <4>1. phase[p] \in Timed /\ batch # "dropped"
                BY <3>9 DEF Wake, Runs, Timed
            <4>2. result[p] # "ok"
                BY <2>0, <4>1 DEF Orderly, Calm, Timed, InAttempt
            <4>3. CASE Remaining(p) = 0
                BY <3>8, <3>9, <4>2, <4>3 DEF Wake, GiveUp, MoveTo, Typed, TypeOK, ControlType
            <4>4. CASE Remaining(p) # 0
                BY <3>6, <3>9, <4>1, <4>4 DEF Wake, rows
            <4> QED BY <4>3, <4>4
        <3>10. CASE TimeOut(p) \/ CleanUp(p)
            <4>1. result[p] # "ok" /\ result' = result
                BY <2>0, <3>10 DEF TimeOut, CleanUp, Runs, Orderly, Calm, InAttempt
            <4>2. phase'[p] \in {"cleaning", "reporting"}
                BY <3>10 DEF TimeOut, CleanUp, MoveTo, Typed, TypeOK, ControlType
            <4> QED BY <3>8, <4>1, <4>2
        <3>11. CASE Reported(p)
            <4>1. phase'[p] = "done" /\ result'[p] = "failed"
                BY <3>11 DEF Reported, MoveTo, Typed, TypeOK, ControlType
            <4> QED BY <4>1 DEF Orderly, Calm, InOrder, Honest, Timed, InAttempt
        <3>12. CASE Land(p) \/ Sink(p)
            <4>1. adrift[p] # {} /\ adrift'[p] = {}
                BY <3>12 DEF Land, Sink, Typed, TypeOK, RowType
            <4>2. UNCHANGED <<batch, phase, at, result>>
                BY <3>12 DEF Land, Sink, control
            <4>3. result[p] # "ok" /\ (batch = "dropped" \/ phase[p] \notin Timed)
                BY <2>0, <4>1 DEF Orderly, Calm
            <4> QED BY <2>0, <4>1, <4>2, <4>3 DEF Orderly, Calm, InOrder, Honest, Timed, InAttempt
        <3> QED BY <1>5, <3>1, <3>2, <3>3, <3>4, <3>5, <3>7, <3>9, <3>10, <3>11, <3>12
            DEF Advance, Serve
    <2> QED BY <2>1, <2>2, <2>3 DEF Faithful
<1> QED BY <1>1, <1>2, <1>3, <1>4, <1>5 DEF Next

\* A project is reported as processed only when its last attempt did all of
\* its steps, and a run is closed as succeeded only when all projects are.
THEOREM ReportsAreTrue == Spec => []ReportIsTrue
<1>1. Init => Typed /\ Faithful
    BY TypedInit DEF Init, Faithful, Orderly, Calm, InOrder, Honest, Timed, InAttempt
<1>2. Typed /\ Faithful /\ [Next]_vars => Typed' /\ Faithful'
    BY TypedStep, FaithfulStep
<1>3. Faithful => ReportIsTrue
    BY DEF Faithful, Orderly, Honest, ReportIsTrue
<1> QED BY <1>1, <1>2, <1>3, PTL DEF Spec

\* A row is running only where its project is at work on it or about to
\* clean it up, unless a write went wrong; and a call that may yet land is
\* one of those writes.
Explained(p) ==
    /\ adrift[p] # {} => mishap[p]
    /\ ~mishap[p] => \A s \in Steps :
          row[p][s] = "running" =>
              \/ phase[p] \in {"inside", "ending"} /\ s = at[p]
              \/ phase[p] = "cleaning"

AllExplained == \A p \in Projects : Explained(p)

LEMMA ExplainedStep == Typed /\ AllExplained /\ [Next]_vars => AllExplained'
<1> SUFFICES ASSUME Typed, AllExplained, [Next]_vars PROVE AllExplained'
    OBVIOUS
<1> USE DEF AllExplained
<1>1. CASE UNCHANGED vars
    BY <1>1 DEF Explained, vars, control, rows
<1>2. CASE ReadScopes \/ Return \/ Tick
    BY <1>2 DEF ReadScopes, Return, Tick, Explained, control, rows
<1>3. CASE Drop
    <2> SUFFICES ASSUME NEW p \in Projects PROVE Explained(p)'
        OBVIOUS
    <2>1. mishap'[p] <=> (mishap[p] \/ Pending(p) # {})
        BY <1>3 DEF Drop
    <2>2. adrift'[p] = adrift[p] \cup Pending(p)
        BY <1>3 DEF Drop
    <2>3. Explained(p) /\ UNCHANGED <<row, phase, at>>
        BY <1>3 DEF Drop, control
    <2> QED BY <2>1, <2>2, <2>3 DEF Explained
<1>4. ASSUME NEW p \in Projects, Advance(p) \/ Serve(p) \/ Land(p) \/ Sink(p) PROVE AllExplained'
    <2>0. Explained(p)
        OBVIOUS
    <2>1. ASSUME NEW q \in Projects, q # p PROVE Explained(q)'
        <3>1. /\ row'[q] = row[q] /\ adrift'[q] = adrift[q] /\ at'[q] = at[q]
              /\ mishap[q] => mishap'[q]
            BY <1>4, <2>1, OthersKeepRows
        <3>2. phase'[q] = phase[q]
            BY <1>4, <2>1, OthersKeepTime
        <3> QED BY <3>1, <3>2 DEF Explained
    <2> /\ op[p] \in Errors \cup {"ok"} /\ at[p] \in Steps
        /\ row \in [Projects -> [Steps -> RowState]]
        BY DEF Typed, TypeOK, ControlType, RowType
    <2>2. Explained(p)'
        <3>1. ASSUME mishap'[p] PROVE Explained(p)'
            BY <3>1 DEF Explained
        <3>2. ASSUME phase[p] \notin {"inside", "ending", "cleaning"},
                     UNCHANGED <<row, adrift, mishap>>
              PROVE  Explained(p)'
            BY <2>0, <3>2 DEF Explained
        <3>3. CASE Opened(p)
            BY <3>2, <3>3 DEF Opened, Runs, rows
        <3>4. CASE StepOpened(p)
            <4>1. phase[p] = "starting" /\ phase'[p] = "inside" /\ at' = at
                  /\ UNCHANGED <<adrift, mishap>>
                BY <3>4 DEF StepOpened, Runs, MoveTo, Typed, TypeOK, ControlType
            <4>2. \A s \in Steps : s # at[p] => row'[p][s] = row[p][s]
                BY <3>4 DEF StepOpened, WriteRow
            <4> QED BY <2>0, <4>1, <4>2 DEF Explained
        <3>5. CASE StepOpenFails(p) \/ StepCloseFails(p)
            <4>1. mishap'[p]
                BY <3>5 DEF StepOpenFails, StepCloseFails, Failed, Typed, TypeOK, RowType
            <4> QED BY <3>1, <4>1
        <3>6. CASE OperationEnds(p)
            <4>1. phase[p] = "inside" /\ phase'[p] = "ending" /\ at' = at
                  /\ UNCHANGED <<row, adrift, mishap>>
                BY <3>6 DEF OperationEnds, Runs, MoveTo, rows, Typed, TypeOK, ControlType
            <4> QED BY <2>0, <4>1 DEF Explained
        <3>7. CASE StepClosed(p)
            <4>1. phase[p] = "ending" /\ UNCHANGED <<adrift, mishap>>
                BY <3>7 DEF StepClosed, Runs
            <4>2. row'[p][at[p]] # "running"
                BY <3>7 DEF StepClosed, WriteRow, Verdict
            <4>3. \A s \in Steps : s # at[p] => row'[p][s] = row[p][s]
                BY <3>7 DEF StepClosed, WriteRow
            <4> QED BY <2>0, <4>1, <4>2, <4>3 DEF Explained
        <3>8. CASE Start(p) \/ Wake(p) \/ Reported(p)
            BY <3>2, <3>8 DEF Start, Wake, Reported, Runs, rows
        <3>9. CASE TimeOut(p)
            <4>1. phase'[p] = "cleaning"
                BY <3>9 DEF TimeOut, MoveTo, Typed, TypeOK, ControlType
            <4>2. adrift'[p] # {} => mishap'[p]
                BY <3>9 DEF TimeOut, Typed, TypeOK, RowType
            <4> QED BY <4>1, <4>2 DEF Explained
        <3>10. CASE CleanUp(p)
            <4>1. CASE Failed(p)
                <5>1. mishap'[p]
                    BY <4>1 DEF Failed, Typed, TypeOK, RowType
                <5> QED BY <3>1, <5>1
            <4>2. CASE CloseRows(p) /\ UNCHANGED mishap
                <5>1. \A s \in Steps : row'[p][s] # "running"
                    BY <4>2 DEF CloseRows
                <5>2. adrift' = adrift
                    BY <3>10 DEF CleanUp
                <5> QED BY <2>0, <4>2, <5>1, <5>2 DEF Explained
            <4> QED BY <3>10, <4>1, <4>2 DEF CleanUp
        <3>11. CASE Land(p) \/ Sink(p)
            <4>1. adrift[p] # {} /\ UNCHANGED mishap
                BY <3>11 DEF Land, Sink
            <4> QED BY <2>0, <3>1, <4>1 DEF Explained
        <3> QED BY <1>4, <3>3, <3>4, <3>5, <3>6, <3>7, <3>8, <3>9, <3>10, <3>11
            DEF Advance, Serve
    <2> QED BY <2>1, <2>2
<1> QED BY <1>1, <1>2, <1>3, <1>4 DEF Next

\* fail_running_steps_for_activity and the two finish_step calls leave no
\* step of an ended project running, but for writes that went wrong.
THEOREM NothingRunsOn == Spec => []NothingLeftRunning
<1>1. Init => Typed /\ AllExplained
    BY TypedInit DEF Init, AllExplained, Explained
<1>2. Typed /\ AllExplained /\ [Next]_vars => Typed' /\ AllExplained'
    BY TypedStep, ExplainedStep
<1>3. AllExplained => NothingLeftRunning
    BY DEF AllExplained, Explained, NothingLeftRunning
<1> QED BY <1>1, <1>2, <1>3, PTL DEF Spec

\* Reports and step rows agree with what was done (run_activity_workflow,
\* fail_running_steps_for_activity), for every number of projects and attempts.
THEOREM LedgerTellsTheTruth == Spec => []RowsTellTheTruth
<1>1. ReportIsTrue /\ NothingLeftRunning => RowsTellTheTruth BY DEF RowsTellTheTruth
<1> QED BY <1>1, ReportsAreTrue, NothingRunsOn, PTL
=============================================================================
