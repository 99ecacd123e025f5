---------------------------- MODULE SourceQueue ----------------------------
(***************************************************************************)
(* The queue of import sources (src/src/xingtu/data_import.rs): the rows   *)
(* of xingtu_feishu_source that name an exported sheet, and the business   *)
(* rows the sheets are imported into.                                      *)
(*                                                                         *)
(* A pass is one write workflow that works on the queue: a project of a    *)
(* full workflow (export, then import), the compensation import or the     *)
(* admin's retry of one source.  The passes of one run work on different   *)
(* periods, so the sources of this module are those of one period, and     *)
(* of one content configuration: they are imported into the same rows.     *)
(* That passes of different runs exclude one another (Exclusive) is what   *)
(* WorkflowLedger shows of them; the admin's ignore takes no lock.         *)
(*                                                                         *)
(* Exports are numbered in the order of pulled_at; the number stands for   *)
(* the sheet and its data.                                                 *)
(***************************************************************************)
EXTENDS Naturals, Sequences, FiniteSets

CONSTANTS
    Sources,      \* feishu_source_id
    Passes,       \* the workflows that may work on the queue
    Exclusive,    \* TRUE: one pass at a time (write_lock and lease)
    Limits,       \* LIMITs of the list (200, or what the caller asks for)
    MaxAttempts,  \* failures before the dead letter (8)
    Delay,        \* Delay[n]: the wait after a failure with attempt_count n
    MaxPulls,     \* bound on the exports
    MaxAborts,    \* bound on the passes that are cut short
    MaxAsks       \* bound on the admin's requests

ASSUME QueueConstants ==
    /\ Exclusive \in BOOLEAN
    /\ Limits \subseteq Nat \ {0} /\ MaxAttempts \in Nat \ {0}
    /\ Delay \in [0 .. MaxAttempts -> Nat]
    /\ MaxPulls \in Nat /\ MaxAborts \in Nat /\ MaxAsks \in Nat

VARIABLES
    source,  \* the row of each source
    stored,  \* the export last persisted for it
    rows,    \* the export the business rows hold
    at,      \* where each pass is
    batch,   \* the sources it read and has not dealt with yet
    pulls,   \* exports so far
    aborts,  \* passes cut short so far
    asks     \* requests of the admin so far

table == <<source, stored, rows>>
pass  == <<at, batch>>
count == <<pulls, aborts, asks>>
vars  == <<table, pass, count>>

Statuses == {"none", "pending", "failed", "imported", "partial"}
Places   == {"idle", "open", "exported", "reset", "next",
             "imported", "partial", "failed"}

\* pull: the export feishu_sheet_url names; wait: next_retry_at - now(), 0 when
\* NULL or past.  is_imported is written together with the status.
Row == [pull : Nat, status : Statuses, attempts : Nat, wait : Nat,
        dead : BOOLEAN, ignored : BOOLEAN]

\* PendingFeishuSource; pull 0 while only the id is known.
Pending == [id : Sources, pull : Nat]

TypeOK ==
    /\ source \in [Sources -> Row]
    /\ stored \in [Sources -> Nat] /\ rows \in Nat
    /\ at \in [Passes -> Places]
    /\ batch \in [Passes -> Seq(Pending)]
    /\ pulls \in 0 .. MaxPulls /\ aborts \in 0 .. MaxAborts
    /\ asks \in 0 .. MaxAsks

Blank == [pull |-> 0, status |-> "none", attempts |-> 0, wait |-> 0,
          dead |-> FALSE, ignored |-> FALSE]

Init ==
    /\ source = [s \in Sources |-> Blank]
    /\ stored = [s \in Sources |-> 0] /\ rows = 0
    /\ at = [w \in Passes |-> "idle"]
    /\ batch = [w \in Passes |-> <<>>]
    /\ pulls = 0 /\ aborts = 0 /\ asks = 0

Registered(s) == source[s].status # "none"
Imported(s)   == source[s].status \in {"imported", "partial"}

-----------------------------------------------------------------------------
(* The statements on xingtu_feishu_source. *)

\* INSERT, or the UPDATE of the daily final or of the same link.
Refreshed(s, n) ==
    [pull |-> n, attempts |-> 0, wait |-> 0, dead |-> FALSE, ignored |-> FALSE,
     status |-> "pending"]

\* Mutant: next_retry_at is not compared with now().
DueTooEarly ==
    {s \in Sources : /\ source[s].status \in {"pending", "failed"}
                     /\ ~source[s].ignored /\ ~source[s].dead}

\* Mutant: only pending sources are listed.
DuePending ==
    {s \in Sources : /\ source[s].status = "pending"
                     /\ ~source[s].ignored /\ ~source[s].dead
                     /\ source[s].wait = 0}

Due ==
    {s \in Sources : /\ source[s].status \in {"pending", "failed"}
                     /\ ~source[s].ignored /\ ~source[s].dead
                     /\ source[s].wait = 0}

\* ORDER BY: pending before failed, then by pulled_at.
Before(s, t) ==
    IF source[s].status = source[t].status
    THEN source[s].pull < source[t].pull
    ELSE source[s].status = "pending"

\* mark_feishu_source_failed: counted on the row, not on what was listed.
AfterFailure(s) ==
    LET r == source[s]
        last == r.attempts + 1 >= MaxAttempts
    IN  [pull |-> r.pull, status |-> "failed", attempts |-> r.attempts + 1,
         wait |-> IF last THEN 0 ELSE Delay[r.attempts],
         dead |-> last, ignored |-> r.ignored]

\* mark_feishu_source_imported: ignored_at and attempt_count stay.
AfterImport(s, status) ==
    LET r == source[s] IN
    [pull |-> r.pull, status |-> status, attempts |-> r.attempts, wait |-> 0,
     dead |-> FALSE, ignored |-> r.ignored]

\* ignore_failed_source: only these two columns are written.
AfterIgnore(s) ==
    LET r == source[s] IN
    [pull |-> r.pull, status |-> r.status, attempts |-> r.attempts, wait |-> 0,
     dead |-> r.dead, ignored |-> TRUE]

\* A tick later.
Later(s) ==
    LET r == source[s] IN
    [pull |-> r.pull, status |-> r.status, attempts |-> r.attempts,
     wait |-> IF r.wait > 0 THEN r.wait - 1 ELSE 0,
     dead |-> r.dead, ignored |-> r.ignored]

-----------------------------------------------------------------------------
(* A pass. *)

Goes(w, place, todo) ==
    /\ at' = [at EXCEPT ![w] = place]
    /\ batch' = [batch EXCEPT ![w] = todo]

\* Mutant: the exclusion of the passes is not asked for.
BeginAlways(w) ==
    /\ at[w] = "idle"
    /\ Goes(w, "open", <<>>)
    /\ UNCHANGED <<table, count>>

\* begin_exclusive_run succeeded, of a workflow whose scope has this period
\* (list_workflow_activity_scopes), of a compensation import or of a retry.
Begin(w) ==
    /\ at[w] = "idle"
    /\ Exclusive => \A v \in Passes : at[v] = "idle"
    /\ Goes(w, "open", <<>>)
    /\ UNCHANGED <<table, count>>

\* trace_single_content: the export ends and its link is registered.
Export(w, s) ==
    /\ at[w] \in {"open", "exported"} /\ pulls < MaxPulls
    /\ pulls' = pulls + 1
    /\ source' = [source EXCEPT ![s] = Refreshed(s, pulls + 1)]
    /\ Goes(w, "exported", <<>>)
    /\ UNCHANGED <<stored, rows, aborts, asks>>

\* q is what the SELECT answers.
Listing(q, limit) ==
    /\ \A i \in 1 .. Len(q) : q[i] \in Due
    /\ \A i, j \in 1 .. Len(q) : i < j => Before(q[i], q[j])
    /\ \A s \in Due : (\A i \in 1 .. Len(q) : q[i] # s) =>
          /\ Len(q) = limit
          /\ \A i \in 1 .. Len(q) : Before(q[i], s)

List(w) ==
    /\ at[w] \in {"open", "exported"}
    /\ \E limit \in Limits : \E n \in 0 .. limit : \E q \in [1 .. n -> Sources] :
          /\ Listing(q, limit)
          /\ Goes(w, "next",
                  [i \in 1 .. n |-> [id |-> q[i], pull |-> source[q[i]].pull]])
    /\ UNCHANGED <<table, count>>

\* retry_failed_source: the row is reset; no row means an error.
Reset(w, s) ==
    /\ at[w] = "open" /\ asks < MaxAsks
    /\ Registered(s) /\ ~Imported(s)
    /\ asks' = asks + 1
    /\ source' = [source EXCEPT ![s] = Refreshed(s, source[s].pull)]
    /\ Goes(w, "reset", <<[id |-> s, pull |-> 0]>>)
    /\ UNCHANGED <<stored, rows, pulls, aborts>>

\* get_pending_feishu_source: neither the delay nor the dead letter counts.
Fetch(w) ==
    /\ at[w] = "reset"
    /\ LET s == Head(batch[w]).id IN
          IF Imported(s)
          THEN Goes(w, "idle", <<>>)
          ELSE Goes(w, "next", <<[id |-> s, pull |-> source[s].pull]>>)
    /\ UNCHANGED <<table, count>>

\* import_single_pending_source succeeds: one transaction writes the rows,
\* none of them when the sheet is empty or every row is quarantined.
Persist(w) ==
    /\ at[w] = "next" /\ batch[w] # <<>>
    /\ LET p == Head(batch[w]) IN
          /\ stored' = [stored EXCEPT ![p.id] = p.pull]
          /\ rows' \in {rows, p.pull}
    /\ \E place \in {"imported", "partial"} : Goes(w, place, batch[w])
    /\ UNCHANGED <<source, count>>

\* ... or fails, and the transaction with it.
PersistFails(w) ==
    /\ at[w] = "next" /\ batch[w] # <<>>
    /\ Goes(w, "failed", batch[w])
    /\ UNCHANGED <<table, count>>

MarkImported(w) ==
    /\ at[w] \in {"imported", "partial"}
    /\ LET s == Head(batch[w]).id IN
          source' = [source EXCEPT ![s] = AfterImport(s, at[w])]
    /\ Goes(w, "next", Tail(batch[w]))
    /\ UNCHANGED <<stored, rows, count>>

MarkFailed(w) ==
    /\ at[w] = "failed"
    /\ LET s == Head(batch[w]).id IN
          source' = [source EXCEPT ![s] = AfterFailure(s)]
    /\ Goes(w, "next", Tail(batch[w]))
    /\ UNCHANGED <<stored, rows, count>>

End(w) ==
    /\ at[w] = "next" /\ batch[w] = <<>>
    /\ Goes(w, "idle", <<>>)
    /\ UNCHANGED <<table, count>>

\* A crash, a dropped request, a lost lease, or a statement that fails: an
\* error of mark_... ends the pass and not only its source.
Abort(w) ==
    /\ at[w] # "idle" /\ aborts < MaxAborts
    /\ aborts' = aborts + 1
    /\ Goes(w, "idle", <<>>)
    /\ UNCHANGED <<table, pulls, asks>>

-----------------------------------------------------------------------------
(* The admin and the clock. *)

\* ignore_failed_source: a single statement, outside every lock.
Ignore(s) ==
    /\ asks < MaxAsks
    /\ Registered(s) /\ ~Imported(s)
    /\ asks' = asks + 1
    /\ source' = [source EXCEPT ![s] = AfterIgnore(s)]
    /\ UNCHANGED <<stored, rows, pass, pulls, aborts>>

Tick ==
    /\ \E s \in Sources : source[s].wait > 0
    /\ source' = [s \in Sources |-> Later(s)]
    /\ UNCHANGED <<stored, rows, pass, count>>

Step(w) ==
    \/ List(w) \/ Fetch(w) \/ Persist(w) \/ PersistFails(w)
    \/ MarkImported(w) \/ MarkFailed(w) \/ End(w)

Next ==
    \/ \E w \in Passes : Begin(w) \/ Step(w) \/ Abort(w)
    \/ \E w \in Passes, s \in Sources : Export(w, s) \/ Reset(w, s)
    \/ \E s \in Sources : Ignore(s)
    \/ Tick

Spec == Init /\ [][Next]_vars

\* A pass that has begun goes on, and time passes.  Nothing makes a pass begin:
\* the period may be out of its tracking window, switched off or without a
\* content to synchronise, and a scheduled time that finds the lock taken is
\* skipped.
Fairness == WF_vars(Tick) /\ \A w \in Passes : WF_vars(Step(w))

FairSpec == Spec /\ Fairness

-----------------------------------------------------------------------------
(* Properties. *)

\* A source that counts as imported had the sheet it now names persisted: a
\* refresh between an import and its mark, or a crash, cannot leave the rows
\* of an older sheet under a row that says imported (mark_feishu_source_
\* imported updates by id only and relies on the exclusion of the passes).
ImportedIsCurrent ==
    \A s \in Sources : Imported(s) => stored[s] = source[s].pull

\* The dead letter holds exactly the sources whose attempts are used up,
\* however passes, retries, refreshes and ignores follow one another.
DeadIffExhausted ==
    \A s \in Sources :
        source[s].dead <=> ~Imported(s) /\ source[s].attempts >= MaxAttempts

\* Only the admin's retry or a new export takes a source out of the dead
\* letter; an automatic pass never does.
DeadLettersWait ==
    [][\A s \in Sources : source[s].dead /\ ~source'[s].dead =>
           source'[s].attempts = 0 /\ source'[s].status = "pending"]_vars

\* No attempt is made, and none is counted, before next_retry_at.
BackoffRespected ==
    [][\A s \in Sources : source'[s].attempts > source[s].attempts =>
           source[s].wait = 0]_vars

\* A failed source is attempted again by the rules and not besides them: after
\* its delay, and out of the dead letter only by a retry or a new export,
\* whichever passes, retries, refreshes and aborted runs follow one another.
RetriesKeepTheRules == BackoffRespected /\ DeadLettersWait

Settled(s) == Imported(s) \/ source[s].dead \/ source[s].ignored

\* Passes get to their import of this period's queue again and again.
KeepsWorking == []<><<\E w \in Passes : List(w)>>_vars

\* While passes keep working on the queue, every registered source is imported,
\* dead or ignored in the end: no order of failures, limits and delays makes
\* the queue forget it.  They do as long as the period is active, within its
\* tracking window and has a content with sync_enabled, and some scheduled or
\* requested pass after the other finds the lock free and comes as far as its
\* import.  After the last pass (tracking_end_date) a source that has just
\* failed stays failed until an administrator asks for it.
Settles == KeepsWorking => \A s \in Sources : Registered(s) ~> Settled(s)

=============================================================================
