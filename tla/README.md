# Verification of the Lark/Xingtu workflow service

TLA+ models of the service in `src/`, the TLC runs that check them and the
theorems about them that TLAPS checks. This file says what is modelled and how
it corresponds to the code, what each run shows and within which bounds, what
is proved and from which assumptions, and what is left.  `PROJECT.json` holds
the same per definition: which lines of the source each one models, which
hazard of the code each property is for, and for every property a fault that
makes it fail.

## 1. The system

The service pulls promotion data of video and live campaigns from Xingtu,
records each export as a Feishu sheet, imports the sheets into PostgreSQL,
merges them with manual registrations, synchronises Feishu tables, notifies
auditors and serves the result over HTTP. Several instances of one binary may
run against one database (rolling releases, replicas); the database is the only
state they share.

| Component | State | Operations | Hard behaviour |
| --- | --- | --- | --- |
| Run ledger and execution lease (`workflow_run.rs`, `server/scheduler.rs`, entry points of `workflow.rs`) | `workflow_run`, `workflow_step`, the one row of `workflow_execution_lease`; per instance the `write_lock` and `catch_up_required` | start, acquire, heartbeat, step, finish, release; orphan reconciliation at start-up and every 5 minutes; compensation run | several instances, stalls, crashes, dropped HTTP handlers, failing database calls, clocks |
| Orchestration per project (`workflow.rs`) | none stored; attempts, deadline and slots of one run | concurrent projects, retries with back-off, time budget, aggregation | time-outs that cancel a step between two writes, outcome per project against outcome of the run |
| Import source queue (`xingtu/data_import.rs`, `xingtu/activity_config.rs`, `xingtu/trace.rs`) | `xingtu_feishu_source` (url, status, attempts, next retry, dead letter, ignored), business rows, quarantine | register or refresh after an export, list, import, mark, retry, ignore | a list read before and used after other writes, a crash between persisting and marking, queue limits |
| Notification guard (`workflow_run.rs`, `workflow.rs`, `pipeline/audit_notice.rs`) | `notification_delivery_guard` (hash, last sent, reservation) | claim, mark sent, release, clear | claims of several instances, a sender slower than its reservation, failures between claim and send |
| Query cache (`server/cache.rs`, `cache.rs`) | a revision in the database, an in-process cache per instance | read through, invalidate | a load that started before a write and ends after it, failing invalidation |
| Table synchronisation and audit write-back (`pipeline/*`) | Feishu bitables and sheets (external), business rows | merge, write batches, write verdicts back | partial batches, lost answers, writes that land late, rows changed between read and write |
| Queries and reports, data connector (`server/query.rs`, `server/audit_extra_query.rs`, `server/data_sync.rs`, `pipeline/project_report.rs`) | none of their own; daily counts written by the import | totals, increments, paged listings, paged synchronisation | days and counts that are missing or fall, one figure from five statements, imports between two pages |
| Project Feishu applications, audit configurations, card history (`lark/project_app.rs`, `server/audit_config.rs`, `lark/message_history.rs`, `server/admin.rs`) | applications, bindings, clients in memory; shared configurations and targets; `card_message_history` | replace, switch off, bind, resolve a client, send, record, recall | a cache beside the rows, a configuration shared by projects and changed during a notice, recalls at the same time |
| Configuration of projects (`server/admin.rs`, `xingtu/activity_config.rs`) | projects, accounts, periods, contents | create, update, save a period, change a status, import a file, export | checks at the beginning of a transaction, row locks that some writers do not take |
| Login, application tokens, sessions (`server/login.rs`, `server/auth.rs`) | `auth_session`, tokens, access lists | log in, rotate, revoke, replace a list, authorise a request | a right read before and used after a change, signed states and JWTs that outlive what they name |
| Xingtu sessions and export client (`xingtu/account.rs`, `xingtu/mod.rs`, `server/mod.rs`) | stored session, registry per instance, `session_status` | upload, migrate, restore, check, export | two copies of a session, several instances, dropped handlers, late verdicts, tasks that never end |
| Feishu token cache, HTTP surface, transports | one token per application | - | not modelled, see section 7 |

### How the parts interact

Every write workflow takes the `write_lock` of its instance, opens a row in the
ledger, acquires the lease, and then works while a heartbeat renews both. The
work itself runs through the project orchestration: for each project an export
registers a source in the queue, the import empties the queue into the business
tables, the table synchronisation writes the Feishu tables, and the audit parts
notify or write back. Errors and audits go through the notification guard,
after every write the query cache is invalidated. The admin API writes into the
queue and the configuration without the lock or the lease.
The one-shot operations run inside the HTTP handler and are dropped when the
client hangs up; full workflows run in a task of their own.

The administrators' requests for projects, applications, configurations and
access lists are transactions of their own that workflows and requests read
beside.

## 2. Modules

| Component | Specification | Abstract specification | Values for TLC | Theorems |
| --- | --- | --- | --- | --- |
| Run ledger and lease | `WorkflowLedger` | `ExclusiveLedger` | `MCWorkflowLedger` | `WorkflowLedgerProofs` |
| Orchestration per project | `ProjectAttempts` | | `MCProjectAttempts` | `ProjectAttemptsProofs` |
| Import source queue | `SourceQueue` | | `MCSourceQueue` | `SourceQueueProofs` |
| Notification guard | `NotificationGuard` | | | `NoticeProofs` |
| Query cache | `QueryCache` | `FreshReads` | `MCQueryCache` | `ReadProofs` |
| Table synchronisation and audit write-back | `TableSync` | | `MCTableSync` | `TableSyncProofs` |
| Configuration of projects | `ProjectSetup` | | `MCProjectSetup` | `ProjectSetupProofs` |
| Login, tokens, sessions | `LoginSessions` | | `MCLoginSessions` | `LoginProofs` |
| Applications and their clients | `FeishuApps` | | `MCAuditConfigs` | `NoticeProofs` |
| Audit configurations, notices, recalls | `AuditConfigs` (extends `FeishuApps`) | | `MCAuditConfigs` | `NoticeProofs` |
| Queries, reports, data connector | `Reports` | | `MCReports` | `ReadProofs` |
| Xingtu sessions, checks, exports | `XingtuSessions` | | `MCXingtuSessions` | `LoginProofs` |

Three proof modules are about two components that belong together for a reader
(notices, reading, logging in). They extend both; the components share no name
and no state, and no proof about one uses a fact about the other, except for the
lemmas on sets and numbers.

Conventions. An action is one await point: one statement or transaction on
PostgreSQL, one Feishu call, or the end of one, with everything the caller does
until it awaits again. Time is relative: what the code compares with `now()`
is a counter that `Tick` moves. A call that fails may have been applied or not.
Definitions under a comment that begins with "Mutant:" are faulty variants of
the definition that follows them; nothing uses them, they exist so that each
property can be seen to fail.

### WorkflowLedger

The rows of `workflow_run` are named by the invocation that inserts them.
`status`, `step`, `age` are the ledger (`age` is `now() - heartbeat_at`),
`holder`, `leaseLeft` the row of `workflow_execution_lease`. Each invocation
has a place `pc`, its place in the FIFO of `write_lock` (`ahead`), the time
since its last answer (`lag`), what it knows of its steps (`work`) and how it is
going to close its run (`outcome`). `up` and `catchUp` belong to an instance.

| Actions | Code |
| --- | --- |
| `Arrive`, `SkipTrigger` | the entry points of `workflow.rs`: `lock().await`, and `try_lock` for the scheduler |
| `StartRun`, `Acquire`, `AcquireBusy`, `AcquireFails`, `CloseRejected` | `begin_exclusive_run`, `start_run`, `acquire_run_lease`, `finish_run_failure` |
| `Heartbeat`, `HeartbeatRefused`, `HeartbeatFails` | `with_run_heartbeat`, `heartbeat_run` |
| `BeginStep`, `EndStep`, `Complete` | `tracked_step` and `aggregate_activity_outcomes`, seen from the ledger |
| `Finish`, `FinishFails`, `Release`, `ReleaseFails`, `Return` | the end of `run_workflow_exclusive` and of the one-shot operations |
| `Cancel` | a client hangs up and the handler is dropped |
| `Crash`, `Restart`, `RecoverOrphans`, `CatchUp` | `build_state`, `run_orphan_recovery_loop`, `reconcile_orphaned_runs_if_idle` |

`Timely` says that a task that runs and the database that answers it take at
most `Slack` between two awaits. `ExclusiveLedger` is what all of this is for:
a run is opened once and closed once, at most one open run writes, and only the
writer closes the run of a writer.

### ProjectAttempts

One batch of `run_workflow_inner`: `N` scopes through `Concurrency` slots. A
project goes through the phases of `run_activity_workflow_with_retry`
(attempt, sleep, clean-up, notices); an attempt opens, runs and closes its
steps one after the other (`tracked_step`). `held`, `timer`, `late` are the
clocks: time since the deadline was set, time left on the timer it sleeps on or
is cancelled by, and how long an expired timer has gone unseen. `row` and `by`
are `workflow_step` (status, and which attempt opened the row); `adrift` is a
call that was dropped by a time-out and may still be applied.

### SourceQueue

`source` holds the rows of `xingtu_feishu_source` of one content
configuration, `stored[s]` the export last persisted for a source and `rows`
the export the business rows hold; exports are numbered, and a number stands
for the sheet and its data. A pass is one workflow that works on the queue:
`Begin`, `Export`, `List`, then per source `Persist` or `PersistFails` and
`MarkImported` or `MarkFailed`, `End`; `Reset` and `Fetch` are the admin's
retry, `Ignore` the admin's ignore, `Abort` a crash, a drop or an error that
ends the pass. `Listing` is the SQL of `list_pending_feishu_sources` with its
order and its limit. `Exclusive` is what `WorkflowLedger` shows of the passes
(`SingleWriter`); it is a parameter so that what does not depend on it is
proved without it.

### NotificationGuard

One key. `exists`, `hash`, `reserve`, `cool` are its row; a sender is a task of
any instance between `Claim` and `MarkSent` or `Release`. `ago` and `mishaps`
are history: when a payload was last delivered, and what happened that the
guard makes no provision for (a sender slower than `SendTime`, a lost answer or
crash, a clear beside a sender). The properties say under which mishaps they
hold.

### QueryCache

One key whose answer is the version of the data it was computed from. Readers
follow `get_or_try_insert`: `Begin` reads the revision, `Hit` or `Miss`,
`Load`, `Insert`; writers commit and call `invalidate_all_shared`, which is two
steps. `FreshReads` is the promise without revisions, nodes and entries.

### TableSync

One content configuration with its two sources, two Feishu tables and the
database. A pass is an import, a full synchronisation, a manual-only one or a
write-back of verdicts, and goes through the steps of the pipeline in their
order; writes go out in batches of `BatchSize` (1000, `bitable.rs:13`). A record
of a table is the number of copies under a key and the fields of the first.
`Stop`, `AnswerLost`, `WriteLate` with `Land`, and `ReadManualAsEmpty` are the
mishaps; `Export`, `Register` and `Rule` are the people outside. `vouched`,
`ruled` and `overtaken` are history. Rows carry one value, which stands for all
synchronised fields, and whether they have a business time.

### ProjectSetup

`project`, `account`, `period`, `content` are the tables; `request` holds the
open transaction of each administrator, from the lock of its project row and
the checks (`BeginUpdateProject`, `BeginCreateAccount`, `BeginUpdateAccount`,
`BeginSavePeriod`) to its commit (`CommitProject`, `CommitAccount`,
`CommitPeriod`). `UpdateStatus` is one statement without that lock,
`BeginImportFile` a transaction that does not take it, `ListExport` and
`WriteSheet` the two ends of an export. `MayUpsert` and `Upserted` are
`upsert_contents` with the unique index on the task. The names of the tables
and the rules that a content carries are left out.

### LoginSessions

`active`, `token`, `access`, `session` are the tables, `replacing` the two
halves of `replace_feishu_app_project_access`, `flow` an attempt to log in
between its statements and calls, `request` a request from `authenticate` over
`authenticate_jwt` and `load_project_permissions` to its handler. `valid` of an
attempt and `could`, `late` of a request are history: whether what it rests on
held at some moment of the call, what the list said since the request began,
and whether the session was already over then.

### FeishuApps and AuditConfigs

`app` and `binding` are tables, `clients` the cache of
`client_for_feishu_app`, `boot` the client made at the start. A version stands
for what one write of a row sets. `call` is a resolution between its statement,
its look into the cache and its insertion; `forgets` is the removal that
follows a replacement. `AuditConfigs` adds the shared configurations, their
targets and bindings, the notices, reports and cards that resolve a client,
the history and the recalls. `possible` and `blurred` are history: what was
configured since a notice began, and for which card an answer or a mark was
lost.

### Reports

`metric` is `video_daily_metric`, `seen` and `seenLive` are `last_seen_at`, both
written by imports. Every SQL statement is one operator: `Increment` the
difference of cumulative counts, `Latest` the latest count of a range,
`VideoSummary`, `LabelSummary`, `TopVideos`, `VideosWithMetrics`, `LiveSummary`,
`SearchSummary`, `PlayBelowAuthorTotal`, `VideoDay`, `LiveDay`,
`ProjectReport` the endpoints. `list` is a reader who pages (`CountItems`,
`SelectPage`, `SearchPage` for both in one snapshot, or `ListPage` without a
count), `sync` the connector (`LoadVideoDays`, `AnswerPage`). `Contents` is
what there is of a kind; `list.out` is what the reader's WHERE leaves out of it,
chosen freely, so that every filter on `audit_result`, label, `import_status`,
dates, text or `audit_extra` is one of its values. Imports put rows in front and
may change whether they match, `WriteBack` changes the match alone
(`update_audit_results`, the marks of a source), and `NormalizeLives` takes
sessions of another month out of the period, first lists included. `list.left`
is history: how many rows have left the listing between its pages. What an ORDER BY may return is any sequence of
the rows in which each two are in the order of `Before` (`Above` for the ranking
of videos): the statement does not say which of equal rows is first. The statements are written in five places of
the code and promise the same figures, which is why they are translated one by
one and not shared.

### XingtuSessions

`stored` are the rows, `memory` the registry of each instance, `start` an
instance on its way up (`ReadRows`, `Migrate`, `Restore`), `upload` a handler
between the database and the registry, `check` the pass of
`check_all_logins`, `export` an export that is followed with its tries and its
deadline. `acked` is history: the last upload that was acknowledged and that
nothing crossed, and who must have it.

### How the modules fit

`WorkflowLedger` shows that one writer works at a time over all instances;
`SourceQueue` (`Exclusive`) and `TableSync` (one pass at a time) rest on that.
`ProjectAttempts` refines what the ledger calls working: its `outcome` is one
of the `Verdicts` of the ledger, its `Drop` is `HeartbeatRefused`. Its steps
are opaque; the passes of `SourceQueue` and `TableSync` are what they do.
`ProjectSetup` gives them their scopes (`InScope` is what
`list_workflow_activity_scopes` selects), `NotificationGuard` lets the notices
out that `AuditConfigs` sends, `Reports` reads what `SourceQueue` calls
persisted. They are not composed into one specification: the product is out of
TLC's reach, and each is given the weakest environment the others allow (a pass
may be cut off anywhere, a call may be applied after its caller has gone).
`AuditConfigs` is composed with `FeishuApps`, since a notice depends on both.

## 3. Runs

States are distinct states, rounded. Every run passes, is exhaustive (`reports`
up to a constraint that loses nothing, see below), and takes
about two minutes at most with two workers.

| Run | What it asks | Instance | States |
| --- | --- | --- | --- |
| `ledger_timely` | `SingleWriter`, `StepsAgree` and the refinement of `ExclusiveLedger` with prompt tasks and failing calls | an operation and a scheduled run in one instance, the recovery loop in another; two steps; lease 2, heartbeat 1, orphan age 3 | 1 156 000 |
| `ledger_stalls` | `UnexpiredLeaseIsKept`, `RowsClose`, `QueueMoves` without any bound on stalls and with every call failing | an operation and a request in one instance, recovery in another | 30 000 |
| `attempts` | `RowsTellTheTruth`, `BatchEnds` | a morning batch of two projects through one slot, one with an audit notice; two attempts in a budget of three; every call on the rows fails at will | 1 870 000 |
| `queue_exclusive` | `ImportedIsCurrent`, `RetriesKeepTheRules`; `Settles` while passes keep coming to their import | two sources, two passes, lists of one or two, dead after two failures, three exports, one abort, one request of the admin | 133 000 |
| `notice_guard` | `OneSender`, `DeliveredOnce`, `NeverMuted` | two senders, two payloads, cooldown 4, reservation 3, sending time 2 | 193 000 |
| `cache_reads` | `ReadsAreSound`: the refinement of `FreshReads` and bounded staleness | two nodes, two readers on one of them, a writer on each, two writes, one invalidation, time to live 2, load time 1 | 708 000 |
| `sync_tables` | `KeysStayUnique`, `OnlyVouchedIsApproved`; `Converges` while full passes keep coming | two keys, one value and the empty one, batches of one, two edits, two mishaps of all kinds | 729 000 |
| `reports` | `ReportsAgree`, `UntouchedAreRead`, `SyncAddsUp` and the types | two videos, one published before the month, and three sessions, one of another month; four days; counts 1, 2, missing and falling; all four kinds of listings with every filter; pages of one; three imports; two rows that leave a listing | 447 000 |
| `apps` | `ClientsAreCurrent`, `BindingsAreActive`, `SenderFitsReceiver`, `RecallsAreRecorded`, `SenderRecalls` and the types | the default application and another, a project, a configuration with one target and two receivers, two tasks, one card, two edits | 1 251 000 |
| `setup` | `ActiveDefault`, `EveryPeriodSyncs`, `TaskOwnedOnce`, `SavedIsBacked` | two of everything: projects, accounts, periods, tasks, administrators; three edits | 209 000 |
| `logins` | `RightsAreLive`, `EndedSessionsStayOut`, `LoginsAreCurrent` | the default application and another, two projects, two sessions, a login, a request, two replacements at a time; four edits | 1 423 000 |
| `sessions` | `AckedIsKept`, `InstancesComeUp`, `DeadIsNoticed`, `ExportsEnd` and the types | two instances, two accounts, one of them with a row in plain text; two uploads, one session that dies, one crash, failure or drop; two tries | 375 000 |

`StepsAgree`, `RetriesKeepTheRules`, `DeliveredOnce`, `ReadsAreSound` and
`RowsTellTheTruth` are conjunctions of named properties of one component, each
of which has its own comment in the module.

Why the bounds are enough. The time constants keep the order of the real ones
(heartbeat < lease < orphan age; sending time < reservation < cooldown; pause <
budget): what the properties depend on is that order and not the size, and the
theorems hold for all values that keep it. Three invocations give the ledger a
holder, a waiter and a recovery that interferes; two steps let one succeed and
the other fail. One slot and two projects make one project wait for the other;
more slots than one are covered by the theorems only. A list of one source with
two due ones is a queue at its limit; two failures to the dead letter put one
failure before it, and the third export is a refresh of a dead or imported
source. Batches of one with two keys make every write a sequence of two that may
be cut in the middle; two mishaps are one that leaves a half-done state and one
that hits its repair. Three imports over four days leave a day without a row
between two with rows, a missing count between two counts, and a falling one;
pages of one make an import fall between any two rows. `reports.cfg` has
an action constraint, `OneReader`: readers write no table, so each is followed
to its end and no further, and a listing over the courses of imports of what it
reads, without counts; what is cut off differs from what is followed only in
parts of the tables that the reader never looks at. Two rows in pages of one let
a row be read, leave and take the cursor past the other, which is then missed:
the bound of `UntouchedAreRead` is tight. An application, its
replacement and one more edit are enough for a client that is inserted late to
meet its removal, two tasks for two recalls of one card. With three edits an
administrator's open transaction meets two others, and the theorems take over
for any number. Four edits in `logins` are two replacements of an access list, a
login and a request; the theorems hold for any number. In `sessions` only one
instance checks and the other exports, an export is followed while nothing is
uploaded or checked (it takes its client once and touches nothing else), and the
two tries stand for the code's three.

### Fairness

- `WorkflowLedger` (`FairSpec`): a live instance runs its tasks and its
  recovery loop, a crashed one is started again, time passes. Steps end because
  every outgoing request and every project has a time-out, and a task does not
  retry for ever because `max_attempts` bounds it; hence strong fairness on
  `Complete`. No fairness on arrivals, cancellations, crashes.
- `SourceQueue`: a pass that has begun goes on, and time passes. Nothing makes a
  pass begin: a period drops out of `list_workflow_activity_scopes` after
  `tracking_end_date`, when it is switched off or when no content has
  `sync_enabled` (`activity_config.rs:362`), and a scheduled time that finds the
  lock taken is skipped (`scheduler.rs:115`). `Settles` therefore has a
  condition: passes get to their import again and again (`KeepsWorking`).
  Aborts, exports and admin requests are bounded by constants and not fair.
- `NotificationGuard`: only that time passes. Senders need not do anything.
- `ProjectAttempts`: the runtime polls timers and futures that are ready
  (`Serve`), and the calls of the clean-up and of the notices are answered
  because the HTTP client has a time-out (`client.rs:57`) and so has the pool.
  An operation may never be answered: `Advance` is not fair.
- `TableSync`: the pass in progress goes on, and a write under way is applied in
  the end. Nothing makes a pass begin, for the same reasons: a skipped time is
  not queued, the compensation run follows the recovery of an orphan only
  (`scheduler.rs:55`), and passes end with the tracking window. `Converges` has
  the condition that full passes keep coming (`KeepsSyncing`).
- `XingtuSessions`: an instance that is down is started again and its start
  goes on, the check goes on and begins again every hour, though a failing
  statement may end a pass (the mishaps are bounded), and the requests and the deadline of an export come to their end because
  `reqwest` has a time-out and `tokio` a timer. Uploads, crashes and the end of
  a session at Xingtu are not fair.
- `ProjectSetup`, `LoginSessions`, `AuditConfigs`, `Reports`: safety only. They
  describe requests, and nobody has to send one.

`attempts.cfg`, `setup.cfg`, `logins.cfg` and `sessions.cfg` turn the deadlock
check off: a batch that has returned does nothing more, nobody has to send
requests, and uploads and crashes are bounded. All other runs check for
deadlock.

## 4. Observations

What the models and the reading for them showed about the code. None of these
is a property of a run; where a property excludes one, its comment says so.

Where the documents and the code differ:

- `docs/operations-runbook.md:53` says that the lock in the database prevents
  replicas from executing write workflows twice. A task that stalls longer than
  its lease after its last heartbeat is still between two awaits when another
  instance takes the lease (`workflow_run.rs:133`); both write until the first
  notices. With prompt tasks it cannot happen (`LeaseExcludes`).
- `docs/api.md:378` says that orphans are reclaimed while nothing runs. The
  statement (`workflow_run.rs:605`) spares the run that has the lease and
  reclaims the others beside it. That is harmless for the ledger
  (`PromptRunsAreSpared`), the words are too strong.
- A migration says of `live_session` that it keeps the latest data. Sources of
  one content are imported in the order of their success
  (`data_import.rs:1114`); an older export that failed and is retried overwrites
  the rows of a newer one.
- The comment on the guard's table promises one notice per cooldown. A valid
  check that clears the key (`workflow.rs:1053`) while another instance is
  between its claim and its send lets the same notice be sent twice.
- `docs/api.md:1243` gives Xingtu's row precedence over a registration. A
  manual-only pass knows Xingtu's rows only from the main table
  (`table_sync.rs:457`); a row that is in the database and not yet there is
  replaced.
- `docs/api.md:1463`: after a missing count the whole cumulative count is
  counted again as an increment (`query.rs:1154`).
- `docs/api.md:909` says that an account that an active period refers to cannot
  be switched off, and the migrations refuse such a pair. A period that is
  switched off, then its account or project, then switched on again by its
  status alone, is active with a disabled account; so is one whose status is
  set while the other request commits. `SavedIsBacked` is therefore about the
  commit of a save and says nothing of later.
- The documents call the replacement of an access list complete. Of two
  replacements at a time the second does not delete the rows of the first: the
  list ends as their union, or the second fails on the primary key
  (`admin.rs:997`).
- `docs/api.md:314` speaks of a check of all accounts. `check_all_logins` ends
  at the first account that has no client (`workflow.rs:1104`), and the accounts
  behind it are not checked; `Doomed` has that as its condition.
- `scheduler.rs:110` speaks of a 24-hour query cache; the time to live is
  five minutes (`server/cache.rs`).

Workflows and tables:

- A crash between the delivery of a notice and its mark (`workflow.rs:1236`)
  repeats the notice when the reservation ends. A failing client after the claim
  (`workflow.rs:1364`) returns without releasing the reservation.
- A retry reopens the rows of the steps in place, so a project that failed may
  show "succeeded" rows of an earlier attempt; `ReportIsTrue` is about projects
  that succeeded, and those show their last attempt only.
- When `finish_step_failure` itself fails, its database error replaces the
  error of the operation, and a permanent error becomes one that is retried.
  When the write that ends a step fails, a run that closes as partly failed
  leaves the row of the step running: `StepsAgree` needs steps whose writes do
  not fail.
- The slot of a project is freed only after its clean-up and error notices.
- A field that becomes empty at the source is never cleared in the main table,
  while the database row gets NULL.
- A creation that lands after the next pass has read the table leaves a key
  twice, and every later pass ends at `index_existing_records` until somebody
  removes one of them. `Converges` excludes that case by `overtaken`.
- A full pass turns a record to manual when the sheet no longer has its key.
- An auditor's rejection of a registered row is overridden by the automatic
  approval of the next pass (a comment of `table_sync.rs` says so).
- The synchronisation writes approvals into the field the project names, the
  write-back reads the one the bound configuration names
  (`activity_config.rs:704` and `485`); they may differ.
- The admin's ignore of a source a pass has already listed comes too late for
  that pass: the source is imported once more.
- Passes on a period end with its tracking window. A source that fails in the
  last night's pass stays failed, neither imported nor dead, until an
  administrator retries or ignores it, and what the last full pass leaves half
  done in the tables stays so. `Settles` and `Converges` are about periods whose
  passes go on.
- A scheduled time that finds the `write_lock` taken is skipped and not made up
  for (`scheduler.rs:115`); only the recovery of an orphan asks for a
  compensation run.
- A project that has no client fails before its first step (`workflow.rs:531`):
  a run may close as partly or wholly failed without a failed step.
- `normalize_live_sessions`: of two misplaced copies of a session with the same
  target room the second UPDATE breaks the primary key, and the normalisation
  fails every time until one of them is removed.

Configuration and applications:

- Unbinding the audit notice of a project empties the application of the shared
  configuration, for all projects that share it, and does so even when it
  answers "not found". `update_audit_config` and `bind_project` check the
  application of a configuration without a lock.
- The default client is made once at the start; a new secret in its row counts
  after the next start only. `ClientsAreCurrent` is about the others. With a
  default application from the environment a recall goes through the present
  binding of the project, which is why `SenderRecalls` asks for one from the
  database.
- Two recalls of one card may leave an error on a card that is marked recalled;
  a recall whose answer is lost leaves the card unmarked for ever.
- A replaced task keeps the sheet of the old one until the next export, and an
  export writes its sheet by the id of the content although the task was
  changed meanwhile (`trace.rs:241`). A content that is left out keeps its task
  reserved.
- The file import takes no lock on its project.

Login and sessions:

- A session of an application that is switched off later keeps working until it
  ends. A token that is checked just before its rotation still gives a session.
- An upload stores a session before the registry refuses one without a cookie
  or csrf token; the row stays, and every later start ends at it
  (`account.rs:80`). So does a row sealed with another key. `InstancesComeUp`
  has that as its alternative.
- Every instance has a registry of its own: an upload reaches the others only
  when they start again, and their checks may turn `session_status` back and
  forth. Uploads that cross may leave database and registry with different
  sessions, and the migration of a start may overwrite a newer upload;
  `AckedIsKept` is about uploads that nothing crossed.
- A request that fails three times in transport is recorded as an invalid
  session, with a notice. The session from the environment overwrites the stored
  one at every start.

Reports:

- The lists of the first version have no total order: rows with equal keys may
  repeat or be missing between two pages. `UntouchedAreRead` promises nothing
  of them.
- A new row between the COUNT and the SELECT of one page may make the last page
  look like the end.
- A row that leaves a filtered list between two pages moves the rows behind it
  up, and the next OFFSET (`query.rs:1616`) skips a row that nothing has touched:
  a list of one `audit_result` while verdicts are written back, a list of pending
  sources while they are imported, a search on `audit_extra`, or any list of
  sessions while `normalize_live_sessions` moves some away. `UntouchedAreRead`
  promises one missed row at most for each that left.

## 5. Theorems

All are checked by TLAPS down to the leaves, for every value of the constants
that satisfies the assumptions of the module. They assume nothing else.

| Theorem | Establishes | By |
| --- | --- | --- |
| `WorkflowLedgerProofs!TypeCorrect` | `TypeOK` | |
| `LockExcludes` | `LocalExclusion`, stalls and faults included | `LockInv`: of two live invocations of an instance one is ahead of the other |
| `LeaseExcludes`, `PromptRunsAreSpared` | `SingleWriter`, `LiveRunNotReclaimed` when `Timely` | `LeaseInv`: an invocation in its run holds the lease, and what is left of it plus what was waited since the last renewal is at least `Lease`; with the margins the lease cannot run out before the next heartbeat |
| `ClosedRowsKeepTheirStatus` | `ClosedStaysClosed` when `Timely` | the same invariant: a row that is going to be closed by its task is still running |
| `SuccessIsEarned`, `RunsAndStepsAgree` | `SuccessMeansSteps` when `Timely`; `StepsAgree` when moreover the writes of steps do not fail | `StepInv` on top of `LeaseInv`: what a task knows of its steps is what their rows say, since nobody else closes them while it works |
| `LeaseIsKept` | `UnexpiredLeaseIsKept`, stalls and faults included | no invariant but the types: every step that changes the holder is a release or finds the lease expired |
| `LedgerRefines` | `WorkflowLedger` implements `ExclusiveLedger` when `Timely` | one lemma per group of actions: a step of the one or a stutter |
| `SourceQueueProofs!TypeCorrect`, `DeadLetterIsExact` | `DeadIffExhausted` with overlapping passes too | every write of a row establishes it whatever the row held |
| `ImportsAreCurrent`, `DelaysAreKept`, `DeadLettersStay` | `ImportedIsCurrent`, `BackoffRespected`, `DeadLettersWait` with exclusive passes (the last two together: `RetriesAreRuled`) | `ExclusiveInv`: what the only pass has in hand is still what the table says, without a delay and not dead |
| `NoticeProofs!TypeCorrect`, `LeaseExcludes`, `SilenceHasACause` | `OneSender`, `SilenceIsEarned` | `Guarded`: the sender in flight holds the reservation, and reservation and age together last |
| `NothingIsRepeated`, `GuardIsExact` | `NoRepeat`, `DeliveredOnce` | `Rested`: what was delivered is either suppressed by the cooldown or in the hands of its sender |
| `AuditTypeCorrect`, `BindingsStayActive` | `AuditTypeOK`; `BindingsAreActive` | `AInv`: a call carries a version between the one it found first and the one of the row, a notice is under way to a pair it was configured with, a recall has the application that sent its card, a card about to be recorded is there and unknown to the history, and no two actors record one card |
| `ClientsStayCurrent`, `SendersFitReceivers` | `ClientsAreCurrent`, `SenderFitsReceiver`, for any number of actors and replacements | the same: what a notice has read was configured together since it began |
| `HistoryTellsRecalls`, `SendersRecall` | `RecallsAreRecorded`, `SenderRecalls` | the same |
| `ReadProofs!TypeCorrect`, `CacheRefines` | `QueryCache` implements `FreshReads` | `Fresh`: an entry and a load are at least as new as the base of the revision they are kept under |
| `StalenessIsBounded`, `CacheIsSound` | `AnswersAreRecent`, `ReadsAreSound` | `Recent`: the age of an entry bounds how long its value has been replaced |
| `ReportsTypeCorrect`, `ListingsMissNothing` | `ReportsTypeOK`; `UntouchedAreRead` for any filter and any number of rows, imports, write-backs and pages | `RInv`: the cursor has passed at most as many unread promised rows as have left the listing (`SkippedOK`), since imports put rows in front only and each row that leaves moves the others by one place; a total is too small only if a row was entered |
| `SyncReturnsEveryDay`, `SyncIsOneReport` | `SyncInOrder` and with it `SyncAddsUp` | `RInv` and `PInv`: the rows returned are those of the first days, and those of an undisturbed synchronisation are rows of the report of the tables as they are; their increments telescope |
| `FiguresAlwaysAgree`, `FiguresAgree` | what `ReportsAgree` says, in every state and for every table; `ReportsAgree` as the run checks it | not an invariant of steps but of tables: each statement is a sum over videos, days or classes, and the sums are the same by regrouping, renaming or one day at a time |
| `ProjectAttemptsProofs!TypeCorrect`, `BudgetIsKept` | `BudgetKept` for any concurrency | `Clocked`: time spent and time left on the timer never exceed the budget |
| `ReportsAreTrue` | `ReportIsTrue` with failing, dropped and late calls | `Faithful`: nothing is adrift beside an attempt, and the steps behind it were done by it |
| `NothingRunsOn`, `LedgerTellsTheTruth` | `NothingLeftRunning`, `RowsTellTheTruth` | `AllExplained`: a row that says running is the step in hand or has a mishap behind it |
| `TableSyncProofs!TypeCorrect`, `DatabaseFirst` | `TablesAreBacked` | `Backed`, with `Placed` for what a pass holds at each place: whatever is planned, sent or under way is for keys the store before has |
| `KeysAreUnique` | `KeysStayUnique` | `Single`: what is to be created is not in the table, unless a write was overtaken |
| `ApprovalsAreVouched` | `OnlyVouchedIsApproved` | `Honest`: so for every plan, every write under way and every verdict read |
| `SheetRecordsAreSpared` | `ManualSparesTheSheet` | `Spares`: the plans of a manual pass name no key the table has from the sheet |
| `SuccessIsWhole` | `SuccessIsComplete` | `Carried`: what is planned and not sent is exactly what a store still lacks |
| `ProjectSetupProofs!TypeCorrect` | `TypeOK` with its foreign keys | `TypeInv`: what was read of accounts and projects stays true until the commit, since no account leaves its project |
| `OneActiveDefault` | `ActiveDefault` | `IInv`: one open request per project, and what it may rely on under the lock |
| `ActivePeriodsSync`, `TasksHaveOneOwner` | `EveryPeriodSyncs`, `TaskOwnedOnce` | `ContentsInv`: what a submission looks like after its check, and that `upsert_contents` leaves every task with one owner |
| `SavedPeriodsAreBacked` | `SavedIsBacked` | the same `IInv`: the lock of the project is held from the checks to the commit |
| `LoginProofs!TypeCorrect` | `TypeOK` | |
| `RightsStayLive`, `EndedStayOut`, `LoginsRestOnNow` | `RightsAreLive`, `EndedSessionsStayOut`, `LoginsAreCurrent` | `LInv`: what a request and an attempt know at each of their statements |
| `SessionsTypeCorrect`, `AckedStays` | `SessionsTypeOK`; `AckedIsKept` for any number of instances, accounts and uploads | `SInv`: a sealed row does not become plain again, an upload that nothing crossed is the only one under way for its account, and what was acknowledged is in the row, in the registries that must have it and in every start that has read the rows |

Why strengthenings are needed: but for the few that need only the types or the
tables, these properties are not inductive. Each fails one step after a state
that the property allows and the code never reaches, such as a planned creation of a key that is already there; the
invariants say what a task in the middle of its work knows about the stores.

Proved beyond the runs: `TypeOK` of the modules whose run does not name it,
`LocalExclusion`, `LiveRunNotReclaimed`, `ClosedStaysClosed`,
`DeadIffExhausted`, `BudgetKept`, `TablesAreBacked`, `SuccessIsComplete` and
`ManualSparesTheSheet` are checked by the proof alone.

The sums of `Reports` are the library's fold over a set that picks its
elements in some order. That the order does not matter, that a sum may be split,
regrouped by class or renamed, and that it grows with its set is proved in
`ReadProofs` first (`SumRemove`, `SumSplits`, `SumOfClasses`, `SumRenamed`,
`SumGrows`, `SumTelescopes`). The induction theorems of the library take an
operator as a parameter, which the provers cannot instantiate; these proofs take
the least counterexample of a set of natural numbers instead (`NoLeast`).

Assumptions on the constants are those the modules name: for `Reports` that
there are finitely many videos and sessions and that the month begins after the
first day, so that it has a day before it (`ReportConstants`), for the others
that the sets of apps, projects or instances are what their names say
(`AppsAssumption`, `AuditAssumption`, `SessionsAssumption`) and the order of the
time constants.

Only model-checked: the liveness properties (`RowsClose`, `QueueMoves`,
`Settles`, `NeverMuted`, `BatchEnds`, `Converges`, `InstancesComeUp`,
`DeadIsNoticed`, `ExportsEnd`), since fairness and `ENABLED` are out of the
prover's reach. Every safety property of a run is a theorem.

## 6. What a property leaves open

A property holds under the conditions its comment names, and those are the ones
the code gives: `Timely` for the lease, no call that is applied after the next
pass has begun for the tables (`overtaken`), no crash and no lost answer
between the delivery and the mark for the notices (`mishaps`), no crossing
upload for the sessions, passes that keep coming for what must happen in the end
to the queue and the tables (`KeepsWorking`, `KeepsSyncing`), no row that leaves
a listing for nothing to be missed. Section 4 says what happens otherwise.

## 7. What is not modelled

- The Feishu token cache (`cache.rs`, `client.rs`): a caller that learns late
  that its token has expired drops the entry that another one has just
  refreshed, and the token is fetched twice; nothing depends on it.
- Values: the conversion of field values.
- Of `normalize_live_sessions` the side of the period that gains a session:
  `Reports` has the period that loses it, `TablesAreBacked` is about one content
  configuration before that step.
- A source that is registered again for the same day, which moves it to the
  front of its list (`activity_config.rs:871`), and a changed publish time, which
  moves a row among those of a search: for a listing both amount to a row that
  leaves and one that enters.
- `ProjectSetup` has the sheet and the export of a content so that its actions
  are whole; no property is about them.
- Quarantined rows beyond the fact that a key is set aside.
- Cryptography: the signatures of states and JWTs, the hashes of tokens, the
  envelope encryption of secrets and sessions, the signature and the nonce of
  the data connector.
- Which words make an error permanent, the reading of settings, the wording of
  notices and cards, the layout of sheets, the remark of a token, the names and
  dates of projects.
- The lists of traces and metrics row by row (`list_video_trace_metrics`,
  `list_video_metrics`) and the text searches: they compute nothing that
  another endpoint promises too.
- Routing, parameter checks and the HTTP transports. The calls of Feishu and
  Xingtu are modelled by what they may answer.
- The clock times of the daily triggers: a trigger may come at any moment.
- PostgreSQL is taken to be atomic per statement or transaction as the code
  uses it, at its default isolation: a check at the beginning of a transaction
  may be out of date at its commit unless a lock holds it.
