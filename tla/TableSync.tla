------------------------------ MODULE TableSync ------------------------------
(***************************************************************************)
(* One content configuration (the videos or the live sessions of a period) *)
(* and the passes that carry its rows from the Xingtu sheet and the manual *)
(* registration table into PostgreSQL, the main table and the audit table, *)
(* and the auditors' verdicts back (src/src/pipeline/table_sync.rs,        *)
(* sync.rs, bitable.rs, audit_result_sync.rs, xingtu/data_import.rs).      *)
(*                                                                         *)
(* A pass is an import of the sheet, a full or a manual-only table         *)
(* synchronisation, or a write-back of the verdicts.  One pass runs at a   *)
(* time: the execution lease of WorkflowLedger.  Registrars, exports and   *)
(* auditors act whenever they like, and so does a write whose answer the   *)
(* pass did not wait for.                                                  *)
(***************************************************************************)
EXTENDS Integers, FiniteSets

CONSTANTS
    Keys,             \* unique keys: video ids or live room ids
    Values,           \* values of the synchronised fields of a row
    Blank,            \* the fields are empty
    Contents,         \* what a row of the sources may hold
    BatchSize,        \* BATCH_SIZE of bitable.rs
    ManualOverrides,  \* manual_overrides_spreadsheet
    AutoApprove,      \* manual_auto_approve
    Rulings,          \* what auditors enter into the audit table
    Faults,           \* the mishaps that may happen
    MaxEdits,         \* bound of the edits of the two sources
    MaxFaults         \* bound of the mishaps

Fields == Values \cup {Blank}

ASSUME SyncConstants ==
    /\ Blank \notin Values
    /\ Contents \subseteq [val : Fields, timed : BOOLEAN]
    /\ BatchSize \in Nat \ {0}
    /\ ManualOverrides \in BOOLEAN /\ AutoApprove \in BOOLEAN
    /\ Rulings \subseteq {"approved", "rejected"}
    /\ Faults \subseteq {"stop", "lost", "late", "blank"}
    /\ MaxEdits \in Nat /\ MaxFaults \in Nat

VARIABLES
    sheet, manual,     \* the two sources: what they hold under a key
    main, audit,       \* the two Feishu tables
    db,                \* video_content or live_session
    quarantine,        \* keys with an unresolved row in xingtu_data_quarantine
    kind, pc,          \* the pass and where it is
    rows,              \* its merged rows
    seen,              \* the table as it was read
    updates, creates,  \* the writes it has not sent yet
    late,              \* writes nobody waits for and that are not applied yet
    edits, faults,     \* how many of them there were
    vouched,           \* keys that were registered where no sheet claims them
    ruled,             \* what auditors have ever said of a key
    overtaken          \* a pass began while a write was still on its way

sources == <<sheet, manual, edits>>
tables  == <<main, audit>>
stored  == <<db, quarantine>>
pass    == <<kind, pc, rows, seen, updates, creates>>
history == <<vouched, ruled, overtaken>>
vars    == <<sources, tables, stored, pass, late, faults, history>>

-----------------------------------------------------------------------------
(* Rows, records and writes. *)

Origins  == {"none", "sheet", "manual"}
Verdicts == {"none", "approved", "rejected"}

\* A row that is ready to be written.
Row    == [src : Origins, val : Fields, timed : BOOLEAN]
NoRow  == [src |-> "none", val |-> Blank, timed |-> FALSE]

(***************************************************************************)
(* The records of a table under one key: how many there are, and the       *)
(* fields of the first.  Nothing but the number matters of the others: the *)
(* index of a table with a repeated key is refused.                        *)
(***************************************************************************)
Record   == [copies : Nat, src : Origins, val : Fields, verdict : Verdicts]
NoRecord == [copies |-> 0, src |-> "none", val |-> Blank, verdict |-> "none"]

\* The row of a key in the database; src is where it was last taken from,
\* which the database does not keep.
Stored   == [src : Origins, val : Fields, verdict : Verdicts]
NotStored == [src |-> "none", val |-> Blank, verdict |-> "none"]

\* What is sent for one key; "none" and Blank leave the field as it is.
Item  == [key : Keys, src : Origins, val : Fields, verdict : Verdicts]
Write == [table : {"main", "audit"}, op : {"update", "create"}, items : SUBSET Item]

Kinds  == {"import", "full", "manual", "review"}
Places == {"idle", "sheet", "manual", "main", "persist", "write_main",
           "audit", "write_audit", "write_back", "done"}

TypeOK ==
    /\ sheet \in [Keys -> SUBSET Contents] /\ manual \in [Keys -> SUBSET Contents]
    /\ main \in [Keys -> Record] /\ audit \in [Keys -> Record]
    /\ db \in [Keys -> Stored] /\ quarantine \subseteq Keys
    /\ kind \in Kinds /\ pc \in Places
    /\ rows \in [Keys -> Row] /\ seen \in [Keys -> Record]
    /\ updates \subseteq Item /\ creates \subseteq Item
    /\ late \subseteq Write
    /\ edits \in 0 .. MaxEdits /\ faults \in 0 .. MaxFaults
    /\ vouched \subseteq Keys /\ ruled \in [Keys -> SUBSET Rulings]
    /\ overtaken \in BOOLEAN

Init ==
    /\ sheet = [k \in Keys |-> {}] /\ manual = [k \in Keys |-> {}]
    /\ main = [k \in Keys |-> NoRecord] /\ audit = [k \in Keys |-> NoRecord]
    /\ db = [k \in Keys |-> NotStored] /\ quarantine = {}
    /\ kind = "full" /\ pc = "idle"
    /\ rows = [k \in Keys |-> NoRow] /\ seen = [k \in Keys |-> NoRecord]
    /\ updates = {} /\ creates = {} /\ late = {}
    /\ edits = 0 /\ faults = 0
    /\ vouched = {} /\ ruled = [k \in Keys |-> {}] /\ overtaken = FALSE
-----------------------------------------------------------------------------
(* The pure steps of a pass. *)

Present(row) == row.src # "none"

RowOf(contents, src) ==
    LET c == CHOOSE c \in contents : TRUE
    IN  IF contents = {} THEN NoRow ELSE [src |-> src, val |-> c.val, timed |-> c.timed]

\* A key that occurs twice ends the parsing of a source.
Repeated(source) == \E k \in Keys : Cardinality(source[k]) > 1

\* Mutant: the registration wins, whatever the rule.
MergedManualFirst(fromSheet, registered) ==
    [k \in Keys |->
        LET m == RowOf(registered[k], "manual") IN IF Present(m) THEN m ELSE fromSheet[k]]

\* Of two rows with one key the sheet's is kept, unless the rule says otherwise.
Merged(fromSheet, registered) ==
    [k \in Keys |->
        LET m == RowOf(registered[k], "manual")
        IN  IF Present(fromSheet[k]) /\ ~(ManualOverrides /\ Present(m))
            THEN fromSheet[k] ELSE m]

SheetOwned(table, k) == table[k].copies > 0 /\ table[k].src = "sheet"

\* A manual-only pass leaves alone what the main table says is the sheet's.
Spared(rs, table) == [k \in Keys |-> IF SheetOwned(table, k) THEN NoRow ELSE rs[k]]

Approves(row) == row.src = "manual" /\ AutoApprove

\* Only what differs is sent for a record that exists; an empty field never is.
Difference(k, row, rec) ==
    [key |-> k, verdict |-> "none",
     src |-> IF row.src = rec.src THEN "none" ELSE row.src,
     val |-> IF row.val = rec.val THEN Blank ELSE row.val]

Known(rs, table) == {k \in Keys : Present(rs[k]) /\ table[k].copies > 0}
New(rs, table)   == {k \in Keys : Present(rs[k]) /\ table[k].copies = 0}

MainUpdates(rs, table) ==
    {i \in {Difference(k, rs[k], table[k]) : k \in Known(rs, table)} :
        i.src # "none" \/ i.val # Blank}

\* Mutant: the index is not consulted.
MainCreatesAll(rs, table) ==
    {[key |-> k, verdict |-> "none", src |-> rs[k].src, val |-> rs[k].val] :
        k \in {k \in Keys : Present(rs[k])}}

MainCreates(rs, table) ==
    {[key |-> k, verdict |-> "none", src |-> rs[k].src, val |-> rs[k].val] : k \in New(rs, table)}

\* The audit table takes the key, and the approval of a manual row.
AuditItem(k, row) ==
    [key |-> k, src |-> "none", val |-> Blank,
     verdict |-> IF Approves(row) THEN "approved" ELSE "none"]

AuditUpdates(rs, table) ==
    {AuditItem(k, rs[k]) :
        k \in {k \in Known(rs, table) : Approves(rs[k]) /\ table[k].verdict # "approved"}}

AuditCreates(rs, table) == {AuditItem(k, rs[k]) : k \in New(rs, table)}

\* Mutant: the second record of any key is refused, not of the same one.
AmbiguousIfTwo(table) ==
    \E j, k \in Keys : j # k /\ table[j].copies > 0 /\ table[k].copies > 0

\* A table with a repeated key cannot be indexed.
Ambiguous(table) == \E k \in Keys : table[k].copies > 1

-----------------------------------------------------------------------------
(* What the two stores make of a write. *)

Patched(rec, i) ==
    [copies  |-> rec.copies,
     src     |-> IF i.src = "none" THEN rec.src ELSE i.src,
     val     |-> IF i.val = Blank THEN rec.val ELSE i.val,
     verdict |-> IF i.verdict = "none" THEN rec.verdict ELSE i.verdict]

Created(rec, i) ==
    IF rec.copies = 0
    THEN [copies |-> 1, src |-> i.src, val |-> i.val, verdict |-> i.verdict]
    ELSE [copies |-> rec.copies + 1, src |-> rec.src, val |-> rec.val, verdict |-> rec.verdict]

\* The table after one batch.
Landed(table, op, items) ==
    [k \in Keys |->
        IF \E i \in items : i.key = k
        THEN LET i == CHOOSE i \in items : i.key = k
             IN  IF op = "create" THEN Created(table[k], i) ELSE Patched(table[k], i)
        ELSE table[k]]

\* persist_merged_records: rows without a business time are set aside, the
\* others replace what was stored; the verdict stays unless it is approved.
Kept(old, row) ==
    [src |-> row.src, val |-> row.val,
     verdict |-> IF Approves(row) THEN "approved" ELSE old.verdict]

Persisted(d, rs) ==
    [k \in Keys |-> IF Present(rs[k]) /\ rs[k].timed THEN Kept(d[k], rs[k]) ELSE d[k]]

SetAside(q, rs) ==
    {k \in Keys : IF Present(rs[k]) THEN ~rs[k].timed ELSE k \in q}

\* update_audit_results: a verdict that was entered reaches the stored row.
WrittenBack(d, table) ==
    [k \in Keys |->
        IF table[k].copies > 0 /\ table[k].verdict # "none" /\ d[k].src # "none"
        THEN [src |-> d[k].src, val |-> d[k].val, verdict |-> table[k].verdict]
        ELSE d[k]]
-----------------------------------------------------------------------------
(* The steps of a pass. *)

Goes(place) == pc' = place

\* The context of a pass goes with it; Init has the same.
Over ==
    /\ pc' = "idle"
    /\ rows' = [k \in Keys |-> NoRow] /\ seen' = [k \in Keys |-> NoRecord]
    /\ updates' = {} /\ creates' = {}
    /\ kind' = "full"

Begin(what) ==
    /\ pc = "idle" /\ kind' = what
    /\ Goes(IF what \in {"import", "full"} THEN "sheet"
            ELSE IF what = "manual" THEN "manual" ELSE "audit")
    /\ overtaken' = (overtaken \/ late # {})
    /\ UNCHANGED <<sources, tables, stored, rows, seen, updates, creates, late, faults, vouched, ruled>>

ReadSheet ==
    /\ pc = "sheet"
    /\ IF Repeated(sheet) THEN Over
       ELSE /\ rows' = [k \in Keys |-> RowOf(sheet[k], "sheet")]
            /\ Goes(IF kind = "import" THEN "persist" ELSE "manual")
            /\ UNCHANGED <<kind, seen, updates, creates>>
    /\ UNCHANGED <<sources, tables, stored, late, faults, history>>

\* Keys of the registration table that no sheet claims, as far as is known.
Unclaimed(registered) ==
    {k \in Keys : registered[k] # {} /\ (ManualOverrides \/ ~Present(rows[k]))}

TakeManual(registered) ==
    IF Repeated(registered) THEN Over /\ vouched' = vouched
    ELSE /\ rows' = Merged(rows, registered)
         /\ Goes(IF kind = "full" THEN "persist" ELSE "main")
         /\ vouched' = IF kind = "full" THEN vouched \cup Unclaimed(registered) ELSE vouched
         /\ UNCHANGED <<kind, seen, updates, creates>>

ReadManual ==
    /\ pc = "manual" /\ TakeManual(manual)
    /\ UNCHANGED <<sources, tables, stored, late, faults, ruled, overtaken>>

ReadMain ==
    /\ pc = "main"
    /\ \/ Ambiguous(main) /\ Over /\ vouched' = vouched
       \/ /\ ~Ambiguous(main) /\ kind = "full"
          /\ updates' = MainUpdates(rows, main) /\ creates' = MainCreates(rows, main)
          /\ Goes("write_main") /\ UNCHANGED <<kind, rows, seen, vouched>>
       \/ /\ ~Ambiguous(main) /\ kind = "manual"
          /\ rows' = Spared(rows, main) /\ seen' = main
          /\ vouched' = vouched \cup {k \in Keys : Present(rows[k]) /\ ~SheetOwned(main, k)}
          /\ Goes("persist") /\ UNCHANGED <<kind, updates, creates>>
    /\ UNCHANGED <<sources, tables, stored, late, faults, ruled, overtaken>>

Commit == db' = Persisted(db, rows) /\ quarantine' = SetAside(quarantine, rows)

\* A manual-only pass has read the main table already and plans with that.
Persist ==
    /\ pc = "persist" /\ Commit
    /\ Goes(IF kind = "import" THEN "done" ELSE IF kind = "full" THEN "main" ELSE "write_main")
    /\ updates' = IF kind = "manual" THEN MainUpdates(rows, seen) ELSE {}
    /\ creates' = IF kind = "manual" THEN MainCreates(rows, seen) ELSE {}
    /\ UNCHANGED <<sources, tables, kind, rows, seen, late, faults, history>>

\* The next batch: updates go before creations.
Op   == IF updates # {} THEN "update" ELSE "create"
Left == IF updates # {} THEN updates ELSE creates

Batches ==
    {b \in SUBSET Left : /\ b # {} /\ Cardinality(b) <= BatchSize
                         /\ Cardinality(b) = BatchSize \/ b = Left}

Apply(table, op, items) ==
    /\ main'  = IF table = "main" THEN Landed(main, op, items) ELSE main
    /\ audit' = IF table = "audit" THEN Landed(audit, op, items) ELSE audit

Writing == pc \in {"write_main", "write_audit"}
Target  == IF pc = "write_main" THEN "main" ELSE "audit"

Send ==
    /\ Writing
    /\ \E b \in Batches :
        /\ Apply(Target, Op, b)
        /\ updates' = updates \ b
        /\ creates' = IF updates # {} THEN creates ELSE creates \ b
    /\ UNCHANGED <<sources, stored, kind, pc, rows, seen, late, faults, history>>

WritesDone ==
    /\ Writing /\ Left = {}
    /\ Goes(IF pc = "write_main" THEN "audit" ELSE "done")
    /\ UNCHANGED <<sources, tables, stored, kind, rows, seen, updates, creates, late, faults, history>>

ReadAudit ==
    /\ pc = "audit" /\ kind # "review"
    /\ \/ /\ \A k \in Keys : ~Present(rows[k])
          /\ Goes("done") /\ UNCHANGED <<kind, rows, seen, updates, creates>>
       \/ /\ \E k \in Keys : Present(rows[k])
          /\ IF Ambiguous(audit) THEN Over
             ELSE /\ updates' = AuditUpdates(rows, audit) /\ creates' = AuditCreates(rows, audit)
                  /\ Goes("write_audit") /\ UNCHANGED <<kind, rows, seen>>
    /\ UNCHANGED <<sources, tables, stored, late, faults, history>>

\* Repeated keys of the audit table may contradict each other.
ReadVerdicts ==
    /\ pc = "audit" /\ kind = "review"
    /\ \/ seen' = audit /\ Goes("write_back") /\ UNCHANGED <<kind, rows, updates, creates>>
       \/ Ambiguous(audit) /\ Over
    /\ UNCHANGED <<sources, tables, stored, late, faults, history>>

WriteBack ==
    /\ pc = "write_back" /\ db' = WrittenBack(db, seen) /\ Goes("done")
    /\ UNCHANGED <<sources, tables, quarantine, kind, rows, seen, updates, creates, late, faults, history>>

Finish ==
    /\ pc = "done" /\ Over
    /\ UNCHANGED <<sources, tables, stored, late, faults, history>>

Step == \/ ReadSheet \/ ReadManual \/ ReadMain \/ Persist \/ Send \/ WritesDone
        \/ ReadAudit \/ ReadVerdicts \/ WriteBack \/ Finish

-----------------------------------------------------------------------------
(* Mishaps. *)

Mishap(f) == f \in Faults /\ faults < MaxFaults /\ faults' = faults + 1

\* An error, a time-out, a dropped call or a crash ends the pass where it is.
Stop ==
    /\ pc # "idle" /\ Mishap("stop") /\ Over
    /\ UNCHANGED <<sources, tables, stored, late, history>>

\* The answer of a write that was applied does not come.
AnswerLost ==
    /\ Mishap("lost") /\ Over
    /\ \/ Writing /\ (\E b \in Batches : Apply(Target, Op, b)) /\ UNCHANGED stored
       \/ pc = "persist" /\ Commit /\ UNCHANGED tables
       \/ /\ pc = "write_back" /\ db' = WrittenBack(db, seen)
          /\ UNCHANGED <<tables, quarantine>>
    /\ UNCHANGED <<sources, late, history>>

\* The pass gives up on a write that is applied later.
WriteLate ==
    /\ Writing /\ Mishap("late") /\ Over
    /\ \E b \in Batches : late' = late \cup {[table |-> Target, op |-> Op, items |-> b]}
    /\ UNCHANGED <<sources, tables, stored, history>>

Land ==
    /\ \E w \in late : Apply(w.table, w.op, w.items) /\ late' = late \ {w}
    /\ UNCHANGED <<sources, stored, pass, faults, history>>

\* A registration table that is not empty is answered without data.
ReadManualAsEmpty ==
    /\ pc = "manual" /\ Mishap("blank") /\ TakeManual([k \in Keys |-> {}])
    /\ UNCHANGED <<sources, tables, stored, late, ruled, overtaken>>

(* Exports, registrars and auditors. *)

Export(k, c) ==
    /\ edits < MaxEdits /\ edits' = edits + 1 /\ sheet' = [sheet EXCEPT ![k] = c]
    /\ UNCHANGED <<manual, tables, stored, pass, late, faults, history>>

Register(k, c) ==
    /\ edits < MaxEdits /\ edits' = edits + 1 /\ manual' = [manual EXCEPT ![k] = c]
    /\ UNCHANGED <<sheet, tables, stored, pass, late, faults, history>>

Rule(k, v) ==
    /\ audit[k].copies > 0
    /\ audit' = [audit EXCEPT ![k] = [copies |-> audit[k].copies, src |-> audit[k].src,
                                      val |-> audit[k].val, verdict |-> v]]
    /\ ruled' = [ruled EXCEPT ![k] = ruled[k] \cup {v}]
    /\ UNCHANGED <<sources, main, stored, pass, late, faults, vouched, overtaken>>

Next ==
    \/ \E what \in Kinds : Begin(what)
    \/ Step
    \/ Stop \/ AnswerLost \/ WriteLate \/ Land \/ ReadManualAsEmpty
    \/ \E k \in Keys, c \in SUBSET Contents : Export(k, c) \/ Register(k, c)
    \/ \E k \in Keys, v \in Rulings : Rule(k, v)

Spec == Init /\ [][Next]_vars

(***************************************************************************)
(* A pass that has begun goes on, and writes on their way arrive.  Nothing *)
(* makes a pass begin: a scheduled time that finds the lock taken is       *)
(* skipped and not made up for, the compensation run follows the recovery  *)
(* of an orphan only, and the passes of a period end with its tracking     *)
(* window.                                                                 *)
(***************************************************************************)
FairSpec == Spec /\ WF_vars(Step) /\ WF_vars(Land)
-----------------------------------------------------------------------------
(* Properties. *)

(***************************************************************************)
(* No sequence of passes, of batches that were applied in part and of      *)
(* answers that got lost gives a table two records with one key:           *)
(* index_existing_records would refuse the table from then on.  Only a     *)
(* write that is applied after the next pass has begun can.                *)
(***************************************************************************)
KeysStayUnique == ~overtaken => ~Ambiguous(main) /\ ~Ambiguous(audit)

(***************************************************************************)
(* "数据先入库": a key of the audit table is in the main table, and a key of  *)
(* the main table is in the database or set aside, whatever failed on the  *)
(* way (PersistMergedRecordsStep before ApplyMainUpsertPlanStep before     *)
(* SyncAuditTableStep).                                                    *)
(***************************************************************************)
TablesAreBacked ==
    \A k \in Keys :
        /\ audit[k].copies > 0 => main[k].copies > 0
        /\ main[k].copies > 0 => db[k].src # "none" \/ k \in quarantine

Matches(rec, row) ==
    rec.copies = 1 /\ rec.src = row.src /\ (row.val # Blank => rec.val = row.val)

InDatabase(k, row) ==
    IF row.timed THEN db[k].src = row.src /\ db[k].val = row.val ELSE k \in quarantine

(***************************************************************************)
(* A pass that reports success has carried every row it merged to every    *)
(* store, over whatever earlier passes left half done, unless a write of   *)
(* an earlier pass came in between.                                        *)
(***************************************************************************)
SuccessIsComplete ==
    pc = "done" /\ ~overtaken =>
        \A k \in Keys : Present(rows[k]) =>
            /\ InDatabase(k, rows[k])
            /\ kind # "import" => /\ Matches(main[k], rows[k]) /\ audit[k].copies = 1
                                  /\ Approves(rows[k]) => audit[k].verdict # "none"

(***************************************************************************)
(* A verdict that was not given by an auditor is the approval of a key     *)
(* that was registered by hand where no sheet claimed it: neither table    *)
(* nor database approves anything else by itself.                          *)
(***************************************************************************)
OnlyVouchedIsApproved ==
    \A k \in Keys \ vouched : {audit[k].verdict, db[k].verdict} \subseteq ruled[k] \cup {"none"}

(***************************************************************************)
(* "仅手动同步时，主表中已经属于星图的数据继续以星图为准": a step of a         *)
(* manual-only pass changes neither the record nor the verdict of a key    *)
(* that the main table has from the sheet, if no write was overtaken.      *)
(***************************************************************************)
ManualSparesTheSheet ==
    [][kind = "manual" /\ pass' # pass /\ ~overtaken =>
        \A k \in Keys : SheetOwned(main, k) =>
            main'[k] = main[k] /\ audit'[k] = audit[k]]_vars

Clean  == ~Repeated(sheet) /\ ~Repeated(manual)
Wanted == Merged([k \in Keys |-> RowOf(sheet[k], "sheet")], manual)

InSync ==
    \A k \in Keys : Present(Wanted[k]) =>
        Matches(main[k], Wanted[k]) /\ audit[k].copies = 1 /\ InDatabase(k, Wanted[k])

\* Full passes come to their table synchronisation again and again.
KeepsSyncing == []<><<Begin("full")>>_vars

(***************************************************************************)
(* Once the sources rest and hold no repeated key, full passes bring all   *)
(* stores to what the sources say and keep them there, whatever failed     *)
(* before and whichever other passes run: no mishap but an overtaken write *)
(* wedges the synchronisation.  The condition is that full passes keep     *)
(* coming: the period is active, within its tracking window and has        *)
(* content to synchronise, some scheduled times find the lock free, and    *)
(* export and import let the pass get this far.  What the last pass of a   *)
(* window leaves half done stays so.                                       *)
(***************************************************************************)
Converges == KeepsSyncing /\ <>[]Clean => <>[]InSync \/ <>overtaken
=============================================================================
