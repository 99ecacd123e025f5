--------------------------- MODULE TableSyncProofs ---------------------------
(***************************************************************************)
(* What TableSync promises for every set of keys and values, every batch   *)
(* size and every number of edits and mishaps.                             *)
(***************************************************************************)
EXTENDS TableSync, TLAPS

-----------------------------------------------------------------------------
(* What the pure steps return. *)

\* A row made from the contents of a key is a row.
LEMMA RowOfType ==
    ASSUME NEW contents \in SUBSET Contents, NEW src \in Origins
    PROVE  RowOf(contents, src) \in Row
  <1>1. CASE contents = {}
    BY <1>1 DEF RowOf, NoRow, Row, Origins, Fields
  <1>2. CASE contents # {}
    <2> DEFINE c == CHOOSE c \in contents : TRUE
    <2>1. c \in contents
      BY <1>2
    <2>2. c \in [val : Fields, timed : BOOLEAN]
      BY <2>1, SyncConstants
    <2>3. RowOf(contents, src) = [src |-> src, val |-> c.val, timed |-> c.timed]
      BY <1>2 DEF RowOf
    <2>4. c.val \in Fields /\ c.timed \in BOOLEAN
      BY <2>2
    <2> QED
      BY <2>3, <2>4 DEF Row
  <1> QED
    BY <1>1, <1>2

\* The merge keeps the sheet's row of a key or takes the registered one.
LEMMA MergedAt ==
    ASSUME NEW rs \in [Keys -> Row], NEW registered \in [Keys -> SUBSET Contents]
    PROVE  /\ Merged(rs, registered) \in [Keys -> Row]
           /\ \A k \in Keys : \/ Merged(rs, registered)[k] = rs[k]
                              \/ Merged(rs, registered)[k] = RowOf(registered[k], "manual")
  <1>1. \A k \in Keys : RowOf(registered[k], "manual") \in Row
    BY RowOfType DEF Origins
  <1> QED
    BY <1>1 DEF Merged

LEMMA SparedType ==
    ASSUME NEW rs \in [Keys -> Row], NEW table
    PROVE  Spared(rs, table) \in [Keys -> Row]
  <1>1. NoRow \in Row
    BY DEF NoRow, Row, Origins, Fields
  <1> QED
    BY <1>1 DEF Spared

\* What is planned is made of items, each for a key of the rows.
LEMMA PlansType ==
    ASSUME NEW rs \in [Keys -> Row], NEW table \in [Keys -> Record]
    PROVE  /\ MainUpdates(rs, table) \subseteq Item
           /\ MainCreates(rs, table) \subseteq Item
           /\ AuditUpdates(rs, table) \subseteq Item
           /\ AuditCreates(rs, table) \subseteq Item
  <1>1. \A k \in Keys : rs[k] \in Row /\ table[k] \in Record
    OBVIOUS
  <1>2. \A k \in Keys : Difference(k, rs[k], table[k]) \in Item
    BY <1>1 DEF Difference, Item, Row, Record, Fields, Verdicts, Origins
  <1>3. \A k \in Keys : AuditItem(k, rs[k]) \in Item
    BY DEF AuditItem, Item, Fields, Verdicts, Origins
  <1>4. \A k \in Keys :
            [key |-> k, verdict |-> "none", src |-> rs[k].src, val |-> rs[k].val] \in Item
    BY <1>1 DEF Item, Row, Verdicts
  <1> QED
    BY <1>2, <1>3, <1>4 DEF MainUpdates, MainCreates, AuditUpdates, AuditCreates, Known, New

\* One batch leaves a key alone or applies one of its items to it.
LEMMA LandedAt ==
    ASSUME NEW table, NEW op, NEW items, NEW k \in Keys
    PROVE  \/ /\ \A i \in items : i.key # k
              /\ Landed(table, op, items)[k] = table[k]
           \/ \E i \in items :
                /\ i.key = k
                /\ Landed(table, op, items)[k] =
                       IF op = "create" THEN Created(table[k], i) ELSE Patched(table[k], i)
  <1>1. CASE \E i \in items : i.key = k
    <2> DEFINE i == CHOOSE i \in items : i.key = k
    <2>1. i \in items /\ i.key = k
      BY <1>1
    <2>2. Landed(table, op, items)[k] =
              IF op = "create" THEN Created(table[k], i) ELSE Patched(table[k], i)
      BY <1>1 DEF Landed
    <2> QED
      BY <2>1, <2>2
  <1>2. CASE ~ \E i \in items : i.key = k
    BY <1>2 DEF Landed
  <1> QED
    BY <1>1, <1>2

LEMMA LandedType ==
    ASSUME NEW table \in [Keys -> Record], NEW op, NEW items \in SUBSET Item
    PROVE  Landed(table, op, items) \in [Keys -> Record]
  <1>1. ASSUME NEW k \in Keys PROVE Landed(table, op, items)[k] \in Record
    <2>1. table[k] \in Record
      OBVIOUS
    <2>2. ASSUME NEW i \in Item PROVE Created(table[k], i) \in Record /\ Patched(table[k], i) \in Record
      BY <2>1 DEF Created, Patched, Record, Item, Origins, Fields, Verdicts
    <2> QED
      BY <2>1, <2>2, LandedAt
  <1>2. Landed(table, op, items) = [k \in Keys |-> Landed(table, op, items)[k]]
    BY DEF Landed
  <1> QED
    BY <1>1, <1>2

LEMMA StoresType ==
    ASSUME NEW d \in [Keys -> Stored], NEW rs \in [Keys -> Row], NEW table \in [Keys -> Record]
    PROVE  Persisted(d, rs) \in [Keys -> Stored] /\ WrittenBack(d, table) \in [Keys -> Stored]
  <1>1. \A k \in Keys : d[k] \in Stored /\ rs[k] \in Row /\ table[k] \in Record
    OBVIOUS
  <1>2. \A k \in Keys : Kept(d[k], rs[k]) \in Stored
    BY <1>1 DEF Kept, Stored, Row, Verdicts
  <1>3. \A k \in Keys :
            [src |-> d[k].src, val |-> d[k].val, verdict |-> table[k].verdict] \in Stored
    BY <1>1 DEF Stored, Record
  <1> QED
    BY <1>1, <1>2, <1>3 DEF Persisted, WrittenBack

\* A batch is a part of what is left, and what is left is planned.
LEMMA BatchesAreLeft ==
    ASSUME NEW b \in Batches
    PROVE  /\ b \subseteq updates \cup creates
           /\ Op = "update" => b \subseteq updates
           /\ Op = "create" => updates = {} /\ b \subseteq creates
           /\ Op \in {"update", "create"}
  BY DEF Batches, Left, Op
-----------------------------------------------------------------------------
(* Types. *)

LEMMA OverEffect ==
    ASSUME TypeOK, Over
    PROVE  /\ kind' = "full" /\ pc' = "idle" /\ updates' = {} /\ creates' = {}
           /\ \A k \in Keys : rows'[k] = NoRow
           /\ rows' \in [Keys -> Row] /\ seen' \in [Keys -> Record]
  BY DEF Over, NoRow, Row, NoRecord, Record, Origins, Fields, Verdicts

LEMMA MishapEffect ==
    ASSUME TypeOK, NEW f, Mishap(f)
    PROVE  faults' \in 0 .. MaxFaults
  BY SyncConstants DEF Mishap, TypeOK

LEMMA ApplyEffect ==
    ASSUME TypeOK, NEW table, NEW op, NEW items \in SUBSET Item, Apply(table, op, items)
    PROVE  main' \in [Keys -> Record] /\ audit' \in [Keys -> Record]
  BY LandedType DEF Apply, TypeOK

LEMMA CommitEffect ==
    ASSUME TypeOK, Commit
    PROVE  db' \in [Keys -> Stored] /\ quarantine' \subseteq Keys
  BY StoresType DEF Commit, SetAside, TypeOK

LEMMA TakeEffect ==
    ASSUME TypeOK, NEW registered \in [Keys -> SUBSET Contents], TakeManual(registered)
    PROVE  /\ kind' \in Kinds /\ pc' \in Places
           /\ rows' \in [Keys -> Row] /\ seen' \in [Keys -> Record]
           /\ updates' \subseteq Item /\ creates' \subseteq Item
           /\ vouched' \subseteq Keys
  <1>1. CASE Over /\ vouched' = vouched
    BY <1>1, OverEffect DEF TypeOK, Kinds, Places
  <1>2. CASE ~Repeated(registered)
    <2>1. Merged(rows, registered) \in [Keys -> Row]
      BY MergedAt DEF TypeOK
    <2> QED
      BY <1>2, <2>1 DEF TakeManual, Goes, Unclaimed, TypeOK, Kinds, Places
  <1> QED
    BY <1>1, <1>2 DEF TakeManual

LEMMA InitTyped == Init => TypeOK
  <1>1. NoRow \in Row /\ NoRecord \in Record /\ NotStored \in Stored
    BY DEF NoRow, Row, NoRecord, Record, NotStored, Stored, Origins, Fields, Verdicts
  <1>2. 0 \in 0 .. MaxEdits /\ 0 \in 0 .. MaxFaults
    BY SyncConstants
  <1>3. ASSUME Init PROVE overtaken \in BOOLEAN
    BY <1>3 DEF Init
  <1>4. ASSUME Init PROVE ruled \in [Keys -> SUBSET Rulings]
    BY <1>4 DEF Init
  <1>5. ASSUME Init
        PROVE  /\ sheet \in [Keys -> SUBSET Contents] /\ manual \in [Keys -> SUBSET Contents]
               /\ main \in [Keys -> Record] /\ audit \in [Keys -> Record]
               /\ db \in [Keys -> Stored]
               /\ rows \in [Keys -> Row] /\ seen \in [Keys -> Record]
    BY <1>1, <1>5 DEF Init
  <1> QED
    BY <1>2, <1>3, <1>4, <1>5 DEF Init, TypeOK, Kinds, Places

LEMMA NextTyped == TypeOK /\ [Next]_vars => TypeOK'
  <1> SUFFICES ASSUME TypeOK, [Next]_vars PROVE TypeOK'
    OBVIOUS
  <1> USE DEF sources, tables, stored, pass, history
  <1>1. ASSUME NEW what \in Kinds, Begin(what) PROVE TypeOK'
    BY <1>1 DEF Begin, Goes, TypeOK, Places
  <1>2. CASE ReadSheet
    <2>1. CASE Over
      BY <1>2, <2>1, OverEffect DEF ReadSheet, TypeOK, Kinds, Places
    <2>2. CASE /\ rows' = [k \in Keys |-> RowOf(sheet[k], "sheet")]
               /\ pc' = IF kind = "import" THEN "persist" ELSE "manual"
               /\ UNCHANGED <<kind, seen, updates, creates>>
      <3>1. [k \in Keys |-> RowOf(sheet[k], "sheet")] \in [Keys -> Row]
        BY RowOfType DEF TypeOK, Origins
      <3> QED
        BY <1>2, <2>2, <3>1 DEF ReadSheet, TypeOK, Places
    <2> QED
      BY <1>2, <2>1, <2>2 DEF ReadSheet, Goes
  <1>3. CASE ReadManual
    <2>1. TakeManual(manual) /\ manual \in [Keys -> SUBSET Contents]
      BY <1>3 DEF ReadManual, TypeOK
    <2> QED
      BY <1>3, <2>1, TakeEffect DEF ReadManual, TypeOK
  <1>4. CASE ReadMain
    <2>1. CASE Over /\ vouched' = vouched
      BY <1>4, <2>1, OverEffect DEF ReadMain, TypeOK, Kinds, Places
    <2>2. CASE /\ updates' = MainUpdates(rows, main) /\ creates' = MainCreates(rows, main)
               /\ pc' = "write_main" /\ UNCHANGED <<kind, rows, seen, vouched>>
      BY <1>4, <2>2, PlansType DEF ReadMain, TypeOK, Places
    <2>3. CASE /\ rows' = Spared(rows, main) /\ seen' = main /\ pc' = "persist"
               /\ vouched' = vouched \cup {k \in Keys : Present(rows[k]) /\ ~SheetOwned(main, k)}
               /\ UNCHANGED <<kind, updates, creates>>
      <3>1. Spared(rows, main) \in [Keys -> Row]
        BY SparedType DEF TypeOK
      <3> QED
        BY <1>4, <2>3, <3>1 DEF ReadMain, TypeOK, Places
    <2> QED
      BY <1>4, <2>1, <2>2, <2>3 DEF ReadMain, Goes
  <1>5. CASE Persist
    BY <1>5, CommitEffect, PlansType DEF Persist, Goes, TypeOK, Places
  <1>6. CASE Send
    <2>1. PICK b \in Batches : /\ Apply(Target, Op, b)
                               /\ updates' = updates \ b
                               /\ creates' = IF updates # {} THEN creates ELSE creates \ b
      BY <1>6 DEF Send
    <2>2. b \subseteq Item
      BY BatchesAreLeft DEF TypeOK
    <2>3. main' \in [Keys -> Record] /\ audit' \in [Keys -> Record]
      BY <2>1, <2>2, ApplyEffect
    <2> QED
      BY <1>6, <2>1, <2>3 DEF Send, TypeOK
  <1>7. CASE WritesDone
    BY <1>7 DEF WritesDone, Goes, TypeOK, Places
  <1>8. CASE ReadAudit
    <2>1. CASE Over
      BY <1>8, <2>1, OverEffect DEF ReadAudit, TypeOK, Kinds, Places
    <2>2. CASE pc' = "done" /\ UNCHANGED <<kind, rows, seen, updates, creates>>
      BY <1>8, <2>2 DEF ReadAudit, TypeOK, Places
    <2>3. CASE /\ updates' = AuditUpdates(rows, audit) /\ creates' = AuditCreates(rows, audit)
               /\ pc' = "write_audit" /\ UNCHANGED <<kind, rows, seen>>
      BY <1>8, <2>3, PlansType DEF ReadAudit, TypeOK, Places
    <2> QED
      BY <1>8, <2>1, <2>2, <2>3 DEF ReadAudit, Goes
  <1>9. CASE ReadVerdicts
    <2>1. CASE Over
      BY <1>9, <2>1, OverEffect DEF ReadVerdicts, TypeOK, Kinds, Places
    <2>2. CASE ~Over
      BY <1>9, <2>2 DEF ReadVerdicts, Goes, TypeOK, Places
    <2> QED
      BY <2>1, <2>2
  <1>10. CASE WriteBack
    <2>1. WrittenBack(db, seen) \in [Keys -> Stored]
      BY StoresType DEF TypeOK
    <2> QED
      BY <1>10, <2>1 DEF WriteBack, Goes, TypeOK, Places
  <1>11. CASE Finish
    BY <1>11, OverEffect DEF Finish, TypeOK, Kinds, Places
  <1>12. CASE Stop
    BY <1>12, OverEffect, MishapEffect DEF Stop, TypeOK, Kinds, Places
  <1>13. CASE AnswerLost
    <2>1. faults' \in 0 .. MaxFaults
      BY <1>13, MishapEffect DEF AnswerLost
    <2>2. CASE Writing /\ (\E b \in Batches : Apply(Target, Op, b)) /\ UNCHANGED stored
      <3>1. PICK b \in Batches : Apply(Target, Op, b)
        BY <2>2
      <3>2. b \subseteq Item
        BY BatchesAreLeft DEF TypeOK
      <3>3. main' \in [Keys -> Record] /\ audit' \in [Keys -> Record]
        BY <3>1, <3>2, ApplyEffect
      <3> QED
        BY <1>13, <2>1, <2>2, <3>3, OverEffect DEF AnswerLost, TypeOK, Kinds, Places
    <2>3. CASE pc = "persist" /\ Commit /\ UNCHANGED tables
      BY <1>13, <2>1, <2>3, OverEffect, CommitEffect DEF AnswerLost, TypeOK, Kinds, Places
    <2>4. CASE /\ pc = "write_back" /\ db' = WrittenBack(db, seen)
               /\ UNCHANGED <<tables, quarantine>>
      BY <1>13, <2>1, <2>4, OverEffect, StoresType DEF AnswerLost, TypeOK, Kinds, Places
    <2> QED
      BY <1>13, <2>2, <2>3, <2>4 DEF AnswerLost
  <1>14. CASE WriteLate
    <2>1. PICK b \in Batches : late' = late \cup {[table |-> Target, op |-> Op, items |-> b]}
      BY <1>14 DEF WriteLate
    <2>2. b \subseteq Item /\ Op \in {"update", "create"} /\ Target \in {"main", "audit"}
      BY BatchesAreLeft DEF TypeOK, Target
    <2>3. late' \subseteq Write
      BY <2>1, <2>2 DEF TypeOK, Write
    <2> QED
      BY <1>14, <2>3, OverEffect, MishapEffect DEF WriteLate, TypeOK, Kinds, Places
  <1>15. CASE Land
    <2>1. PICK w \in late : Apply(w.table, w.op, w.items) /\ late' = late \ {w}
      BY <1>15 DEF Land
    <2>2. w.items \subseteq Item
      BY DEF TypeOK, Write
    <2>3. main' \in [Keys -> Record] /\ audit' \in [Keys -> Record]
      BY <2>1, <2>2, ApplyEffect
    <2> QED
      BY <1>15, <2>1, <2>3 DEF Land, TypeOK
  <1>16. CASE ReadManualAsEmpty
    <2>1. TakeManual([k \in Keys |-> {}]) /\ [k \in Keys |-> {}] \in [Keys -> SUBSET Contents]
      BY <1>16 DEF ReadManualAsEmpty
    <2> QED
      BY <1>16, <2>1, TakeEffect, MishapEffect DEF ReadManualAsEmpty, TypeOK
  <1>17. ASSUME NEW k \in Keys, NEW c \in SUBSET Contents, Export(k, c) \/ Register(k, c)
         PROVE  TypeOK'
    BY <1>17, SyncConstants DEF Export, Register, TypeOK
  <1>18. ASSUME NEW k \in Keys, NEW v \in Rulings, Rule(k, v) PROVE TypeOK'
    <2>1. [copies |-> audit[k].copies, src |-> audit[k].src, val |-> audit[k].val,
           verdict |-> v] \in Record
      BY SyncConstants DEF TypeOK, Record, Verdicts
    <2>2. audit' \in [Keys -> Record]
      BY <1>18, <2>1 DEF Rule, TypeOK
    <2>3. ruled' \in [Keys -> SUBSET Rulings]
      BY <1>18 DEF Rule, TypeOK
    <2> QED
      BY <1>18, <2>2, <2>3 DEF Rule, TypeOK
  <1>19. CASE UNCHANGED vars
    BY <1>19 DEF vars, TypeOK
  <1> QED
    BY <1>1, <1>2, <1>3, <1>4, <1>5, <1>6, <1>7, <1>8, <1>9, <1>10, <1>11, <1>12, <1>13,
       <1>14, <1>15, <1>16, <1>17, <1>18, <1>19 DEF Next, Step

\* The variables of the passes, tables and stores stay in their types.
THEOREM TypeCorrect == Spec => []TypeOK
  BY InitTyped, NextTyped, PTL DEF Spec
-----------------------------------------------------------------------------
(* Where a pass can be, and what it has in hand there. *)

Empty(rs) == \A k \in Keys : ~Present(rs[k])

Placed ==
    /\ pc = "idle" => kind = "full"
    /\ pc = "sheet" => kind \in {"import", "full"}
    /\ kind = "import" => pc \in {"sheet", "persist", "done"}
    /\ kind = "review" => pc \in {"audit", "write_back", "done"}
    /\ pc = "write_back" => kind = "review"
    /\ pc \in {"idle", "sheet"} \/ kind = "review" \/ (kind = "manual" /\ pc = "manual") => Empty(rows)
    /\ kind = "manual" => \A k \in Keys : rows[k].src # "sheet"
    /\ ~Writing => updates = {} /\ creates = {}

LEMMA OverPlaced ==
    ASSUME TypeOK, Over
    PROVE  Placed'
  <1>1. \A k \in Keys : ~Present(rows'[k])
    BY OverEffect DEF Present, NoRow
  <1> QED
    BY <1>1, OverEffect DEF Placed, Empty, Writing

LEMMA RowOfSrc ==
    ASSUME NEW contents, NEW src
    PROVE  /\ RowOf(contents, src).src \in {src, "none"}
           /\ src # "none" => (Present(RowOf(contents, src)) <=> contents # {})
  BY DEF RowOf, NoRow, Present

LEMMA TakePlaced ==
    ASSUME TypeOK, Placed, pc = "manual",
           NEW registered \in [Keys -> SUBSET Contents], TakeManual(registered)
    PROVE  Placed'
  <1>1. CASE Over
    BY <1>1, OverPlaced
  <1>2. CASE /\ rows' = Merged(rows, registered)
             /\ pc' = IF kind = "full" THEN "persist" ELSE "main"
             /\ UNCHANGED <<kind, seen, updates, creates>>
    <2>1. ASSUME kind = "manual", NEW k \in Keys PROVE rows'[k].src # "sheet"
      <3>1. rows[k].src # "sheet"
        BY <2>1 DEF Placed
      <3> QED
        BY <1>2, <3>1, MergedAt, RowOfSrc DEF TypeOK
    <2> QED
      BY <1>2, <2>1 DEF Placed, Writing, TypeOK, Kinds
  <1> QED
    BY <1>1, <1>2 DEF TakeManual, Goes

LEMMA NextPlaced == TypeOK /\ Placed /\ [Next]_vars => Placed'
  <1> SUFFICES ASSUME TypeOK, Placed, [Next]_vars PROVE Placed'
    OBVIOUS
  <1>0. CASE UNCHANGED <<kind, pc, rows, updates, creates>>
    BY <1>0 DEF Placed, Writing, Empty
  <1>1. ASSUME NEW what \in Kinds, Begin(what) PROVE Placed'
    BY <1>1 DEF Begin, Goes, Placed, Writing, Empty, Kinds, Present
  <1>2. CASE ReadSheet
    <2>1. CASE Over
      BY <2>1, OverPlaced
    <2>2. CASE ~Over
      BY <1>2, <2>2 DEF ReadSheet, Goes, Placed, Writing
    <2> QED
      BY <2>1, <2>2
  <1>3. CASE ReadManual
    BY <1>3, TakePlaced DEF ReadManual, TypeOK
  <1>4. CASE ReadMain
    <2>1. CASE Over
      BY <2>1, OverPlaced
    <2>2. CASE /\ kind = "full" /\ pc' = "write_main" /\ UNCHANGED <<kind, rows>>
      BY <1>4, <2>2 DEF Placed, Writing
    <2>3. CASE /\ kind = "manual" /\ pc' = "persist" /\ rows' = Spared(rows, main)
               /\ UNCHANGED <<kind, updates, creates>>
      <3>1. \A k \in Keys : rows'[k].src # "sheet"
        BY <2>3 DEF Placed, Spared, NoRow
      <3> QED
        BY <1>4, <2>3, <3>1 DEF ReadMain, Placed, Writing
    <2> QED
      BY <1>4, <2>1, <2>2, <2>3 DEF ReadMain, Goes
  <1>5. CASE Persist
    BY <1>5 DEF Persist, Goes, Placed, Writing, TypeOK, Kinds
  <1>6. CASE Send
    BY <1>6 DEF Send, Placed, Writing, Empty
  <1>7. CASE WritesDone
    BY <1>7 DEF WritesDone, Goes, Placed, Writing, Left
  <1>8. CASE ReadAudit
    <2>1. CASE Over
      BY <2>1, OverPlaced
    <2>2. CASE ~Over
      BY <1>8, <2>2 DEF ReadAudit, Goes, Placed, Writing, TypeOK, Kinds
    <2> QED
      BY <2>1, <2>2
  <1>9. CASE ReadVerdicts
    <2>1. CASE Over
      BY <2>1, OverPlaced
    <2>2. CASE ~Over
      BY <1>9, <2>2 DEF ReadVerdicts, Goes, Placed, Writing, Empty
    <2> QED
      BY <2>1, <2>2
  <1>10. CASE WriteBack
    BY <1>10 DEF WriteBack, Goes, Placed, Writing, Empty
  <1>11. CASE Finish \/ Stop \/ AnswerLost \/ WriteLate
    BY <1>11, OverPlaced DEF Finish, Stop, AnswerLost, WriteLate
  <1>12. CASE ReadManualAsEmpty
    <2>1. [k \in Keys |-> {}] \in [Keys -> SUBSET Contents]
      OBVIOUS
    <2> QED
      BY <1>12, <2>1, TakePlaced DEF ReadManualAsEmpty
  <1>13. CASE Land
    BY <1>0, <1>13 DEF Land, pass
  <1>14. ASSUME NEW k \in Keys, NEW c \in SUBSET Contents, Export(k, c) \/ Register(k, c)
         PROVE  Placed'
    BY <1>0, <1>14 DEF Export, Register, pass
  <1>15. ASSUME NEW k \in Keys, NEW v \in Rulings, Rule(k, v) PROVE Placed'
    BY <1>0, <1>15 DEF Rule, pass
  <1>16. CASE UNCHANGED vars
    BY <1>0, <1>16 DEF vars, pass
  <1> QED
    BY <1>1, <1>2, <1>3, <1>4, <1>5, <1>6, <1>7, <1>8, <1>9, <1>10, <1>11, <1>12, <1>13,
       <1>14, <1>15, <1>16 DEF Next, Step
-----------------------------------------------------------------------------
(* The database before the tables. *)

\* What a batch does to the number of records of a key.
LEMMA CopiesAfter ==
    ASSUME NEW table \in [Keys -> Record], NEW op, NEW items \in SUBSET Item, NEW k \in Keys
    PROVE  /\ (op = "create" /\ \E i \in items : i.key = k) =>
                  Landed(table, op, items)[k].copies = table[k].copies + 1
           /\ ~(op = "create" /\ \E i \in items : i.key = k) =>
                  Landed(table, op, items)[k].copies = table[k].copies
  <1>1. table[k] \in Record
    OBVIOUS
  <1>2. \A i \in items : Created(table[k], i).copies = table[k].copies + 1
    BY <1>1 DEF Created, Record
  <1>3. \A i \in items : Patched(table[k], i).copies = table[k].copies
    BY DEF Patched
  <1> QED
    BY <1>1, <1>2, <1>3, LandedAt

Has(table, k) == table[k].copies > 0
InStore(k)    == db[k].src # "none" \/ k \in quarantine

\* What may be created in a table before the pass that does it is over.
Creatable(table, items) ==
    \A i \in items : IF table = "main" THEN InStore(i.key) ELSE Has(main, i.key)

Backed ==
    /\ TablesAreBacked
    /\ \A w \in late : w.op = "create" => Creatable(w.table, w.items)
    /\ Writing => Creatable(Target, creates)
    /\ pc = "main" /\ kind = "full" => \A k \in Keys : Present(rows[k]) => InStore(k)
    /\ pc = "persist" /\ kind = "manual" => \A k \in Keys : Has(seen, k) => Has(main, k)
    /\ pc = "write_main" =>
           \A k \in Keys : Present(rows[k]) => Has(main, k) \/ \E i \in creates : i.key = k
    /\ pc \in {"audit", "write_audit"} => \A k \in Keys : Present(rows[k]) => Has(main, k)

\* No step but a batch makes a record, no step takes one away or empties a store.
LEMMA ApplyBacks ==
    ASSUME TypeOK, Backed, NEW table \in {"main", "audit"}, NEW op, NEW items \in SUBSET Item,
           op = "create" => Creatable(table, items),
           Apply(table, op, items), UNCHANGED stored
    PROVE  /\ TablesAreBacked'
           /\ \A k \in Keys : InStore(k) => InStore(k)'
           /\ \A k \in Keys : Has(main, k) => Has(main, k)'
           /\ op = "create" /\ table = "main" => \A i \in items : Has(main, i.key)'
  <1>1. \A k \in Keys : InStore(k)' <=> InStore(k)
    BY DEF InStore, stored
  <1>2. \A k \in Keys : main[k] \in Record /\ audit[k] \in Record
    BY DEF TypeOK
  <1>3. \A k \in Keys : main[k].copies \in Nat /\ audit[k].copies \in Nat
    BY <1>2 DEF Record
  <1>4. \A i \in items : i.key \in Keys
    BY DEF Item
  <1>5. CASE table = "main"
    <2>1. main' = Landed(main, op, items) /\ audit' = audit
      BY <1>5 DEF Apply
    <2>2. \A k \in Keys : \/ main'[k].copies = main[k].copies
                          \/ main'[k].copies = main[k].copies + 1 /\ InStore(k)
      BY <2>1, <1>5, CopiesAfter DEF Creatable, TypeOK
    <2>3. op = "create" => \A i \in items : main'[i.key].copies = main[i.key].copies + 1
      BY <2>1, <1>4, CopiesAfter DEF TypeOK
    <2> QED
      BY <2>1, <2>2, <2>3, <1>1, <1>3, <1>4 DEF Backed, TablesAreBacked, Has, InStore
  <1>6. CASE table = "audit"
    <2>1. audit' = Landed(audit, op, items) /\ main' = main
      BY <1>6 DEF Apply
    <2>2. \A k \in Keys : \/ audit'[k].copies = audit[k].copies
                          \/ audit'[k].copies = audit[k].copies + 1 /\ Has(main, k)
      BY <2>1, <1>6, CopiesAfter DEF Creatable, TypeOK
    <2> QED
      BY <2>1, <2>2, <1>1, <1>3, <1>6 DEF Backed, TablesAreBacked, Has, InStore
  <1> QED
    BY <1>5, <1>6

LEMMA CommitBacks ==
    ASSUME TypeOK, Commit
    PROVE  /\ \A k \in Keys : InStore(k) => InStore(k)'
           /\ \A k \in Keys : Present(rows[k]) => InStore(k)'
  <1>1. ASSUME NEW k \in Keys
        PROVE  (InStore(k) => InStore(k)') /\ (Present(rows[k]) => InStore(k)')
    <2>1. CASE Present(rows[k]) /\ rows[k].timed
      <3>1. db'[k] = Kept(db[k], rows[k])
        BY <2>1 DEF Commit, Persisted
      <3> QED
        BY <2>1, <3>1 DEF Kept, Present, InStore
    <2>2. CASE Present(rows[k]) /\ ~rows[k].timed
      BY <2>2 DEF Commit, SetAside, InStore
    <2>3. CASE ~Present(rows[k])
      BY <2>3 DEF Commit, SetAside, Persisted, InStore
    <2> QED
      BY <2>1, <2>2, <2>3
  <1> QED
    BY <1>1

LEMMA WriteBackBacks ==
    ASSUME db' = WrittenBack(db, seen), UNCHANGED quarantine
    PROVE  \A k \in Keys : InStore(k) => InStore(k)'
  BY DEF WrittenBack, InStore

\* While the tables rest and no store is emptied, an idle pass keeps all of it.
LEMMA IdleBacked ==
    ASSUME Backed, pc' = "idle", UNCHANGED <<late, tables>>,
           \A k \in Keys : InStore(k) => InStore(k)',
           TypeOK
    PROVE  Backed'
  <1>1. \A w \in late : \A i \in w.items : i.key \in Keys
    BY DEF TypeOK, Write, Item
  <1>2. TablesAreBacked'
    BY DEF Backed, TablesAreBacked, InStore, tables
  <1>3. \A w \in late' : w.op = "create" => Creatable(w.table, w.items)'
    BY <1>1 DEF Backed, Creatable, Has, tables
  <1> QED
    BY <1>2, <1>3 DEF Backed, Writing

\* What the plans create.
LEMMA PlansCreate ==
    ASSUME NEW rs, NEW table
    PROVE  /\ \A i \in MainCreates(rs, table) \cup AuditCreates(rs, table) :
                  i.key \in Keys /\ Present(rs[i.key]) /\ table[i.key].copies = 0
           /\ \A k \in Keys : Present(rs[k]) /\ table[k].copies = 0 =>
                  /\ \E i \in MainCreates(rs, table) : i.key = k
                  /\ \E i \in AuditCreates(rs, table) : i.key = k
  <1>1. \A k \in Keys : k \in New(rs, table) <=> Present(rs[k]) /\ table[k].copies = 0
    BY DEF New
  <1>2. ASSUME NEW k \in New(rs, table)
        PROVE  /\ [key |-> k, verdict |-> "none", src |-> rs[k].src, val |-> rs[k].val]
                      \in MainCreates(rs, table)
               /\ AuditItem(k, rs[k]) \in AuditCreates(rs, table)
    BY DEF MainCreates, AuditCreates
  <1>3. \A k \in New(rs, table) : AuditItem(k, rs[k]).key = k
    BY DEF AuditItem
  <1>4. \A i \in MainCreates(rs, table) \cup AuditCreates(rs, table) : i.key \in New(rs, table)
    BY <1>3 DEF MainCreates, AuditCreates
  <1>5. New(rs, table) \subseteq Keys
    BY DEF New
  <1>6. \A k \in New(rs, table) :
            /\ \E i \in MainCreates(rs, table) : i.key = k
            /\ \E i \in AuditCreates(rs, table) : i.key = k
    BY <1>2, <1>3
  <1> QED
    BY <1>1, <1>4, <1>5, <1>6

LEMMA NextBacked == TypeOK /\ Placed /\ Backed /\ [Next]_vars => Backed'
  <1> SUFFICES ASSUME TypeOK, Placed, Backed, [Next]_vars PROVE Backed'
    OBVIOUS
  <1>0. \A k \in Keys : main[k].copies \in Nat /\ audit[k].copies \in Nat
    BY DEF TypeOK, Record
  <1>k. /\ \A w \in late : \A i \in w.items : i.key \in Keys
        /\ \A i \in updates \cup creates : i.key \in Keys
    BY DEF TypeOK, Write, Item
  <1>s. ASSUME UNCHANGED <<tables, stored, pass, late>> PROVE Backed'
    BY <1>s DEF Backed, TablesAreBacked, Creatable, Has, InStore, Writing, Target,
        tables, stored, pass
  <1>o. ASSUME Over, UNCHANGED <<late, tables, stored>> PROVE Backed'
    <2>1. \A k \in Keys : InStore(k) => InStore(k)'
      BY <1>o DEF InStore, stored
    <2> QED
      BY <1>o, <2>1, OverEffect, IdleBacked
  \* The same tables and stores, and a pass that is not writing yet.
  <1>r. ASSUME UNCHANGED <<late, tables, stored>>,
               pc' \in {"sheet", "manual", "persist", "write_back", "done"}
                   \/ (pc' = "main" /\ kind' # "full")
                   \/ (pc' = "audit" /\ Empty(rows)'),
               pc' = "persist" => kind' # "manual"
        PROVE  Backed'
    BY <1>r DEF Backed, TablesAreBacked, Creatable, Has, InStore, Writing, Empty, tables, stored
  <1>1. ASSUME NEW what \in Kinds, Begin(what) PROVE Backed'
    <2>1. Empty(rows) /\ rows' = rows
      BY <1>1 DEF Begin, Placed
    <2> QED
      BY <1>1, <2>1, <1>r DEF Begin, Goes, Empty
  <1>2. CASE ReadSheet
    <2>1. CASE Over
      BY <1>2, <2>1, <1>o DEF ReadSheet
    <2>2. CASE ~Over
      BY <1>2, <2>2, <1>r DEF ReadSheet, Goes, Placed
    <2> QED
      BY <2>1, <2>2
  <1>3. ASSUME NEW registered, pc = "manual", TakeManual(registered),
               UNCHANGED <<late, tables, stored>>
        PROVE  Backed'
    <2>1. CASE Over
      BY <1>3, <2>1, <1>o
    <2>2. CASE ~Over
      BY <1>3, <2>2, <1>r DEF TakeManual, Goes
    <2> QED
      BY <2>1, <2>2
  <1>4. CASE ReadMain
    <2>1. CASE Over
      BY <1>4, <2>1, <1>o DEF ReadMain
    <2>2. CASE /\ kind = "full" /\ creates' = MainCreates(rows, main)
               /\ pc' = "write_main" /\ UNCHANGED <<kind, rows>>
      <3>1. \A k \in Keys : Present(rows[k]) => InStore(k)
        BY <1>4, <2>2 DEF Backed, ReadMain
      <3>2. /\ \A i \in creates' : i.key \in Keys /\ Present(rows[i.key])
            /\ \A k \in Keys : Present(rows[k]) =>
                   main[k].copies > 0 \/ \E i \in creates' : i.key = k
        BY <2>2, <1>0, PlansCreate
      <3> QED
        BY <1>4, <2>2, <3>1, <3>2
        DEF ReadMain, Backed, TablesAreBacked, Creatable, Has, InStore, Writing, Target,
            tables, stored
    <2>3. CASE kind = "manual" /\ kind' = kind /\ seen' = main /\ pc' = "persist"
      BY <1>4, <2>3
      DEF ReadMain, Backed, TablesAreBacked, Creatable, Has, InStore, Writing, tables, stored
    <2> QED
      BY <1>4, <2>1, <2>2, <2>3 DEF ReadMain, Goes
  <1>5. CASE Persist
    <2>1. /\ \A k \in Keys : InStore(k) => InStore(k)'
          /\ \A k \in Keys : Present(rows[k]) => InStore(k)'
      BY <1>5, CommitBacks DEF Persist
    <2>2. /\ UNCHANGED <<main, audit, late, rows, kind>>
          /\ pc' = IF kind = "import" THEN "done" ELSE IF kind = "full" THEN "main" ELSE "write_main"
      BY <1>5 DEF Persist, Goes, tables
    <2>3. TablesAreBacked'
      BY <2>1, <2>2 DEF Backed, TablesAreBacked, InStore
    <2>4. \A w \in late' : w.op = "create" => Creatable(w.table, w.items)'
      BY <2>1, <2>2, <1>k DEF Backed, Creatable, Has
    <2>5. CASE kind = "manual"
      <3>1. creates' = MainCreates(rows, seen) /\ pc' = "write_main"
        BY <1>5, <2>2, <2>5 DEF Persist
      <3>2. \A k \in Keys : seen[k].copies > 0 => main[k].copies > 0
        BY <1>5, <2>5 DEF Persist, Backed, Has
      <3>3. \A k \in Keys : seen[k].copies \in Nat
        BY DEF TypeOK, Record
      <3>4. /\ \A i \in creates' : i.key \in Keys /\ Present(rows[i.key])
            /\ \A k \in Keys : Present(rows[k]) =>
                   main[k].copies > 0 \/ \E i \in creates' : i.key = k
        BY <3>1, <3>2, <3>3, PlansCreate
      <3> QED
        BY <2>1, <2>2, <2>3, <2>4, <3>1, <3>4 DEF Backed, Creatable, Has, Writing, Target
    <2>6. CASE kind # "manual"
      <3>1. kind \in {"import", "full"}
        BY <1>5, <2>6 DEF Persist, Placed, TypeOK, Kinds
      <3> QED
        BY <2>1, <2>2, <2>3, <2>4, <3>1 DEF Backed, Writing
    <2> QED
      BY <2>5, <2>6
  <1>6. CASE Send
    <2>1. PICK b \in Batches : /\ Apply(Target, Op, b)
                               /\ updates' = updates \ b
                               /\ creates' = IF updates # {} THEN creates ELSE creates \ b
      BY <1>6 DEF Send
    <2>2. /\ Writing /\ UNCHANGED <<stored, kind, pc, rows, seen, late>>
          /\ Target \in {"main", "audit"} /\ b \subseteq Item
          /\ Op = "create" => b \subseteq creates
          /\ Op = IF updates # {} THEN "update" ELSE "create"
      BY <1>6, BatchesAreLeft DEF Send, Target, TypeOK, Op
    <2>3. Op = "create" => Creatable(Target, b)
      BY <2>2 DEF Backed, Creatable
    <2>4. /\ TablesAreBacked'
          /\ \A k \in Keys : InStore(k) => InStore(k)'
          /\ \A k \in Keys : Has(main, k) => Has(main, k)'
          /\ Op = "create" /\ Target = "main" => \A i \in b : Has(main, i.key)'
      BY <2>1, <2>2, <2>3, ApplyBacks
    <2>5. \A w \in late' : w.op = "create" => Creatable(w.table, w.items)'
      BY <2>2, <2>4, <1>k DEF Backed, Creatable
    <2>6. Writing' /\ Target' = Target /\ creates' \subseteq creates
      BY <2>1, <2>2 DEF Writing, Target
    <2>7. Creatable(Target, creates)'
      BY <2>2, <2>4, <2>6, <1>k DEF Backed, Creatable
    <2>8. ASSUME pc = "write_main", NEW k \in Keys, Present(rows[k])
          PROVE  Has(main, k)' \/ \E i \in creates' : i.key = k
      <3>1. Has(main, k) \/ \E i \in creates : i.key = k
        BY <2>8 DEF Backed
      <3>2. Target = "main"
        BY <2>8 DEF Target
      <3> QED
        BY <2>1, <2>2, <2>4, <3>1, <3>2
    <2> QED
      BY <2>2, <2>4, <2>5, <2>6, <2>7, <2>8 DEF Backed, Writing
  <1>7. CASE WritesDone
    <2>1. updates = {} /\ creates = {} /\ Writing
      BY <1>7 DEF WritesDone, Left
    <2>2. CASE pc = "write_main"
      <3>1. \A k \in Keys : Present(rows[k]) => Has(main, k)
        BY <2>1, <2>2 DEF Backed
      <3> QED
        BY <1>7, <2>2, <3>1
        DEF WritesDone, Goes, Backed, TablesAreBacked, Creatable, Has, InStore, Writing,
            tables, stored
    <2>3. CASE pc # "write_main"
      BY <1>7, <2>3, <1>r DEF WritesDone, Goes
    <2> QED
      BY <2>2, <2>3
  <1>8. CASE ReadAudit
    <2>1. CASE Over
      BY <1>8, <2>1, <1>o DEF ReadAudit
    <2>2. CASE pc' = "done"
      BY <1>8, <2>2, <1>r DEF ReadAudit
    <2>3. CASE /\ creates' = AuditCreates(rows, audit) /\ pc' = "write_audit"
               /\ UNCHANGED <<kind, rows>>
      <3>1. \A k \in Keys : Present(rows[k]) => Has(main, k)
        BY <1>8 DEF Backed, ReadAudit
      <3>2. \A i \in creates' : i.key \in Keys /\ Present(rows[i.key])
        BY <2>3, PlansCreate
      <3> QED
        BY <1>8, <2>3, <3>1, <3>2
        DEF ReadAudit, Backed, TablesAreBacked, Creatable, Has, InStore, Writing, Target,
            tables, stored
    <2> QED
      BY <1>8, <2>1, <2>2, <2>3 DEF ReadAudit, Goes
  <1>9. CASE ReadVerdicts
    <2>1. CASE Over
      BY <1>9, <2>1, <1>o DEF ReadVerdicts
    <2>2. CASE ~Over
      BY <1>9, <2>2, <1>r DEF ReadVerdicts, Goes
    <2> QED
      BY <2>1, <2>2
  <1>10. CASE WriteBack
    <2>1. \A k \in Keys : InStore(k) => InStore(k)'
      BY <1>10, WriteBackBacks DEF WriteBack
    <2>2. UNCHANGED <<main, audit, late>> /\ pc' = "done"
      BY <1>10 DEF WriteBack, Goes, tables
    <2>3. TablesAreBacked'
      BY <2>1, <2>2 DEF Backed, TablesAreBacked, InStore
    <2>4. \A w \in late' : w.op = "create" => Creatable(w.table, w.items)'
      BY <2>1, <2>2, <1>k DEF Backed, Creatable, Has
    <2> QED
      BY <2>2, <2>3, <2>4 DEF Backed, Writing
  <1>11. CASE Finish \/ Stop
    BY <1>11, <1>o DEF Finish, Stop
  <1>12. CASE AnswerLost
    <2>1. Over /\ late' = late
      BY <1>12 DEF AnswerLost
    <2>2. CASE Writing /\ (\E b \in Batches : Apply(Target, Op, b)) /\ UNCHANGED stored
      <3>1. PICK b \in Batches : Apply(Target, Op, b)
        BY <2>2
      <3>2. /\ Target \in {"main", "audit"} /\ b \subseteq Item
            /\ Op = "create" => Creatable(Target, b)
        BY <2>2, BatchesAreLeft DEF Target, TypeOK, Backed, Creatable
      <3>3. /\ TablesAreBacked'
            /\ \A k \in Keys : InStore(k) => InStore(k)'
            /\ \A k \in Keys : Has(main, k) => Has(main, k)'
        BY <2>2, <3>1, <3>2, ApplyBacks
      <3>4. \A w \in late' : w.op = "create" => Creatable(w.table, w.items)'
        BY <2>1, <3>3, <1>k DEF Backed, Creatable
      <3> QED
        BY <2>1, <3>3, <3>4, OverEffect DEF Backed, Writing
    <2>3. CASE pc = "persist" /\ Commit /\ UNCHANGED tables
      BY <2>1, <2>3, CommitBacks, OverEffect, IdleBacked
    <2>4. CASE db' = WrittenBack(db, seen) /\ UNCHANGED <<tables, quarantine>>
      BY <2>1, <2>4, WriteBackBacks, OverEffect, IdleBacked
    <2> QED
      BY <1>12, <2>2, <2>3, <2>4 DEF AnswerLost
  <1>13. CASE WriteLate
    <2>1. PICK b \in Batches : late' = late \cup {[table |-> Target, op |-> Op, items |-> b]}
      BY <1>13 DEF WriteLate
    <2>2. /\ Writing /\ Over /\ UNCHANGED <<main, audit, stored>>
          /\ Op = "create" => Creatable(Target, b)
      BY <1>13, BatchesAreLeft DEF WriteLate, Backed, Creatable, tables
    <2>3. \A w \in late' : w.op = "create" => Creatable(w.table, w.items)
      BY <2>1, <2>2 DEF Backed
    <2>4. \A w \in late' : w.op = "create" => Creatable(w.table, w.items)'
      BY <2>2, <2>3 DEF Creatable, Has, InStore, stored
    <2> QED
      BY <2>2, <2>4, OverEffect DEF Backed, TablesAreBacked, InStore, Writing, stored
  <1>14. CASE Land
    <2>1. PICK w \in late : Apply(w.table, w.op, w.items) /\ late' = late \ {w}
      BY <1>14 DEF Land
    <2>2. /\ w.items \subseteq Item /\ w.table \in {"main", "audit"}
          /\ w.op = "create" => Creatable(w.table, w.items)
          /\ UNCHANGED <<stored, kind, pc, rows, seen, updates, creates>>
      BY <1>14 DEF Land, TypeOK, Write, Backed, pass
    <2>3. /\ TablesAreBacked'
          /\ \A k \in Keys : InStore(k) => InStore(k)'
          /\ \A k \in Keys : Has(main, k) => Has(main, k)'
      BY <2>1, <2>2, ApplyBacks
    <2>4. \A x \in late' : x.op = "create" => Creatable(x.table, x.items)'
      BY <2>1, <2>3, <1>k DEF Backed, Creatable
    <2>5. Writing' = Writing /\ Target' = Target
      BY <2>2 DEF Writing, Target
    <2>6. Writing => Creatable(Target, creates)'
      BY <2>2, <2>3, <2>5, <1>k DEF Backed, Creatable
    <2> QED
      BY <2>2, <2>3, <2>4, <2>5, <2>6 DEF Backed, Has
  <1>15. ASSUME NEW k \in Keys, NEW c \in SUBSET Contents, Export(k, c) \/ Register(k, c)
         PROVE  Backed'
    BY <1>15, <1>s DEF Export, Register
  <1>16. ASSUME NEW k \in Keys, NEW v \in Rulings, Rule(k, v) PROVE Backed'
    <2>1. /\ main' = main /\ UNCHANGED <<stored, pass, late>>
          /\ \A j \in Keys : audit'[j].copies = audit[j].copies
      BY <1>16 DEF Rule, TypeOK
    <2> QED
      BY <2>1 DEF Backed, TablesAreBacked, Creatable, Has, InStore, Writing, Target, stored, pass
  <1>17. CASE UNCHANGED vars
    BY <1>17, <1>s DEF vars
  <1> QED
    BY <1>1, <1>2, <1>3, <1>4, <1>5, <1>6, <1>7, <1>8, <1>9, <1>10, <1>11, <1>12, <1>13,
       <1>14, <1>15, <1>16, <1>17 DEF Next, Step, ReadManual, ReadManualAsEmpty

(***************************************************************************)
(* Whatever fails, and whatever lands late: what is in the audit table is  *)
(* in the main table, and what is in the main table is in the database or  *)
(* set aside.                                                              *)
(***************************************************************************)
THEOREM DatabaseFirst == Spec => []TablesAreBacked
  <1>1. Init => Placed /\ Backed
    BY DEF Init, Placed, Backed, TablesAreBacked, Writing, Empty, Present, NoRow, NoRecord, NotStored
  <1> QED
    BY <1>1, InitTyped, NextTyped, NextPlaced, NextBacked, PTL DEF Spec, Backed
-----------------------------------------------------------------------------
(* One record for a key. *)

Table(t) == IF t = "main" THEN main ELSE audit

NotThere(t, items) == \A i \in items : Table(t)[i.key].copies = 0
OneEach(items)     == \A i, j \in items : i.key = j.key => i = j

Single ==
    /\ KeysStayUnique
    /\ ~overtaken =>
        /\ pc # "idle" => late = {}
        /\ \A w, x \in late : w = x
        /\ \A w \in late : w.op = "create" => NotThere(w.table, w.items)
        /\ Writing => NotThere(Target, creates) /\ OneEach(creates)
        /\ pc = "persist" /\ kind = "manual" => seen = main

LEMMA CreatesOneEach ==
    ASSUME NEW rs, NEW table
    PROVE  OneEach(MainCreates(rs, table)) /\ OneEach(AuditCreates(rs, table))
  BY DEF OneEach, MainCreates, AuditCreates, AuditItem

\* A batch of creations for keys that are not there gives each one record.
LEMMA ApplySingle ==
    ASSUME TypeOK, Single, ~overtaken, UNCHANGED overtaken,
           NEW t \in {"main", "audit"}, NEW op, NEW items \in SUBSET Item,
           op = "create" => NotThere(t, items),
           Apply(t, op, items)
    PROVE  /\ KeysStayUnique'
           /\ op # "create" => \A u \in {"main", "audit"}, k \in Keys :
                                   Table(u)'[k].copies = Table(u)[k].copies
           /\ \A k \in Keys : (\A i \in items : i.key # k) =>
                                   Table(t)'[k].copies = Table(t)[k].copies
  <1>1. \A k \in Keys : main[k].copies \in {0, 1} /\ audit[k].copies \in {0, 1}
    <2>1. \A k \in Keys : main[k].copies \in Nat /\ audit[k].copies \in Nat
      BY DEF TypeOK, Record
    <2>2. \A k \in Keys : ~(main[k].copies > 1) /\ ~(audit[k].copies > 1)
      BY DEF Single, KeysStayUnique, Ambiguous
    <2> QED
      BY <2>1, <2>2
  <1>2. CASE t = "main"
    <2>1. main' = Landed(main, op, items) /\ audit' = audit
      BY <1>2 DEF Apply
    <2>2. \A k \in Keys :
            /\ main'[k].copies = main[k].copies \/ (main[k].copies = 0 /\ main'[k].copies = 1)
            /\ op # "create" \/ (\A i \in items : i.key # k) => main'[k].copies = main[k].copies
      BY <1>2, <2>1, CopiesAfter DEF NotThere, Table, TypeOK
    <2> QED
      BY <1>1, <1>2, <2>1, <2>2 DEF KeysStayUnique, Ambiguous, Table
  <1>3. CASE t = "audit"
    <2>1. audit' = Landed(audit, op, items) /\ main' = main
      BY <1>3 DEF Apply
    <2>2. \A k \in Keys :
            /\ audit'[k].copies = audit[k].copies \/ (audit[k].copies = 0 /\ audit'[k].copies = 1)
            /\ op # "create" \/ (\A i \in items : i.key # k) => audit'[k].copies = audit[k].copies
      BY <1>3, <2>1, CopiesAfter DEF NotThere, Table, TypeOK
    <2> QED
      BY <1>1, <1>3, <2>1, <2>2 DEF KeysStayUnique, Ambiguous, Table
  <1> QED
    BY <1>2, <1>3

LEMMA NextSingle == TypeOK /\ Placed /\ Single /\ [Next]_vars => Single'
  <1> SUFFICES ASSUME TypeOK, Placed, Single, [Next]_vars, ~overtaken' PROVE Single'
    BY DEF Single, KeysStayUnique
  <1>0. ~overtaken
    BY DEF Next, Step, Begin, ReadSheet, ReadManual, ReadMain, Persist, Send, WritesDone, ReadAudit,
           ReadVerdicts, WriteBack, Finish, Stop, AnswerLost, WriteLate, Land, ReadManualAsEmpty,
           Export, Register, Rule, history, vars
  <1>k. /\ \A w \in late : \A i \in w.items : i.key \in Keys
        /\ \A i \in updates \cup creates : i.key \in Keys
    BY DEF TypeOK, Write, Item
  \* The same tables, and a pass that is not writing.
  <1>r. ASSUME UNCHANGED <<tables, late>>, pc # "idle" \/ late = {},
               pc' \notin {"write_main", "write_audit"},
               pc' = "persist" /\ kind' = "manual" => seen' = main
        PROVE  Single'
    BY <1>0, <1>r DEF Single, KeysStayUnique, Ambiguous, NotThere, Table, Writing, tables
  <1>o. ASSUME Over, pc # "idle", UNCHANGED <<late, tables>> PROVE Single'
    BY <1>o, <1>r, OverEffect
  <1>1. ASSUME NEW what \in Kinds, Begin(what) PROVE Single'
    <2>1. late = {}
      BY <1>1 DEF Begin
    <2> QED
      BY <1>1, <2>1, <1>r DEF Begin, Goes
  <1>2. CASE ReadSheet
    <2>1. CASE Over
      BY <1>2, <2>1, <1>o DEF ReadSheet
    <2>2. CASE ~Over
      BY <1>2, <2>2, <1>r DEF ReadSheet, Goes, Placed
    <2> QED
      BY <2>1, <2>2
  <1>3. ASSUME NEW registered, pc = "manual", TakeManual(registered), UNCHANGED <<late, tables>>
        PROVE  Single'
    <2>1. CASE Over
      BY <1>3, <2>1, <1>o
    <2>2. CASE ~Over
      BY <1>3, <2>2, <1>r DEF TakeManual, Goes
    <2> QED
      BY <2>1, <2>2
  <1>4. CASE ReadMain
    <2>1. CASE Over
      BY <1>4, <2>1, <1>o DEF ReadMain
    <2>2. CASE creates' = MainCreates(rows, main) /\ pc' = "write_main"
      <3>1. (\A i \in creates' : main[i.key].copies = 0) /\ OneEach(creates')
        BY <2>2, PlansCreate, CreatesOneEach
      <3> QED
        BY <1>0, <1>4, <2>2, <3>1
        DEF ReadMain, Single, KeysStayUnique, Ambiguous, NotThere, OneEach, Table, Writing, Target,
            tables
    <2>3. CASE seen' = main /\ pc' = "persist"
      BY <1>4, <2>3, <1>r DEF ReadMain
    <2> QED
      BY <1>4, <2>1, <2>2, <2>3 DEF ReadMain, Goes
  <1>5. CASE Persist
    <2>1. UNCHANGED <<tables, late>> /\ pc # "idle"
      BY <1>5 DEF Persist
    <2>2. CASE kind = "manual"
      <3>1. creates' = MainCreates(rows, main) /\ pc' = "write_main"
        BY <1>0, <1>5, <2>2 DEF Persist, Goes, Single
      <3>2. (\A i \in creates' : main[i.key].copies = 0) /\ OneEach(creates')
        BY <3>1, PlansCreate, CreatesOneEach
      <3> QED
        BY <1>0, <2>1, <3>1, <3>2
        DEF Single, KeysStayUnique, Ambiguous, NotThere, OneEach, Table, Writing, Target, tables
    <2>3. CASE kind # "manual"
      <3>1. kind \in {"import", "full"}
        BY <1>5, <2>3 DEF Persist, Placed, TypeOK, Kinds
      <3> QED
        BY <1>5, <2>1, <3>1, <1>r DEF Persist, Goes
    <2> QED
      BY <2>2, <2>3
  <1>6. CASE Send
    <2>1. PICK b \in Batches : /\ Apply(Target, Op, b)
                               /\ updates' = updates \ b
                               /\ creates' = IF updates # {} THEN creates ELSE creates \ b
      BY <1>6 DEF Send
    <2>2. /\ Writing /\ UNCHANGED <<pc, kind, late, overtaken>> /\ late = {}
          /\ Target \in {"main", "audit"} /\ Target' = Target /\ b \subseteq Item
          /\ NotThere(Target, creates) /\ OneEach(creates)
      BY <1>0, <1>6, BatchesAreLeft DEF Send, Target, TypeOK, Single, Writing, history
    <2>3. CASE updates # {}
      <3>1. Op = "update" /\ creates' = creates
        BY <2>1, <2>3 DEF Op
      <3>2. /\ KeysStayUnique'
            /\ \A k \in Keys : Table(Target)'[k].copies = Table(Target)[k].copies
        BY <1>0, <2>1, <2>2, <3>1, ApplySingle
      <3>3. NotThere(Target, creates)' /\ OneEach(creates)'
        BY <1>k, <2>2, <3>1, <3>2 DEF NotThere, OneEach
      <3> QED
        BY <2>2, <3>2, <3>3 DEF Single, Writing
    <2>4. CASE updates = {}
      <3>1. Op = "create" /\ creates' = creates \ b /\ b \subseteq creates
        BY <2>1, <2>4, BatchesAreLeft DEF Op
      <3>2. NotThere(Target, b)
        BY <2>2, <3>1 DEF NotThere
      <3>3. /\ KeysStayUnique'
            /\ \A k \in Keys : (\A i \in b : i.key # k) =>
                   Table(Target)'[k].copies = Table(Target)[k].copies
        BY <1>0, <2>1, <2>2, <3>1, <3>2, ApplySingle
      <3>4. \A i \in creates' : \A j \in b : j.key # i.key
        BY <2>2, <3>1 DEF OneEach
      <3>5. NotThere(Target, creates)' /\ OneEach(creates)'
        BY <1>k, <2>2, <3>1, <3>3, <3>4 DEF NotThere, OneEach
      <3> QED
        BY <2>2, <3>3, <3>5 DEF Single, Writing
    <2> QED
      BY <2>3, <2>4
  <1>7. CASE WritesDone
    BY <1>7, <1>r DEF WritesDone, Goes, Writing
  <1>8. CASE ReadAudit
    <2>1. CASE Over
      BY <1>8, <2>1, <1>o DEF ReadAudit
    <2>2. CASE pc' = "done"
      BY <1>8, <2>2, <1>r DEF ReadAudit
    <2>3. CASE creates' = AuditCreates(rows, audit) /\ pc' = "write_audit"
      <3>1. (\A i \in creates' : audit[i.key].copies = 0) /\ OneEach(creates')
        BY <2>3, PlansCreate, CreatesOneEach
      <3> QED
        BY <1>0, <1>8, <2>3, <3>1
        DEF ReadAudit, Single, KeysStayUnique, Ambiguous, NotThere, OneEach, Table, Writing, Target,
            tables
    <2> QED
      BY <1>8, <2>1, <2>2, <2>3 DEF ReadAudit, Goes
  <1>9. CASE ReadVerdicts
    <2>1. CASE Over
      BY <1>9, <2>1, <1>o DEF ReadVerdicts
    <2>2. CASE ~Over
      BY <1>9, <2>2, <1>r DEF ReadVerdicts, Goes
    <2> QED
      BY <2>1, <2>2
  <1>10. CASE WriteBack
    BY <1>10, <1>r DEF WriteBack, Goes
  <1>11. CASE Finish \/ Stop
    BY <1>11, <1>o DEF Finish, Stop
  <1>12. CASE AnswerLost
    <2>1. Over /\ UNCHANGED <<late, overtaken>>
      BY <1>12 DEF AnswerLost, history
    <2>2. CASE Writing /\ (\E b \in Batches : Apply(Target, Op, b))
      <3>1. PICK b \in Batches : Apply(Target, Op, b)
        BY <2>2
      <3>2. /\ Target \in {"main", "audit"} /\ b \subseteq Item /\ late = {}
            /\ Op = "create" => NotThere(Target, b)
        BY <1>0, <2>2, BatchesAreLeft DEF Target, TypeOK, Single, NotThere, Writing
      <3>3. KeysStayUnique'
        BY <1>0, <2>1, <3>1, <3>2, ApplySingle
      <3> QED
        BY <2>1, <3>2, <3>3, OverEffect DEF Single, Writing
    <2>3. CASE pc \in {"persist", "write_back"} /\ UNCHANGED tables
      BY <2>1, <2>3, <1>o
    <2> QED
      BY <1>12, <2>2, <2>3 DEF AnswerLost
  <1>13. CASE WriteLate
    <2>1. PICK b \in Batches : late' = late \cup {[table |-> Target, op |-> Op, items |-> b]}
      BY <1>13 DEF WriteLate
    <2>2. /\ late = {} /\ Over /\ UNCHANGED <<main, audit, overtaken>>
          /\ Op = "create" => NotThere(Target, b)
      BY <1>0, <1>13, BatchesAreLeft DEF WriteLate, Single, NotThere, Writing, tables, history
    <2>3. \A w \in late' : w = [table |-> Target, op |-> Op, items |-> b]
      BY <2>1, <2>2
    <2>4. \A w \in late' : w.op = "create" => NotThere(w.table, w.items)
      BY <2>2, <2>3
    <2>5. \A w \in late' : w.op = "create" => NotThere(w.table, w.items)'
      BY <2>2, <2>4 DEF NotThere, Table
    <2> QED
      BY <1>0, <2>2, <2>3, <2>5, OverEffect DEF Single, KeysStayUnique, Ambiguous, Writing
  <1>14. CASE Land
    <2>1. PICK w \in late : Apply(w.table, w.op, w.items) /\ late' = late \ {w}
      BY <1>14 DEF Land
    <2>2. /\ w.items \subseteq Item /\ w.table \in {"main", "audit"} /\ late' = {}
          /\ w.op = "create" => NotThere(w.table, w.items)
          /\ pc = "idle" /\ pc' = pc /\ UNCHANGED overtaken
      BY <1>0, <1>14, <2>1 DEF Land, TypeOK, Write, Single, pass, history
    <2>3. KeysStayUnique'
      BY <1>0, <2>1, <2>2, ApplySingle
    <2> QED
      BY <2>2, <2>3 DEF Single, Writing
  <1>15. ASSUME UNCHANGED <<kind, pc, seen, creates, late>>, main' = main,
                \A k \in Keys : audit'[k].copies = audit[k].copies
         PROVE  Single'
    <2>1. \A t, i : i.key \in Keys => Table(t)'[i.key].copies = Table(t)[i.key].copies
      BY <1>15 DEF Table
    <2>2. KeysStayUnique'
      BY <1>0, <1>15 DEF Single, KeysStayUnique, Ambiguous
    <2> QED
      BY <1>0, <1>15, <1>k, <2>1, <2>2 DEF Single, NotThere, OneEach, Table, Writing, Target
  <1>16. ASSUME NEW k \in Keys, NEW c \in SUBSET Contents, Export(k, c) \/ Register(k, c)
         PROVE  Single'
    BY <1>15, <1>16 DEF Export, Register, pass, tables
  <1>17. ASSUME NEW k \in Keys, NEW v \in Rulings, Rule(k, v) PROVE Single'
    BY <1>15, <1>17 DEF Rule, pass, TypeOK
  <1>18. CASE UNCHANGED vars
    BY <1>15, <1>18 DEF vars, pass, tables
  <1> QED
    BY <1>1, <1>2, <1>3, <1>4, <1>5, <1>6, <1>7, <1>8, <1>9, <1>10, <1>11, <1>12, <1>13,
       <1>14, <1>16, <1>17, <1>18 DEF Next, Step, ReadManual, ReadManualAsEmpty

(***************************************************************************)
(* For any batch size and any number of mishaps, no key is written twice   *)
(* to a table unless a write was overtaken by the next pass.               *)
(***************************************************************************)
THEOREM KeysAreUnique == Spec => []KeysStayUnique
  <1>1. Init => Placed /\ Single
    BY DEF Init, Placed, Single, KeysStayUnique, Ambiguous, Writing, Empty, Present, NoRow, NoRecord
  <1> QED
    BY <1>1, InitTyped, NextTyped, NextPlaced, NextSingle, PTL DEF Spec, Single
-----------------------------------------------------------------------------
(* Where an approval comes from. *)

Approving(items) == \A i \in items : i.verdict # "none" => i.key \in vouched

Honest ==
    /\ OnlyVouchedIsApproved
    /\ \A k \in Keys : rows[k].src = "manual" => k \in vouched \/ (kind = "manual" /\ pc = "main")
    /\ Approving(updates) /\ Approving(creates)
    /\ \A w \in late : Approving(w.items)
    /\ pc = "write_back" =>
           \A k \in Keys \ vouched : seen[k].verdict \in ruled[k] \cup {"none"}

\* A plan approves nothing but manual rows.
LEMMA PlansApprove ==
    ASSUME NEW rs, NEW table
    PROVE  /\ \A i \in MainUpdates(rs, table) \cup MainCreates(rs, table) : i.verdict = "none"
           /\ \A i \in AuditUpdates(rs, table) \cup AuditCreates(rs, table) :
                  i.key \in Keys /\ (i.verdict # "none" => rs[i.key].src = "manual")
  <1>1. \A k \in Keys : Difference(k, rs[k], table[k]).verdict = "none"
    BY DEF Difference
  <1>2. ASSUME NEW k \in Keys
        PROVE  /\ AuditItem(k, rs[k]).key = k
               /\ AuditItem(k, rs[k]).verdict # "none" => rs[k].src = "manual"
    BY DEF AuditItem, Approves
  <1> QED
    BY <1>1, <1>2
    DEF MainUpdates, MainCreates, AuditUpdates, AuditCreates, Known, New

\* A batch brings no other verdict to a key than its items do.
LEMMA VerdictAfter ==
    ASSUME NEW table, NEW op, NEW items, NEW k \in Keys
    PROVE  \/ Landed(table, op, items)[k].verdict = table[k].verdict
           \/ \E i \in items : /\ i.key = k
                               /\ Landed(table, op, items)[k].verdict = i.verdict
  <1>1. \A i \in items : /\ Created(table[k], i).verdict \in {i.verdict, table[k].verdict}
                         /\ Patched(table[k], i).verdict \in {i.verdict, table[k].verdict}
    BY DEF Created, Patched
  <1> QED
    BY <1>1, LandedAt

LEMMA ApplyHonest ==
    ASSUME OnlyVouchedIsApproved, NEW t, NEW op, NEW items, Approving(items),
           Apply(t, op, items), UNCHANGED <<db, vouched, ruled>>
    PROVE  OnlyVouchedIsApproved'
  <1>1. ASSUME NEW k \in Keys, k \notin vouched
        PROVE  audit'[k].verdict \in ruled[k] \cup {"none"}
    <2>1. audit[k].verdict \in ruled[k] \cup {"none"}
      BY <1>1 DEF OnlyVouchedIsApproved
    <2>2. audit' = audit \/ audit' = Landed(audit, op, items)
      BY DEF Apply
    <2> QED
      BY <1>1, <2>1, <2>2, VerdictAfter DEF Approving
  <1> QED
    BY <1>1 DEF OnlyVouchedIsApproved

LEMMA CommitHonest ==
    ASSUME Honest, pc = "persist", Commit, UNCHANGED <<audit, vouched, ruled>>
    PROVE  OnlyVouchedIsApproved'
  <1>1. ASSUME NEW k \in Keys, k \notin vouched
        PROVE  db'[k].verdict = db[k].verdict
    <2>1. ~Approves(rows[k])
      BY <1>1 DEF Honest, Approves
    <2>2. db'[k] \in {db[k], Kept(db[k], rows[k])}
      BY DEF Commit, Persisted
    <2> QED
      BY <2>1, <2>2 DEF Kept
  <1> QED
    BY <1>1 DEF Honest, OnlyVouchedIsApproved

LEMMA WriteBackHonest ==
    ASSUME Honest, pc = "write_back", db' = WrittenBack(db, seen),
           UNCHANGED <<audit, vouched, ruled>>
    PROVE  OnlyVouchedIsApproved'
  <1>1. ASSUME NEW k \in Keys, k \notin vouched
        PROVE  db'[k].verdict \in ruled[k] \cup {"none"}
    <2>1. {seen[k].verdict, db[k].verdict} \subseteq ruled[k] \cup {"none"}
      BY <1>1 DEF Honest, OnlyVouchedIsApproved
    <2>2. db'[k] = db[k] \/ db'[k].verdict = seen[k].verdict
      BY DEF WrittenBack
    <2> QED
      BY <2>1, <2>2
  <1> QED
    BY <1>1 DEF Honest, OnlyVouchedIsApproved

LEMMA TakeHonest ==
    ASSUME TypeOK, Placed, Honest, pc = "manual", UNCHANGED <<audit, db, late, ruled>>,
           NEW registered \in [Keys -> SUBSET Contents], TakeManual(registered)
    PROVE  Honest'
  <1>1. vouched \subseteq vouched'
    BY DEF TakeManual
  <1>2. OnlyVouchedIsApproved'
    BY <1>1 DEF Honest, OnlyVouchedIsApproved
  <1>3. \A w \in late' : Approving(w.items)'
    BY <1>1 DEF Honest, Approving
  <1>4. CASE Over
    BY <1>2, <1>3, <1>4, OverEffect DEF Honest, Approving, NoRow
  <1>5. CASE /\ rows' = Merged(rows, registered)
             /\ pc' = IF kind = "full" THEN "persist" ELSE "main"
             /\ vouched' = IF kind = "full" THEN vouched \cup Unclaimed(registered) ELSE vouched
             /\ UNCHANGED <<kind, seen, updates, creates>>
    <2>1. ASSUME NEW k \in Keys, rows'[k].src = "manual", kind = "full" PROVE k \in vouched'
      <3>1. CASE rows'[k] = rows[k]
        BY <1>1, <2>1, <3>1 DEF Honest
      <3>2. CASE rows'[k] # rows[k]
        <4>1. rows'[k] = RowOf(registered[k], "manual")
          BY <1>5, <3>2, MergedAt DEF TypeOK
        <4>2. registered[k] # {}
          BY <2>1, <4>1 DEF RowOf, NoRow
        <4>3. ManualOverrides \/ ~Present(rows[k])
          BY <1>5, <3>2 DEF Merged
        <4> QED
          BY <1>5, <2>1, <4>2, <4>3 DEF Unclaimed
      <3> QED
        BY <3>1, <3>2
    <2>2. kind # "full" => kind' = "manual" /\ pc' = "main"
      BY <1>5 DEF Placed, TypeOK, Kinds
    <2>3. Approving(updates)' /\ Approving(creates)'
      BY <1>1, <1>5 DEF Honest, Approving
    <2> QED
      BY <1>2, <1>3, <1>5, <2>1, <2>2, <2>3 DEF Honest
  <1> QED
    BY <1>4, <1>5 DEF TakeManual, Goes

LEMMA NextHonest == TypeOK /\ Placed /\ Honest /\ [Next]_vars => Honest'
  <1> SUFFICES ASSUME TypeOK, Placed, Honest, [Next]_vars PROVE Honest'
    OBVIOUS
  \* Neither a verdict nor what is known of it changes.
  <1>r. ASSUME UNCHANGED <<audit, db, late, updates, creates, vouched, ruled>>,
               \A k \in Keys : rows'[k].src = "manual" =>
                   k \in vouched \/ (kind' = "manual" /\ pc' = "main"),
               pc' # "write_back"
        PROVE  Honest'
    BY <1>r DEF Honest, OnlyVouchedIsApproved, Approving
  <1>e. ASSUME Over, OnlyVouchedIsApproved', UNCHANGED <<late, vouched>> PROVE Honest'
    BY <1>e, OverEffect DEF Honest, Approving, NoRow
  <1>o. ASSUME Over, UNCHANGED <<audit, db, late, vouched, ruled>> PROVE Honest'
    BY <1>o, <1>e DEF Honest, OnlyVouchedIsApproved
  <1>1. ASSUME NEW what \in Kinds, Begin(what) PROVE Honest'
    <2>1. \A k \in Keys : rows'[k].src # "manual"
      BY <1>1 DEF Begin, Placed, Empty, Present
    <2> QED
      BY <1>1, <2>1, <1>r DEF Begin, Goes, tables, stored
  <1>2. CASE ReadSheet
    <2>1. CASE Over
      BY <1>2, <2>1, <1>o DEF ReadSheet, tables, stored, history
    <2>2. CASE ~Over
      <3>1. \A k \in Keys : rows'[k].src # "manual"
        BY <1>2, <2>2, RowOfSrc DEF ReadSheet
      <3> QED
        BY <1>2, <2>2, <3>1, <1>r DEF ReadSheet, Goes, tables, stored, history
    <2> QED
      BY <2>1, <2>2
  <1>3. CASE ReadManual
    BY <1>3, TakeHonest DEF ReadManual, TypeOK, tables, stored
  <1>4. CASE ReadMain
    <2>1. CASE Over /\ vouched' = vouched
      BY <1>4, <2>1, <1>o DEF ReadMain, tables, stored
    <2>2. CASE /\ kind = "full" /\ updates' = MainUpdates(rows, main)
               /\ creates' = MainCreates(rows, main) /\ pc' = "write_main"
               /\ UNCHANGED <<kind, rows, seen, vouched>>
      <3>1. Approving(updates)' /\ Approving(creates)'
        BY <2>2, PlansApprove DEF Approving
      <3> QED
        BY <1>4, <2>2, <3>1 DEF ReadMain, Honest, OnlyVouchedIsApproved, Approving, tables, stored
    <2>3. CASE /\ kind = "manual" /\ rows' = Spared(rows, main) /\ pc' = "persist"
               /\ vouched' = vouched \cup {k \in Keys : Present(rows[k]) /\ ~SheetOwned(main, k)}
               /\ UNCHANGED <<kind, updates, creates>>
      <3>1. \A k \in Keys : rows'[k].src = "manual" => k \in vouched'
        BY <2>3 DEF Spared, NoRow, Present
      <3>2. Approving(updates)' /\ Approving(creates)' /\ \A w \in late : Approving(w.items)'
        BY <2>3 DEF Honest, Approving
      <3>3. OnlyVouchedIsApproved'
        BY <1>4, <2>3 DEF ReadMain, Honest, OnlyVouchedIsApproved, tables, stored
      <3> QED
        BY <1>4, <2>3, <3>1, <3>2, <3>3 DEF ReadMain, Honest
    <2> QED
      BY <1>4, <2>1, <2>2, <2>3 DEF ReadMain, Goes
  <1>5. CASE Persist
    <2>1. OnlyVouchedIsApproved'
      BY <1>5, CommitHonest DEF Persist, tables, history
    <2>2. \A k \in Keys : rows'[k].src = "manual" => k \in vouched'
      BY <1>5 DEF Persist, Honest, history
    <2>3. Approving(updates)' /\ Approving(creates)'
      BY <1>5, PlansApprove DEF Persist, Approving
    <2> QED
      BY <1>5, <2>1, <2>2, <2>3 DEF Persist, Goes, Honest, Approving, history
  <1>6. CASE Send
    <2>1. PICK b \in Batches : /\ Apply(Target, Op, b)
                               /\ updates' = updates \ b
                               /\ creates' = IF updates # {} THEN creates ELSE creates \ b
      BY <1>6 DEF Send
    <2>2. Approving(b) /\ UNCHANGED <<db, vouched, ruled>>
      BY <1>6, BatchesAreLeft DEF Send, Honest, Approving, stored, history
    <2>3. OnlyVouchedIsApproved'
      BY <2>1, <2>2, ApplyHonest DEF Honest
    <2> QED
      BY <1>6, <2>1, <2>3 DEF Send, Honest, Approving, Writing, history
  <1>7. CASE WritesDone
    BY <1>7, <1>r DEF WritesDone, Goes, Honest, Writing, tables, stored, history
  <1>8. CASE ReadAudit
    <2>1. CASE Over
      BY <1>8, <2>1, <1>o DEF ReadAudit, tables, stored, history
    <2>2. CASE pc' = "done" /\ UNCHANGED <<kind, rows, seen, updates, creates>>
      BY <1>8, <2>2, <1>r DEF ReadAudit, Honest, tables, stored, history
    <2>3. CASE /\ updates' = AuditUpdates(rows, audit) /\ creates' = AuditCreates(rows, audit)
               /\ pc' = "write_audit" /\ UNCHANGED <<kind, rows, seen>>
      <3>1. Approving(updates)' /\ Approving(creates)'
        BY <1>8, <2>3, PlansApprove DEF ReadAudit, Honest, Approving, history
      <3> QED
        BY <1>8, <2>3, <3>1
        DEF ReadAudit, Honest, OnlyVouchedIsApproved, Approving, tables, stored, history
    <2> QED
      BY <1>8, <2>1, <2>2, <2>3 DEF ReadAudit, Goes
  <1>9. CASE ReadVerdicts
    <2>1. CASE Over
      BY <1>9, <2>1, <1>o DEF ReadVerdicts, tables, stored, history
    <2>2. CASE ~Over
      BY <1>9, <2>2
      DEF ReadVerdicts, Goes, Honest, OnlyVouchedIsApproved, Approving, tables, stored, history
    <2> QED
      BY <2>1, <2>2
  <1>10. CASE WriteBack
    <2>1. OnlyVouchedIsApproved'
      BY <1>10, WriteBackHonest DEF WriteBack, tables, history
    <2> QED
      BY <1>10, <2>1 DEF WriteBack, Goes, Honest, Approving, history
  <1>11. CASE Finish \/ Stop
    BY <1>11, <1>o DEF Finish, Stop, tables, stored, history
  <1>12. CASE AnswerLost
    <2>1. Over /\ UNCHANGED <<late, vouched, ruled>>
      BY <1>12 DEF AnswerLost, history
    <2>2. CASE (\E b \in Batches : Apply(Target, Op, b)) /\ UNCHANGED stored
      <3>1. PICK b \in Batches : Apply(Target, Op, b)
        BY <2>2
      <3>2. Approving(b)
        BY BatchesAreLeft DEF Honest, Approving
      <3>3. OnlyVouchedIsApproved'
        BY <2>1, <2>2, <3>1, <3>2, ApplyHonest DEF Honest, stored
      <3> QED
        BY <2>1, <3>3, <1>e
    <2>3. CASE pc = "persist" /\ Commit /\ UNCHANGED tables
      BY <2>1, <2>3, <1>e, CommitHonest DEF tables
    <2>4. CASE /\ pc = "write_back" /\ db' = WrittenBack(db, seen)
               /\ UNCHANGED <<tables, quarantine>>
      BY <2>1, <2>4, <1>e, WriteBackHonest DEF tables
    <2> QED
      BY <1>12, <2>2, <2>3, <2>4 DEF AnswerLost
  <1>13. CASE WriteLate
    <2>1. PICK b \in Batches : late' = late \cup {[table |-> Target, op |-> Op, items |-> b]}
      BY <1>13 DEF WriteLate
    <2>2. Over /\ UNCHANGED <<audit, db, vouched, ruled>>
      BY <1>13 DEF WriteLate, tables, stored, history
    <2>3. \A w \in late' : Approving(w.items)'
      BY <2>1, <2>2, BatchesAreLeft DEF Honest, Approving
    <2>4. OnlyVouchedIsApproved'
      BY <2>2 DEF Honest, OnlyVouchedIsApproved
    <2> QED
      BY <2>2, <2>3, <2>4, OverEffect DEF Honest, Approving, NoRow
  <1>14. CASE Land
    <2>1. PICK w \in late : Apply(w.table, w.op, w.items) /\ late' = late \ {w}
      BY <1>14 DEF Land
    <2>2. Approving(w.items) /\ UNCHANGED <<db, vouched, ruled, pass>>
      BY <1>14 DEF Land, Honest, stored, history
    <2>3. OnlyVouchedIsApproved'
      BY <2>1, <2>2, ApplyHonest DEF Honest
    <2> QED
      BY <2>1, <2>2, <2>3 DEF Honest, Approving, pass
  <1>15. CASE ReadManualAsEmpty
    <2>1. [k \in Keys |-> {}] \in [Keys -> SUBSET Contents]
      OBVIOUS
    <2> QED
      BY <1>15, <2>1, TakeHonest DEF ReadManualAsEmpty, tables, stored
  <1>16. ASSUME UNCHANGED <<audit, db, late, vouched, ruled, pass>> PROVE Honest'
    BY <1>16 DEF Honest, OnlyVouchedIsApproved, Approving, pass
  <1>17. ASSUME NEW k \in Keys, NEW c \in SUBSET Contents, Export(k, c) \/ Register(k, c)
         PROVE  Honest'
    BY <1>16, <1>17 DEF Export, Register, tables, stored, history
  <1>18. ASSUME NEW k \in Keys, NEW v \in Rulings, Rule(k, v) PROVE Honest'
    <2>1. \A j \in Keys : ruled[j] \subseteq ruled'[j]
      BY <1>18 DEF Rule, TypeOK
    <2>2. \A j \in Keys : audit'[j].verdict = audit[j].verdict \/ audit'[j].verdict \in ruled'[j]
      BY <1>18 DEF Rule, TypeOK
    <2>3. UNCHANGED <<db, late, vouched, pass>>
      BY <1>18 DEF Rule, stored
    <2>4. OnlyVouchedIsApproved'
      BY <2>1, <2>2, <2>3 DEF Honest, OnlyVouchedIsApproved
    <2> QED
      BY <2>1, <2>3, <2>4 DEF Honest, Approving, pass
  <1>19. CASE UNCHANGED vars
    BY <1>16, <1>19 DEF vars, tables, stored, history
  <1> QED
    BY <1>1, <1>2, <1>3, <1>4, <1>5, <1>6, <1>7, <1>8, <1>9, <1>10, <1>11, <1>12, <1>13,
       <1>14, <1>15, <1>17, <1>18, <1>19 DEF Next, Step

(***************************************************************************)
(* An approval nobody gave is that of a key which was registered by hand   *)
(* where no sheet claimed it, also when writes land late.                  *)
(***************************************************************************)
THEOREM ApprovalsAreVouched == Spec => []OnlyVouchedIsApproved
  <1>1. Init => Placed /\ Honest
    BY DEF Init, Placed, Honest, OnlyVouchedIsApproved, Approving, Writing, Empty, Present,
        NoRow, NoRecord, NotStored
  <1> QED
    BY <1>1, InitTyped, NextTyped, NextPlaced, NextHonest, PTL DEF Spec, Honest
-----------------------------------------------------------------------------
(* A manual-only pass and the sheet's records. *)

ForManual(items) == \A i \in items : Present(rows[i.key]) /\ i.src # "sheet"

Spares ==
    kind = "manual" /\ ~overtaken =>
        /\ pc \in {"persist", "write_main", "audit", "write_audit"} =>
               \A k \in Keys : Present(rows[k]) => ~SheetOwned(main, k)
        /\ Writing => ForManual(updates) /\ ForManual(creates)

LEMMA PlansAreForRows ==
    ASSUME NEW rs, NEW table, \A k \in Keys : rs[k].src # "sheet"
    PROVE  \A i \in MainUpdates(rs, table) \cup MainCreates(rs, table)
                         \cup AuditUpdates(rs, table) \cup AuditCreates(rs, table) :
               Present(rs[i.key]) /\ i.src # "sheet"
  <1>1. \A k \in Keys : /\ Difference(k, rs[k], table[k]).key = k
                        /\ Difference(k, rs[k], table[k]).src \in {"none", rs[k].src}
    BY DEF Difference
  <1>2. \A k \in Keys : AuditItem(k, rs[k]).key = k /\ AuditItem(k, rs[k]).src = "none"
    BY DEF AuditItem
  <1> QED
    BY <1>1, <1>2 DEF MainUpdates, MainCreates, AuditUpdates, AuditCreates, Known, New

\* A batch for manual rows does not touch, or make, a record of the sheet.
LEMMA ApplySpares ==
    ASSUME TypeOK, NEW t, NEW op, NEW items \in SUBSET Item, Apply(t, op, items),
           ForManual(items),
           \A k \in Keys : Present(rows[k]) => ~SheetOwned(main, k)
    PROVE  /\ \A k \in Keys : SheetOwned(main, k) => main'[k] = main[k] /\ audit'[k] = audit[k]
           /\ \A k \in Keys : Present(rows[k]) => ~SheetOwned(main', k)
  <1>1. ASSUME NEW k \in Keys, SheetOwned(main, k)
        PROVE  main'[k] = main[k] /\ audit'[k] = audit[k]
    <2>1. \A i \in items : i.key # k
      BY <1>1 DEF ForManual
    <2> QED
      BY <2>1, LandedAt DEF Apply
  <1>2. ASSUME NEW k \in Keys, Present(rows[k]) PROVE ~SheetOwned(main', k)
    <2>1. ~SheetOwned(main, k) /\ main[k] \in Record
      BY <1>2 DEF TypeOK
    <2>2. ASSUME NEW i \in items
          PROVE  LET rec == IF op = "create" THEN Created(main[k], i) ELSE Patched(main[k], i)
                 IN  ~(rec.copies > 0 /\ rec.src = "sheet")
      BY <2>1 DEF ForManual, Created, Patched, SheetOwned, Record
    <2>3. main'[k] = main[k] \/ \E i \in items :
              main'[k] = IF op = "create" THEN Created(main[k], i) ELSE Patched(main[k], i)
      BY LandedAt DEF Apply
    <2> QED
      BY <2>1, <2>2, <2>3 DEF SheetOwned
  <1> QED
    BY <1>1, <1>2

LEMMA NextSpares ==
    TypeOK /\ Placed /\ Single /\ Spares /\ [Next]_vars =>
        /\ Spares'
        /\ kind = "manual" /\ pass' # pass /\ ~overtaken =>
               \A k \in Keys : SheetOwned(main, k) => main'[k] = main[k] /\ audit'[k] = audit[k]
  <1> DEFINE Kept_ == \A k \in Keys : SheetOwned(main, k) => main'[k] = main[k] /\ audit'[k] = audit[k]
             Goal == Spares' /\ (kind = "manual" /\ pass' # pass /\ ~overtaken => Kept_)
  <1> SUFFICES ASSUME TypeOK, Placed, Single, Spares, [Next]_vars PROVE Goal
    OBVIOUS
  \* Tables that rest, and a pass that ends or is not a manual-only one that has its rows.
  <1>r. ASSUME UNCHANGED tables,
               kind' # "manual" \/ pc' \in {"manual", "main"}
        PROVE  Goal
    BY <1>r DEF Spares, Writing, tables
  <1>o. ASSUME Over, UNCHANGED tables PROVE Goal
    BY <1>o, <1>r, OverEffect
  <1>1. ASSUME NEW what \in Kinds, Begin(what) PROVE Goal
    BY <1>1, <1>r DEF Begin, Goes, Kinds
  <1>2. CASE ReadSheet
    BY <1>2, <1>r, <1>o DEF ReadSheet, Placed
  <1>3. ASSUME NEW registered, pc = "manual", TakeManual(registered), UNCHANGED tables PROVE Goal
    <2>1. CASE Over
      BY <1>3, <2>1, <1>o
    <2>2. CASE ~Over
      BY <1>3, <2>2, <1>r DEF TakeManual, Goes
    <2> QED
      BY <2>1, <2>2
  <1>4. CASE ReadMain
    <2>1. CASE kind = "manual" /\ rows' = Spared(rows, main) /\ pc' = "persist" /\ kind' = kind
      <3>1. \A k \in Keys : Present(rows'[k]) => ~SheetOwned(main, k)
        BY <2>1 DEF Spared, NoRow, Present
      <3> QED
        BY <1>4, <2>1, <3>1 DEF ReadMain, Spares, Writing, SheetOwned, tables
    <2>2. CASE Over
      BY <1>4, <2>2, <1>o DEF ReadMain
    <2>3. CASE kind = "full" /\ kind' = kind
      BY <1>4, <2>3, <1>r DEF ReadMain
    <2> QED
      BY <1>4, <2>1, <2>2, <2>3 DEF ReadMain, Goes
  <1>5. CASE Persist
    <2>1. CASE kind = "manual"
      <3>1. \A k \in Keys : rows[k].src # "sheet"
        BY <2>1 DEF Placed
      <3>2. ForManual(updates)' /\ ForManual(creates)'
        BY <1>5, <2>1, <3>1, PlansAreForRows DEF Persist, ForManual
      <3> QED
        BY <1>5, <2>1, <3>2 DEF Persist, Goes, Spares, SheetOwned, tables, history
    <2>2. CASE kind # "manual"
      BY <1>5, <2>2, <1>r DEF Persist
    <2> QED
      BY <2>1, <2>2
  <1>6. CASE Send
    <2>1. PICK b \in Batches : /\ Apply(Target, Op, b)
                               /\ updates' = updates \ b
                               /\ creates' = IF updates # {} THEN creates ELSE creates \ b
      BY <1>6 DEF Send
    <2>2. CASE kind = "manual" /\ ~overtaken
      <3>1. b \subseteq Item /\ ForManual(b) /\ \A k \in Keys : Present(rows[k]) => ~SheetOwned(main, k)
        BY <1>6, <2>2, BatchesAreLeft DEF Send, Spares, ForManual, Writing, TypeOK
      <3>2. Kept_ /\ \A k \in Keys : Present(rows[k]) => ~SheetOwned(main', k)
        BY <2>1, <3>1, ApplySpares
      <3> QED
        BY <1>6, <2>1, <2>2, <3>2 DEF Send, Spares, ForManual, Writing, SheetOwned, history
    <2>3. CASE ~(kind = "manual" /\ ~overtaken)
      BY <1>6, <2>3 DEF Send, Spares, history
    <2> QED
      BY <2>2, <2>3
  <1>7. CASE WritesDone
    BY <1>7 DEF WritesDone, Goes, Spares, Writing, SheetOwned, tables, history
  <1>8. CASE ReadAudit
    <2>1. CASE Over
      BY <1>8, <2>1, <1>o DEF ReadAudit
    <2>2. CASE pc' = "done" /\ UNCHANGED <<kind, rows, seen, updates, creates>>
      BY <1>8, <2>2 DEF ReadAudit, Spares, Writing, SheetOwned, tables, history
    <2>3. CASE /\ updates' = AuditUpdates(rows, audit) /\ creates' = AuditCreates(rows, audit)
               /\ pc' = "write_audit" /\ UNCHANGED <<kind, rows, seen>>
      <3>1. kind = "manual" => ForManual(updates)' /\ ForManual(creates)'
        BY <2>3, PlansAreForRows DEF Placed, ForManual
      <3> QED
        BY <1>8, <2>3, <3>1 DEF ReadAudit, Spares, SheetOwned, tables, history
    <2> QED
      BY <1>8, <2>1, <2>2, <2>3 DEF ReadAudit, Goes
  <1>9. CASE ReadVerdicts \/ WriteBack
    BY <1>9, <1>r, <1>o DEF ReadVerdicts, WriteBack, Placed
  <1>10. CASE Finish \/ Stop \/ WriteLate
    BY <1>10, <1>o DEF Finish, Stop, WriteLate
  <1>11. CASE AnswerLost
    <2>1. Over
      BY <1>11 DEF AnswerLost
    <2>2. CASE Writing /\ (\E b \in Batches : Apply(Target, Op, b))
      <3>1. PICK b \in Batches : Apply(Target, Op, b)
        BY <2>2
      <3>2. CASE kind = "manual" /\ ~overtaken
        <4>1. b \subseteq Item /\ ForManual(b) /\ \A k \in Keys : Present(rows[k]) => ~SheetOwned(main, k)
          BY <2>2, <3>2, BatchesAreLeft DEF Spares, ForManual, Writing, TypeOK
        <4>2. Kept_
          BY <3>1, <4>1, ApplySpares
        <4> QED
          BY <2>1, <4>2, OverEffect DEF Spares
      <3>3. CASE ~(kind = "manual" /\ ~overtaken)
        BY <2>1, <3>3, OverEffect DEF Spares
      <3> QED
        BY <3>2, <3>3
    <2>3. CASE UNCHANGED tables
      BY <2>1, <2>3, <1>o
    <2> QED
      BY <1>11, <2>2, <2>3 DEF AnswerLost
  <1>12. CASE Land
    <2>1. UNCHANGED <<kind, pc, rows, updates, creates, overtaken>> /\ pass' = pass /\ late # {}
      BY <1>12 DEF Land, pass, history
    <2>2. ~overtaken => pc = "idle"
      BY <2>1 DEF Single
    <2> QED
      BY <2>1, <2>2 DEF Spares, Placed
  <1>13. ASSUME UNCHANGED <<main, pass, overtaken>> PROVE Goal
    BY <1>13 DEF Spares, ForManual, Writing, SheetOwned, pass
  <1>14. ASSUME NEW k \in Keys, NEW c \in SUBSET Contents, Export(k, c) \/ Register(k, c)
         PROVE  Goal
    BY <1>13, <1>14 DEF Export, Register, tables, history
  <1>15. ASSUME NEW k \in Keys, NEW v \in Rulings, Rule(k, v) PROVE Goal
    BY <1>13, <1>15 DEF Rule
  <1>16. CASE UNCHANGED vars
    BY <1>13, <1>16 DEF vars, tables, history
  <1> QED
    BY <1>1, <1>2, <1>3, <1>4, <1>5, <1>6, <1>7, <1>8, <1>9, <1>10, <1>11, <1>12,
       <1>14, <1>15, <1>16 DEF Next, Step, ReadManual, ReadManualAsEmpty

(***************************************************************************)
(* A manual-only pass leaves the records alone that the main table has     *)
(* from the sheet, and what the audit table says of them, whatever batch   *)
(* it is cut off at.                                                       *)
(***************************************************************************)
THEOREM SheetRecordsAreSpared == Spec => ManualSparesTheSheet
  <1> DEFINE Inv == TypeOK /\ Placed /\ Single /\ Spares
             Step_ == kind = "manual" /\ pass' # pass /\ ~overtaken =>
                         \A k \in Keys : SheetOwned(main, k) =>
                             main'[k] = main[k] /\ audit'[k] = audit[k]
  <1>1. Init => Placed /\ Single /\ Spares
    BY DEF Init, Placed, Single, Spares, KeysStayUnique, Ambiguous, Writing, Empty, Present, NoRow,
        NoRecord
  <1>2. Init => Inv
    BY <1>1, InitTyped
  <1>3. Inv /\ [Next]_vars => Inv' /\ [Step_]_vars
    BY NextTyped, NextPlaced, NextSingle, NextSpares
  <1> QED
    BY <1>2, <1>3, PTL DEF Spec, ManualSparesTheSheet
-----------------------------------------------------------------------------
(* What a successful pass has done. *)

Pending(k)   == \E i \in updates \cup creates : i.key = k
MainDone(k)  == Matches(main[k], rows[k])
AuditDone(k) == audit[k].copies = 1 /\ (Approves(rows[k]) => audit[k].verdict # "none")

MainPlanned ==
    /\ OneEach(updates)
    /\ \A i \in updates : Matches(Patched(main[i.key], i), rows[i.key])
    /\ \A i \in creates : i.src = rows[i.key].src /\ i.val = rows[i.key].val
    /\ \A k \in Keys : Present(rows[k]) => Pending(k) \/ MainDone(k)

AuditPlanned ==
    /\ \A i \in updates : audit[i.key].copies = 1 /\ i.verdict # "none"
    /\ \A i \in creates : Approves(rows[i.key]) => i.verdict # "none"
    /\ \A k \in Keys : Present(rows[k]) => Pending(k) \/ AuditDone(k)

Carried ==
    ~overtaken =>
        /\ (pc = "main" /\ kind = "full") \/ pc \in {"write_main", "audit", "write_audit", "done"} =>
               \A k \in Keys : Present(rows[k]) => InDatabase(k, rows[k])
        /\ pc = "write_main" => MainPlanned
        /\ pc \in {"audit", "write_audit"} \/ (pc = "done" /\ kind # "import") =>
               \A k \in Keys : Present(rows[k]) => MainDone(k)
        /\ pc = "write_audit" => AuditPlanned
        /\ pc = "done" /\ kind # "import" => \A k \in Keys : Present(rows[k]) => AuditDone(k)

\* The plan for a table without repeated keys is right and forgets no row.
LEMMA PlansComplete ==
    ASSUME NEW rs \in [Keys -> Row], NEW table \in [Keys -> Record],
           \A k \in Keys : table[k].copies \in {0, 1}
    PROVE  /\ OneEach(MainUpdates(rs, table))
           /\ \A i \in MainUpdates(rs, table) : Matches(Patched(table[i.key], i), rs[i.key])
           /\ \A i \in MainCreates(rs, table) : i.src = rs[i.key].src /\ i.val = rs[i.key].val
           /\ \A k \in Keys : Present(rs[k]) =>
                  \/ \E i \in MainUpdates(rs, table) \cup MainCreates(rs, table) : i.key = k
                  \/ Matches(table[k], rs[k])
           /\ \A i \in AuditUpdates(rs, table) : table[i.key].copies = 1 /\ i.verdict # "none"
           /\ \A i \in AuditCreates(rs, table) : Approves(rs[i.key]) => i.verdict # "none"
           /\ \A k \in Keys : Present(rs[k]) =>
                  \/ \E i \in AuditUpdates(rs, table) \cup AuditCreates(rs, table) : i.key = k
                  \/ table[k].copies = 1 /\ (Approves(rs[k]) => table[k].verdict # "none")
  <1>1. \A k \in Known(rs, table) : k \in Keys /\ Present(rs[k]) /\ table[k].copies = 1
    BY DEF Known
  <1>2. \A k \in Keys : /\ Difference(k, rs[k], table[k]).key = k
                        /\ AuditItem(k, rs[k]).key = k
                        /\ Approves(rs[k]) => AuditItem(k, rs[k]).verdict = "approved"
    BY DEF Difference, AuditItem
  <1>3. ASSUME NEW k \in Known(rs, table)
        PROVE  Matches(Patched(table[k], Difference(k, rs[k], table[k])), rs[k])
    BY <1>1 DEF Matches, Patched, Difference, Present
  <1>4. ASSUME NEW k \in Known(rs, table),
               Difference(k, rs[k], table[k]).src = "none",
               Difference(k, rs[k], table[k]).val = Blank
        PROVE  Matches(table[k], rs[k])
    BY <1>1, <1>4 DEF Matches, Difference, Present
  <1>5. ASSUME NEW k \in Keys, Present(rs[k]), table[k].copies # 0 PROVE k \in Known(rs, table)
    BY <1>5 DEF Known
  <1>6. OneEach(MainUpdates(rs, table))
    BY <1>1, <1>2 DEF OneEach, MainUpdates
  <1>7. \A i \in MainUpdates(rs, table) : Matches(Patched(table[i.key], i), rs[i.key])
    BY <1>1, <1>2, <1>3 DEF MainUpdates
  <1>8. \A i \in MainCreates(rs, table) : i.src = rs[i.key].src /\ i.val = rs[i.key].val
    BY DEF MainCreates
  <1>9. ASSUME NEW k \in Keys, Present(rs[k])
        PROVE  \/ \E i \in MainUpdates(rs, table) \cup MainCreates(rs, table) : i.key = k
               \/ Matches(table[k], rs[k])
    <2>1. CASE table[k].copies = 0
      BY <1>9, <2>1, PlansCreate
    <2>2. CASE table[k].copies # 0
      <3>1. k \in Known(rs, table)
        BY <1>5, <1>9, <2>2
      <3>2. CASE Difference(k, rs[k], table[k]).src = "none" /\ Difference(k, rs[k], table[k]).val = Blank
        BY <1>4, <3>1, <3>2
      <3>3. CASE ~(Difference(k, rs[k], table[k]).src = "none" /\ Difference(k, rs[k], table[k]).val = Blank)
        <4>1. Difference(k, rs[k], table[k]) \in MainUpdates(rs, table)
          BY <3>1, <3>3 DEF MainUpdates
        <4> QED
          BY <1>2, <4>1
      <3> QED
        BY <3>2, <3>3
    <2> QED
      BY <2>1, <2>2
  <1>10. \A i \in AuditUpdates(rs, table) : table[i.key].copies = 1 /\ i.verdict # "none"
    BY <1>1, <1>2 DEF AuditUpdates
  <1>11. \A i \in AuditCreates(rs, table) : Approves(rs[i.key]) => i.verdict # "none"
    BY <1>2 DEF AuditCreates, New
  <1>12. ASSUME NEW k \in Keys, Present(rs[k])
         PROVE  \/ \E i \in AuditUpdates(rs, table) \cup AuditCreates(rs, table) : i.key = k
                \/ table[k].copies = 1 /\ (Approves(rs[k]) => table[k].verdict # "none")
    <2>1. CASE table[k].copies = 0
      BY <1>12, <2>1, PlansCreate
    <2>2. CASE table[k].copies # 0
      <3>1. k \in Known(rs, table)
        BY <1>5, <1>12, <2>2
      <3>2. CASE Approves(rs[k]) /\ table[k].verdict # "approved"
        <4>1. AuditItem(k, rs[k]) \in AuditUpdates(rs, table)
          BY <3>1, <3>2 DEF AuditUpdates
        <4> QED
          BY <1>2, <4>1
      <3>3. CASE ~(Approves(rs[k]) /\ table[k].verdict # "approved")
        BY <1>1, <3>1, <3>3
      <3> QED
        BY <3>2, <3>3
    <2> QED
      BY <2>1, <2>2
  <1> QED
    BY <1>6, <1>7, <1>8, <1>9, <1>10, <1>11, <1>12

LEMMA CommitCarries ==
    ASSUME Commit, UNCHANGED rows
    PROVE  \A k \in Keys : Present(rows[k]) => InDatabase(k, rows[k])'
  BY DEF Commit, Persisted, Kept, SetAside, InDatabase

\* One batch brings its keys to what their rows say and leaves the others alone.
LEMMA SendCarries ==
    ASSUME TypeOK, Single, Carried, ~overtaken, Send
    PROVE  /\ pc = "write_main" => MainPlanned'
           /\ pc = "write_audit" => AuditPlanned' /\ main' = main
  <1>1. PICK b \in Batches : /\ Apply(Target, Op, b)
                             /\ updates' = updates \ b
                             /\ creates' = IF updates # {} THEN creates ELSE creates \ b
    BY DEF Send
  <1>2. /\ Op \in {"update", "create"}
        /\ Op = "update" => b \subseteq updates /\ creates' = creates
        /\ Op = "create" => updates = {} /\ b \subseteq creates /\ creates' = creates \ b
    BY <1>1, BatchesAreLeft DEF Op
  <1>3. /\ UNCHANGED <<pc, rows>>
        /\ \A i \in updates \cup creates : i \in Item /\ i.key \in Keys
    BY DEF Send, TypeOK, Item
  <1>4. NotThere(Target, creates) /\ OneEach(creates)
    BY DEF Send, Single, Writing
  <1>5. ASSUME NEW k \in Keys, \A i \in b : i.key # k
        PROVE  main'[k] = main[k] /\ audit'[k] = audit[k] /\ (Pending(k) => Pending(k)')
    <2>1. main'[k] = main[k] /\ audit'[k] = audit[k]
      BY <1>1, <1>5, LandedAt DEF Apply
    <2>2. Pending(k) => Pending(k)'
      BY <1>1, <1>5 DEF Pending
    <2> QED
      BY <2>1, <2>2
  <1>6. CASE pc = "write_main"
    <2>1. MainPlanned /\ Target = "main" /\ main' = Landed(main, Op, b)
      BY <1>1, <1>6 DEF Carried, Target, Apply
    <2>2. ASSUME NEW k \in Keys, NEW i \in b, i.key = k PROVE MainDone(k)'
      <3>1. PICK j \in b : /\ j.key = k
                           /\ main'[k] = IF Op = "create" THEN Created(main[k], j) ELSE Patched(main[k], j)
        BY <2>1, <2>2, LandedAt
      <3>2. CASE Op = "update"
        BY <1>2, <1>3, <2>1, <3>1, <3>2 DEF MainPlanned, MainDone
      <3>3. CASE Op = "create"
        <4>1. main[k].copies = 0 /\ j.src = rows[k].src /\ j.val = rows[k].val
          BY <1>2, <1>4, <2>1, <3>1, <3>3 DEF NotThere, Table, MainPlanned
        <4> QED
          BY <1>3, <3>1, <3>3, <4>1 DEF Created, MainDone, Matches
      <3> QED
        BY <1>2, <3>2, <3>3
    <2>3. \A k \in Keys : Present(rows[k]) => Pending(k)' \/ MainDone(k)'
      BY <1>3, <1>5, <2>1, <2>2 DEF MainPlanned, MainDone
    <2>4. ASSUME NEW i \in updates' PROVE Matches(Patched(main'[i.key], i), rows[i.key])
      <3>1. i \in updates /\ i.key \in Keys /\ Op = "update"
        BY <1>1, <1>2, <1>3
      <3>2. \A j \in b : j.key # i.key
        BY <1>1, <1>2, <2>1, <3>1 DEF MainPlanned, OneEach
      <3> QED
        BY <1>5, <2>1, <3>1, <3>2 DEF MainPlanned
    <2>5. OneEach(updates)' /\ \A i \in creates' : i.src = rows[i.key].src /\ i.val = rows[i.key].val
      BY <1>1, <1>2, <2>1 DEF MainPlanned, OneEach
    <2> QED
      BY <1>3, <1>6, <2>3, <2>4, <2>5 DEF MainPlanned
  <1>7. CASE pc = "write_audit"
    <2>1. AuditPlanned /\ Target = "audit" /\ audit' = Landed(audit, Op, b) /\ main' = main
      BY <1>1, <1>7 DEF Carried, Target, Apply
    <2>2. ASSUME NEW k \in Keys, NEW i \in b, i.key = k PROVE AuditDone(k)'
      <3>1. PICK j \in b :
                /\ j.key = k
                /\ audit'[k] = IF Op = "create" THEN Created(audit[k], j) ELSE Patched(audit[k], j)
        BY <2>1, <2>2, LandedAt
      <3>2. CASE Op = "update"
        <4>1. audit[k].copies = 1 /\ j.verdict # "none"
          BY <1>2, <2>1, <3>1, <3>2 DEF AuditPlanned
        <4> QED
          BY <1>3, <3>1, <3>2, <4>1 DEF Patched, AuditDone
      <3>3. CASE Op = "create"
        <4>1. audit[k].copies = 0 /\ (Approves(rows[k]) => j.verdict # "none")
          BY <1>2, <1>4, <2>1, <3>1, <3>3 DEF NotThere, Table, AuditPlanned
        <4> QED
          BY <1>3, <3>1, <3>3, <4>1 DEF Created, AuditDone
      <3> QED
        BY <1>2, <3>2, <3>3
    <2>3. \A k \in Keys : Present(rows[k]) => Pending(k)' \/ AuditDone(k)'
      BY <1>3, <1>5, <2>1, <2>2 DEF AuditPlanned, AuditDone
    <2>4. \A i \in updates' : audit'[i.key].copies = 1 /\ i.verdict # "none"
      <3>1. \A i \in updates' : i \in updates /\ i.key \in Keys
        BY <1>1, <1>3
      <3> QED
        BY <1>5, <2>1, <2>2, <3>1 DEF AuditPlanned, AuditDone
    <2>5. \A i \in creates' : Approves(rows[i.key]) => i.verdict # "none"
      BY <1>1, <2>1 DEF AuditPlanned
    <2> QED
      BY <1>3, <1>7, <2>1, <2>3, <2>4, <2>5 DEF AuditPlanned
  <1> QED
    BY <1>6, <1>7

LEMMA NextCarried == TypeOK /\ Placed /\ Single /\ Carried /\ [Next]_vars => Carried'
  <1> SUFFICES ASSUME TypeOK, Placed, Single, Carried, [Next]_vars, ~overtaken' PROVE Carried'
    BY DEF Carried
  <1>0. ~overtaken
    BY DEF Next, Step, Begin, ReadSheet, ReadManual, ReadMain, Persist, Send, WritesDone, ReadAudit,
           ReadVerdicts, WriteBack, Finish, Stop, AnswerLost, WriteLate, Land, ReadManualAsEmpty,
           Export, Register, Rule, history, vars
  <1>c. \A k \in Keys : main[k].copies \in {0, 1} /\ audit[k].copies \in {0, 1}
    <2>1. \A k \in Keys : main[k].copies \in Nat /\ audit[k].copies \in Nat
      BY DEF TypeOK, Record
    <2>2. \A k \in Keys : ~(main[k].copies > 1) /\ ~(audit[k].copies > 1)
      BY <1>0 DEF Single, KeysStayUnique, Ambiguous
    <2> QED
      BY <2>1, <2>2
  \* A pass that has stored nothing yet, or has no rows.
  <1>r. ASSUME \/ pc' \in {"idle", "sheet", "manual", "persist", "write_back"}
               \/ pc' = "main" /\ kind' # "full"
               \/ pc' \in {"audit", "done"} /\ Empty(rows)'
        PROVE  Carried'
    BY <1>r DEF Carried, Empty
  <1>o. ASSUME Over PROVE Carried'
    BY <1>o, <1>r, OverEffect
  <1>1. ASSUME NEW what \in Kinds, Begin(what) PROVE Carried'
    BY <1>1, <1>r DEF Begin, Goes, Placed, Empty
  <1>2. CASE ReadSheet
    BY <1>2, <1>r, <1>o DEF ReadSheet, Goes
  <1>3. ASSUME NEW registered, TakeManual(registered) PROVE Carried'
    BY <1>3, <1>r, <1>o DEF TakeManual, Goes
  <1>4. CASE ReadMain
    <2>1. CASE Over
      BY <2>1, <1>o
    <2>2. CASE /\ kind = "full" /\ updates' = MainUpdates(rows, main)
               /\ creates' = MainCreates(rows, main) /\ pc' = "write_main"
               /\ UNCHANGED <<kind, rows>>
      <3>1. UNCHANGED <<main, db, quarantine>>
        BY <1>4 DEF ReadMain, tables, stored
      <3>2. MainPlanned'
        BY <1>c, <2>2, <3>1, PlansComplete DEF MainPlanned, MainDone, Pending, TypeOK
      <3>3. \A k \in Keys : Present(rows[k]) => InDatabase(k, rows[k])'
        BY <1>0, <1>4, <2>2, <3>1 DEF ReadMain, Carried, InDatabase
      <3> QED
        BY <2>2, <3>2, <3>3 DEF Carried
    <2>3. CASE pc' = "persist"
      BY <2>3, <1>r
    <2> QED
      BY <1>4, <2>1, <2>2, <2>3 DEF ReadMain, Goes
  <1>5. CASE Persist
    <2>1. /\ Commit /\ UNCHANGED <<main, audit, rows, kind>>
          /\ pc' = IF kind = "import" THEN "done" ELSE IF kind = "full" THEN "main" ELSE "write_main"
      BY <1>5 DEF Persist, Goes, tables
    <2>2. \A k \in Keys : Present(rows'[k]) => InDatabase(k, rows[k])'
      BY <2>1, CommitCarries
    <2>3. CASE kind = "manual"
      <3>1. updates' = MainUpdates(rows, main) /\ creates' = MainCreates(rows, main)
        BY <1>0, <1>5, <2>3 DEF Persist, Single
      <3>2. MainPlanned'
        BY <1>c, <2>1, <3>1, PlansComplete DEF MainPlanned, MainDone, Pending, TypeOK
      <3> QED
        BY <2>1, <2>2, <2>3, <3>2 DEF Carried
    <2>4. CASE kind # "manual"
      <3>1. kind \in {"import", "full"}
        BY <1>5, <2>4 DEF Persist, Placed, TypeOK, Kinds
      <3> QED
        BY <2>1, <2>2, <3>1 DEF Carried
    <2> QED
      BY <2>3, <2>4
  <1>6. CASE Send
    <2>1. UNCHANGED <<db, quarantine, kind, pc, rows>> /\ pc \in {"write_main", "write_audit"}
      BY <1>6 DEF Send, Writing, stored
    <2>2. /\ pc = "write_main" => MainPlanned'
          /\ pc = "write_audit" => AuditPlanned' /\ main' = main
      BY <1>0, <1>6, SendCarries
    <2>3. \A k \in Keys : Present(rows'[k]) => InDatabase(k, rows[k])'
      BY <1>0, <2>1 DEF Carried, InDatabase
    <2>4. pc = "write_audit" => \A k \in Keys : Present(rows'[k]) => MainDone(k)'
      BY <1>0, <2>1, <2>2 DEF Carried, MainDone
    <2> QED
      BY <2>1, <2>2, <2>3, <2>4 DEF Carried
  <1>7. CASE WritesDone
    <2>1. UNCHANGED <<main, audit, db, quarantine, kind, rows>> /\ \A k \in Keys : ~Pending(k)
      BY <1>7 DEF WritesDone, Left, Pending, tables, stored
    <2>2. \A k \in Keys : Present(rows'[k]) => InDatabase(k, rows[k])' /\ MainDone(k)'
      BY <1>0, <1>7, <2>1 DEF WritesDone, Writing, Carried, InDatabase, MainDone, MainPlanned
    <2>3. pc = "write_audit" => \A k \in Keys : Present(rows'[k]) => AuditDone(k)'
      BY <1>0, <2>1 DEF Carried, AuditDone, AuditPlanned
    <2> QED
      BY <1>7, <2>2, <2>3 DEF WritesDone, Writing, Goes, Carried
  <1>8. CASE ReadAudit
    <2>1. CASE Over
      BY <2>1, <1>o
    <2>2. CASE pc' = "done" /\ Empty(rows) /\ rows' = rows
      BY <2>2, <1>r DEF Empty
    <2>3. CASE /\ updates' = AuditUpdates(rows, audit) /\ creates' = AuditCreates(rows, audit)
               /\ pc' = "write_audit" /\ UNCHANGED <<kind, rows, seen>>
      <3>1. UNCHANGED <<main, audit, db, quarantine>>
        BY <1>8 DEF ReadAudit, tables, stored
      <3>2. AuditPlanned'
        BY <1>c, <2>3, <3>1, PlansComplete DEF AuditPlanned, AuditDone, Pending, TypeOK
      <3>3. \A k \in Keys : Present(rows'[k]) => InDatabase(k, rows[k])' /\ MainDone(k)'
        BY <1>0, <1>8, <2>3, <3>1 DEF ReadAudit, Carried, InDatabase, MainDone
      <3> QED
        BY <2>3, <3>2, <3>3 DEF Carried
    <2> QED
      BY <1>8, <2>1, <2>2, <2>3 DEF ReadAudit, Goes, Empty
  <1>9. CASE ReadVerdicts \/ WriteBack \/ Finish \/ Stop \/ AnswerLost \/ WriteLate
    <2>1. CASE ReadVerdicts
      BY <2>1, <1>r, <1>o DEF ReadVerdicts, Goes
    <2>2. CASE WriteBack
      BY <2>2, <1>r DEF WriteBack, Goes, Placed, Empty
    <2> QED
      BY <1>9, <2>1, <2>2, <1>o DEF Finish, Stop, AnswerLost, WriteLate
  <1>10. CASE Land
    <2>1. pc' = "idle"
      BY <1>0, <1>10 DEF Land, Single, pass
    <2> QED
      BY <2>1, <1>r
  <1>11. ASSUME NEW k \in Keys, NEW v \in Rulings, Rule(k, v) PROVE Carried'
    <2>1. /\ UNCHANGED <<main, db, quarantine, kind, pc, rows, updates, creates>>
          /\ v # "none"
      BY <1>11, SyncConstants DEF Rule, stored, pass
    <2>2. \A j \in Keys : /\ audit'[j].copies = audit[j].copies
                          /\ audit'[j].verdict = audit[j].verdict \/ audit'[j].verdict # "none"
      BY <1>11, <2>1 DEF Rule, TypeOK
    <2>3. \A j \in Keys : AuditDone(j) => AuditDone(j)'
      BY <2>1, <2>2 DEF AuditDone
    <2>4. pc = "write_audit" => AuditPlanned'
      <3>1. \A i \in updates : i.key \in Keys
        BY DEF TypeOK, Item
      <3> QED
        BY <1>0, <2>1, <2>2, <2>3, <3>1 DEF Carried, AuditPlanned, Pending
    <2>5. pc = "write_main" => MainPlanned'
      BY <1>0, <2>1 DEF Carried, MainPlanned, MainDone, Pending
    <2> QED
      BY <1>0, <2>1, <2>3, <2>4, <2>5 DEF Carried, MainDone, InDatabase
  <1>12. ASSUME UNCHANGED <<tables, stored, pass>> PROVE Carried'
    BY <1>0, <1>12
    DEF Carried, MainPlanned, AuditPlanned, MainDone, AuditDone, Pending, OneEach, InDatabase,
        tables, stored, pass
  <1>13. ASSUME NEW k \in Keys, NEW c \in SUBSET Contents, Export(k, c) \/ Register(k, c)
         PROVE  Carried'
    BY <1>12, <1>13 DEF Export, Register
  <1>14. CASE UNCHANGED vars
    BY <1>12, <1>14 DEF vars
  <1> QED
    BY <1>1, <1>2, <1>3, <1>4, <1>5, <1>6, <1>7, <1>8, <1>9, <1>10, <1>11, <1>13, <1>14
    DEF Next, Step, ReadManual, ReadManualAsEmpty

(***************************************************************************)
(* A pass that comes to its end without a write of an earlier one in its   *)
(* way has carried every row to every store, whatever state it found them  *)
(* in.                                                                     *)
(***************************************************************************)
THEOREM SuccessIsWhole == Spec => []SuccessIsComplete
  <1>1. Init => Placed /\ Single /\ Carried
    BY DEF Init, Placed, Single, Carried, KeysStayUnique, Ambiguous, Writing, Empty, Present,
        NoRow, NoRecord
  <1>2. TypeOK /\ Carried => SuccessIsComplete
    BY DEF Carried, SuccessIsComplete, MainDone, AuditDone
  <1> QED
    BY <1>1, <1>2, InitTyped, NextTyped, NextPlaced, NextSingle, NextCarried, PTL DEF Spec
=============================================================================
