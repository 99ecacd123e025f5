------------------------- MODULE SourceQueueProofs -------------------------
(* Theorems about SourceQueue, for every number of sources and passes. *)
EXTENDS SourceQueue, TLAPS

USE QueueConstants

-----------------------------------------------------------------------------
(* Type correctness. *)

LEMMA RowTypes ==
    ASSUME TypeOK, NEW s \in Sources, NEW n \in Nat
    PROVE  /\ Refreshed(s, n) \in Row
           /\ AfterFailure(s) \in Row
           /\ \A status \in {"imported", "partial"} : AfterImport(s, status) \in Row
<1>1. source[s] \in Row BY DEF TypeOK
<1>2. Refreshed(s, n) \in Row BY DEF Refreshed, Row, Statuses
<1>3. AfterFailure(s) \in Row
    <2>1. CASE source[s].attempts + 1 >= MaxAttempts
        BY <1>1, <2>1 DEF AfterFailure, Row, Statuses
    <2>2. CASE ~(source[s].attempts + 1 >= MaxAttempts)
        <3>1. source[s].attempts \in 0 .. MaxAttempts BY <1>1, <2>2 DEF Row
        <3>2. Delay[source[s].attempts] \in Nat BY <3>1
        <3> QED BY <1>1, <2>2, <3>2 DEF AfterFailure, Row, Statuses
    <2> QED BY <2>1, <2>2
<1>4. \A status \in {"imported", "partial"} : AfterImport(s, status) \in Row
    BY <1>1 DEF AfterImport, Row, Statuses
<1> QED BY <1>2, <1>3, <1>4

LEMMA HeadAndTail ==
    ASSUME NEW S, NEW b \in Seq(S), b # <<>>
    PROVE  /\ Head(b) \in S /\ Head(b) = b[1] /\ Len(b) \in Nat /\ Len(b) > 0
           /\ Tail(b) \in Seq(S) /\ Len(Tail(b)) = Len(b) - 1
           /\ \A i \in 1 .. Len(Tail(b)) : Tail(b)[i] = b[i + 1]
OBVIOUS

\* A pass that is about to fetch or to mark has a source in hand.
Carries ==
    \A w \in Passes : at[w] \in {"reset", "imported", "partial", "failed"} =>
        batch[w] # <<>>

Typed == TypeOK /\ Carries

\* What every action leaves alone when it only moves one pass.
LEMMA Moves ==
    ASSUME Typed, NEW w \in Passes, NEW place \in Places, NEW todo \in Seq(Pending),
           place \in {"reset", "imported", "partial", "failed"} => todo # <<>>,
           Goes(w, place, todo)
    PROVE  /\ at' \in [Passes -> Places]
           /\ batch' \in [Passes -> Seq(Pending)]
           /\ Carries'
BY DEF Typed, TypeOK, Carries, Goes

LEMMA TypedInit == Init => Typed
BY DEF Init, Typed, TypeOK, Carries, Blank, Row, Statuses, Places

LEMMA TypedNext == Typed /\ [Next]_vars => Typed'
<1> SUFFICES ASSUME Typed, [Next]_vars PROVE Typed'
    OBVIOUS
<1>t. TypeOK /\ <<>> \in Seq(Pending)
    BY DEF Typed
<1>1. ASSUME NEW w \in Passes, Begin(w) PROVE Typed'
    <2>1. /\ at' \in [Passes -> Places] /\ batch' \in [Passes -> Seq(Pending)]
          /\ Carries'
        BY <1>t, <1>1, Moves DEF Begin, Places
    <2> QED BY <1>t, <1>1, <2>1 DEF Begin, Typed, TypeOK, table, count
<1>2. ASSUME NEW w \in Passes, List(w) PROVE Typed'
    <2>l. PICK limit \in Limits : \E n \in 0 .. limit : \E q \in [1 .. n -> Sources] :
              Goes(w, "next",
                   [i \in 1 .. n |-> [id |-> q[i], pull |-> source[q[i]].pull]])
        BY <1>2 DEF List
    <2>0. PICK n \in 0 .. limit : \E q \in [1 .. n -> Sources] :
              Goes(w, "next",
                   [i \in 1 .. n |-> [id |-> q[i], pull |-> source[q[i]].pull]])
        BY <2>l
    <2>1. PICK q \in [1 .. n -> Sources] :
              Goes(w, "next",
                   [i \in 1 .. n |-> [id |-> q[i], pull |-> source[q[i]].pull]])
        BY <2>0
    <2>2. [i \in 1 .. n |-> [id |-> q[i], pull |-> source[q[i]].pull]] \in Seq(Pending)
        <3>1. \A i \in 1 .. n : [id |-> q[i], pull |-> source[q[i]].pull] \in Pending
            BY <1>t DEF Pending, Row, TypeOK
        <3> QED BY <3>1
    <2>3. /\ at' \in [Passes -> Places] /\ batch' \in [Passes -> Seq(Pending)]
          /\ Carries'
        BY <2>1, <2>2, Moves DEF Places
    <2> QED BY <1>t, <1>2, <2>3 DEF List, Typed, TypeOK, table, count
<1>3. ASSUME NEW w \in Passes, Fetch(w) PROVE Typed'
    <2> DEFINE s == Head(batch[w]).id
    <2>0. batch[w] # <<>> /\ batch[w] \in Seq(Pending)
        BY <1>t, <1>3 DEF Fetch, Typed, Carries, TypeOK
    <2>1. s \in Sources BY <2>0, HeadAndTail DEF Pending
    <2>2. <<[id |-> s, pull |-> source[s].pull]>> \in Seq(Pending)
        BY <1>t, <2>1 DEF Pending, Row, TypeOK
    <2>3. /\ at' \in [Passes -> Places] /\ batch' \in [Passes -> Seq(Pending)]
          /\ Carries'
        <3>1. CASE Imported(s) BY <1>t, <1>3, <3>1, Moves DEF Fetch, Places
        <3>2. CASE ~Imported(s) BY <1>3, <2>2, <3>2, Moves DEF Fetch, Places
        <3> QED BY <3>1, <3>2
    <2> QED BY <1>t, <1>3, <2>3 DEF Fetch, Typed, TypeOK, table, count
<1>4. ASSUME NEW w \in Passes, Persist(w) PROVE Typed'
    <2>1. Head(batch[w]) \in Pending BY <1>t, <1>4, HeadAndTail DEF Persist, TypeOK
    <2>2. stored' \in [Sources -> Nat] /\ rows' \in Nat
        BY <1>t, <1>4, <2>1 DEF Persist, Pending, TypeOK
    <2>3. /\ at' \in [Passes -> Places] /\ batch' \in [Passes -> Seq(Pending)]
          /\ Carries'
        <3>1. PICK place \in {"imported", "partial"} : Goes(w, place, batch[w])
            BY <1>4 DEF Persist
        <3> QED BY <1>t, <1>4, <3>1, Moves DEF Persist, Places, TypeOK
    <2> QED BY <1>t, <1>4, <2>2, <2>3 DEF Persist, Typed, TypeOK, count
<1>5. ASSUME NEW w \in Passes, PersistFails(w) PROVE Typed'
    <2>1. /\ at' \in [Passes -> Places] /\ batch' \in [Passes -> Seq(Pending)]
          /\ Carries'
        BY <1>t, <1>5, Moves DEF PersistFails, Places, TypeOK
    <2> QED BY <1>t, <1>5, <2>1 DEF PersistFails, Typed, TypeOK, table, count
<1>6. ASSUME NEW w \in Passes, MarkImported(w) \/ MarkFailed(w) PROVE Typed'
    <2> DEFINE s == Head(batch[w]).id
    <2>0. at[w] \in {"imported", "partial", "failed"}
        BY <1>6 DEF MarkImported, MarkFailed
    <2>1. batch[w] # <<>> /\ batch[w] \in Seq(Pending)
        BY <1>t, <2>0 DEF Typed, Carries, TypeOK
    <2>2. s \in Sources BY <2>1, HeadAndTail DEF Pending
    <2>3. source' \in [Sources -> Row]
        <3>1. CASE MarkImported(w)
            BY <1>t, <2>2, <3>1, RowTypes DEF MarkImported, TypeOK
        <3>2. CASE MarkFailed(w)
            BY <1>t, <2>2, <3>2, RowTypes DEF MarkFailed, TypeOK
        <3> QED BY <1>6, <3>1, <3>2
    <2>4. Tail(batch[w]) \in Seq(Pending) BY <2>1, HeadAndTail
    <2>5. Goes(w, "next", Tail(batch[w]))
        BY <1>6 DEF MarkImported, MarkFailed
    <2>6. /\ at' \in [Passes -> Places] /\ batch' \in [Passes -> Seq(Pending)]
          /\ Carries'
        BY <2>4, <2>5, Moves DEF Places
    <2> QED BY <1>t, <1>6, <2>3, <2>6
        DEF MarkImported, MarkFailed, Typed, TypeOK, count
<1>7. ASSUME NEW w \in Passes, End(w) PROVE Typed'
    <2>1. /\ at' \in [Passes -> Places] /\ batch' \in [Passes -> Seq(Pending)]
          /\ Carries'
        BY <1>t, <1>7, Moves DEF End, Places
    <2> QED BY <1>t, <1>7, <2>1 DEF End, Typed, TypeOK, table, count
<1>8. ASSUME NEW w \in Passes, Abort(w) PROVE Typed'
    <2>1. /\ at' \in [Passes -> Places] /\ batch' \in [Passes -> Seq(Pending)]
          /\ Carries'
        BY <1>t, <1>8, Moves DEF Abort, Places
    <2> QED BY <1>t, <1>8, <2>1 DEF Abort, Typed, TypeOK, table
<1>9. ASSUME NEW w \in Passes, NEW s \in Sources, Export(w, s) PROVE Typed'
    <2>1. /\ at' \in [Passes -> Places] /\ batch' \in [Passes -> Seq(Pending)]
          /\ Carries'
        BY <1>t, <1>9, Moves DEF Export, Places
    <2>2. source' \in [Sources -> Row]
        BY <1>t, <1>9, RowTypes DEF Export, TypeOK
    <2> QED BY <1>t, <1>9, <2>1, <2>2 DEF Export, Typed, TypeOK
<1>10. ASSUME NEW w \in Passes, NEW s \in Sources, Reset(w, s) PROVE Typed'
    <2>0. <<[id |-> s, pull |-> 0]>> \in Seq(Pending) BY DEF Pending
    <2>1. /\ at' \in [Passes -> Places] /\ batch' \in [Passes -> Seq(Pending)]
          /\ Carries'
        BY <1>10, <2>0, Moves DEF Reset, Places
    <2>2. source[s].pull \in Nat BY <1>t DEF TypeOK, Row
    <2>3. source' \in [Sources -> Row]
        BY <1>t, <1>10, <2>2, RowTypes DEF Reset, TypeOK
    <2> QED BY <1>t, <1>10, <2>1, <2>3 DEF Reset, Typed, TypeOK
<1>11. ASSUME NEW s \in Sources, Ignore(s) PROVE Typed'
    <2>1. source' \in [Sources -> Row]
        BY <1>t, <1>11 DEF Ignore, AfterIgnore, TypeOK, Row
    <2> QED BY <1>t, <1>11, <2>1 DEF Ignore, Typed, TypeOK, Carries, pass
<1>12. ASSUME Tick PROVE Typed'
    <2>1. source' \in [Sources -> Row]
        BY <1>t, <1>12 DEF Tick, Later, TypeOK, Row
    <2> QED BY <1>t, <1>12, <2>1 DEF Tick, Typed, TypeOK, Carries, pass, count
<1>13. CASE UNCHANGED vars
    BY <1>t, <1>13 DEF vars, table, pass, count, Typed, TypeOK, Carries
<1> QED
    BY <1>1, <1>2, <1>3, <1>4, <1>5, <1>6, <1>7, <1>8, <1>9, <1>10, <1>11, <1>12,
       <1>13 DEF Next, Step

\* Every variable of the queue stays in its type, with and without overlap.
THEOREM TypeCorrect == Spec => []TypeOK
<1>1. Typed => TypeOK BY DEF Typed
<1> QED BY <1>1, TypedInit, TypedNext, PTL DEF Spec

-----------------------------------------------------------------------------
(* The dead letter, with and without overlap. *)

LEMMA DeadLetterOfRow ==
    ASSUME Typed, DeadIffExhausted, NEW s \in Sources, NEW n \in Nat,
           NEW r \in {Refreshed(s, n), AfterFailure(s), AfterImport(s, "imported"),
                      AfterImport(s, "partial"), Later(s)}
                     \cup (IF Imported(s) THEN {} ELSE {AfterIgnore(s)})
    PROVE  r.dead <=> /\ ~(r.status \in {"imported", "partial"})
                      /\ r.attempts >= MaxAttempts
<1>1. source[s] \in Row BY DEF Typed, TypeOK
<1>2. source[s].dead <=> /\ ~(source[s].status \in {"imported", "partial"})
                         /\ source[s].attempts >= MaxAttempts
    BY DEF DeadIffExhausted, Imported
<1>3. CASE r = Refreshed(s, n) BY <1>3 DEF Refreshed
<1>4. CASE r = AfterFailure(s) BY <1>1, <1>4 DEF AfterFailure, Row
<1>5. CASE r = AfterImport(s, "imported") \/ r = AfterImport(s, "partial")
    BY <1>5 DEF AfterImport
<1>6. CASE r = Later(s) BY <1>1, <1>2, <1>6 DEF Later, Row
<1>7. CASE r = AfterIgnore(s) BY <1>1, <1>2, <1>7 DEF AfterIgnore, Row
<1> QED BY <1>3, <1>4, <1>5, <1>6, <1>7

\* The source a pass is about to mark.
Marked(s) ==
    \E w \in Passes : /\ at[w] \in {"imported", "partial", "failed"}
                      /\ s = Head(batch[w]).id

\* Every step leaves a row alone or writes it by one of the statements.
Written(s) ==
    \/ source'[s] = source[s]
    \/ \E n \in Nat : source'[s] = Refreshed(s, n)
    \/ Marked(s) /\ source'[s] = AfterFailure(s)
    \/ /\ Marked(s)
       /\ \E status \in {"imported", "partial"} : source'[s] = AfterImport(s, status)
    \/ ~Imported(s) /\ source'[s] = AfterIgnore(s)
    \/ source'[s] = Later(s)

LEMMA RowsAreWritten ==
    ASSUME Typed, [Next]_vars, NEW s \in Sources
    PROVE  Written(s)
<1> USE DEF Written
<1>t. source \in [Sources -> Row] BY DEF Typed, TypeOK
<1>1. ASSUME NEW w \in Passes, NEW t \in Sources, Export(w, t) PROVE Written(s)
    <2>1. pulls + 1 \in Nat BY DEF Typed, TypeOK
    <2>2. CASE s = t BY <1>t, <1>1, <2>1, <2>2 DEF Export
    <2>3. CASE s # t BY <1>t, <1>1, <2>3 DEF Export
    <2> QED BY <2>2, <2>3
<1>2. ASSUME NEW w \in Passes, NEW t \in Sources, Reset(w, t) PROVE Written(s)
    <2>1. source[t].pull \in Nat BY <1>t DEF Row
    <2>2. CASE s = t BY <1>t, <1>2, <2>1, <2>2 DEF Reset
    <2>3. CASE s # t BY <1>t, <1>2, <2>3 DEF Reset
    <2> QED BY <2>2, <2>3
<1>3. ASSUME NEW w \in Passes, MarkImported(w) PROVE Written(s)
    <2>1. CASE s = Head(batch[w]).id BY <1>t, <1>3, <2>1 DEF MarkImported, Marked
    <2>2. CASE s # Head(batch[w]).id BY <1>t, <1>3, <2>2 DEF MarkImported
    <2> QED BY <2>1, <2>2
<1>4. ASSUME NEW w \in Passes, MarkFailed(w) PROVE Written(s)
    <2>1. CASE s = Head(batch[w]).id BY <1>t, <1>4, <2>1 DEF MarkFailed, Marked
    <2>2. CASE s # Head(batch[w]).id BY <1>t, <1>4, <2>2 DEF MarkFailed
    <2> QED BY <2>1, <2>2
<1>5. ASSUME NEW t \in Sources, Ignore(t) PROVE Written(s)
    <2>1. CASE s = t BY <1>t, <1>5, <2>1 DEF Ignore
    <2>2. CASE s # t BY <1>t, <1>5, <2>2 DEF Ignore
    <2> QED BY <2>1, <2>2
<1>6. CASE Tick BY <1>t, <1>6 DEF Tick
<1>7. ASSUME NEW w \in Passes,
             \/ Begin(w) \/ List(w) \/ Fetch(w) \/ Persist(w) \/ PersistFails(w)
             \/ End(w) \/ Abort(w)
      PROVE  Written(s)
    BY <1>7 DEF Begin, List, Fetch, Persist, PersistFails, End, Abort, table
<1>8. CASE UNCHANGED vars BY <1>8 DEF vars, table
<1> QED
    BY <1>1, <1>2, <1>3, <1>4, <1>5, <1>6, <1>7, <1>8 DEF Next, Step

\* The dead letter is exactly the sources without attempts left, whatever the
\* passes, the admin and the clock do, and even if passes overlap.
THEOREM DeadLetterIsExact == Spec => []DeadIffExhausted
<1>1. Init => DeadIffExhausted
    BY DEF Init, DeadIffExhausted, Blank, Imported
<1>2. Typed /\ DeadIffExhausted /\ [Next]_vars => DeadIffExhausted'
    <2> SUFFICES ASSUME Typed, DeadIffExhausted, [Next]_vars, NEW s \in Sources
                 PROVE  source'[s].dead <=>
                          /\ ~(source'[s].status \in {"imported", "partial"})
                          /\ source'[s].attempts >= MaxAttempts
        BY DEF DeadIffExhausted, Imported
    <2>1. Written(s) BY RowsAreWritten
    <2>2. CASE source'[s] = source[s] BY <2>2 DEF DeadIffExhausted, Imported
    <2>3. CASE \E n \in Nat : source'[s] = Refreshed(s, n)
        BY <2>3, DeadLetterOfRow
    <2>4. CASE source'[s] = AfterFailure(s) BY <2>4, DeadLetterOfRow, 0 \in Nat
    <2>5. CASE \E status \in {"imported", "partial"} : source'[s] = AfterImport(s, status)
        BY <2>5, DeadLetterOfRow, 0 \in Nat
    <2>6. CASE ~Imported(s) /\ source'[s] = AfterIgnore(s)
        BY <2>6, DeadLetterOfRow, 0 \in Nat
    <2>7. CASE source'[s] = Later(s) BY <2>7, DeadLetterOfRow, 0 \in Nat
    <2> QED BY <2>1, <2>2, <2>3, <2>4, <2>5, <2>6, <2>7 DEF Written
<1> QED BY <1>1, <1>2, TypedInit, TypedNext, PTL DEF Spec

(***************************************************************************)
(* With exclusive passes.  While a pass is under way nobody else writes    *)
(* the columns it read, so what it holds in hand is still what the table   *)
(* says: the same sheet, no dead letter, no delay.  The admin's ignore and *)
(* the clock only take delays away.                                        *)
(***************************************************************************)
InHand == {"next", "imported", "partial", "failed"}

Fresh(s) == ~source[s].dead /\ source[s].wait = 0

AsRead(b) ==
    /\ \A i \in 1 .. Len(b) :
          source[b[i].id].pull = b[i].pull /\ Fresh(b[i].id)
    /\ \A i, j \in 1 .. Len(b) : i # j => b[i].id # b[j].id

PassInv(w) ==
    /\ at[w] \in InHand => AsRead(batch[w])
    /\ at[w] = "reset" => Fresh(Head(batch[w]).id)
    /\ at[w] \in {"imported", "partial"} =>
          stored[Head(batch[w]).id] = Head(batch[w]).pull

Solo == \A v, w \in Passes : at[v] # "idle" /\ at[w] # "idle" => v = w

ExclusiveInv == Solo /\ ImportedIsCurrent /\ \A w \in Passes : PassInv(w)

\* A step of the only pass says nothing new about the others.
LEMMA OnlyOne ==
    ASSUME Typed, Solo, NEW w \in Passes, NEW place, NEW todo, Goes(w, place, todo),
           at[w] # "idle" \/ \A v \in Passes : at[v] = "idle"
    PROVE  /\ Solo' /\ at'[w] = place /\ batch'[w] = todo
           /\ \A v \in Passes \ {w} : PassInv(v)'
<1>1. at'[w] = place /\ batch'[w] = todo BY DEF Typed, TypeOK, Goes
<1>2. \A v \in Passes \ {w} : at'[v] = "idle" BY DEF Typed, TypeOK, Goes, Solo
<1>3. Solo' BY <1>2 DEF Solo
<1>4. \A v \in Passes \ {w} : PassInv(v)' BY <1>2 DEF PassInv, InHand
<1> QED BY <1>1, <1>3, <1>4

LEMMA ListExclusive ==
    ASSUME Typed, ExclusiveInv, NEW w \in Passes, List(w)
    PROVE  ExclusiveInv'
<1>l. PICK limit \in Limits : \E n \in 0 .. limit : \E q \in [1 .. n -> Sources] :
          /\ Listing(q, limit)
          /\ Goes(w, "next",
                  [i \in 1 .. n |-> [id |-> q[i], pull |-> source[q[i]].pull]])
    BY DEF List
<1>1. PICK n \in 0 .. limit : \E q \in [1 .. n -> Sources] :
          /\ Listing(q, limit)
          /\ Goes(w, "next",
                  [i \in 1 .. n |-> [id |-> q[i], pull |-> source[q[i]].pull]])
    BY <1>l
<1>2. PICK q \in [1 .. n -> Sources] :
          /\ Listing(q, limit)
          /\ Goes(w, "next",
                  [i \in 1 .. n |-> [id |-> q[i], pull |-> source[q[i]].pull]])
    BY <1>1
<1> DEFINE b == [i \in 1 .. n |-> [id |-> q[i], pull |-> source[q[i]].pull]]
<1>3. /\ Solo' /\ at'[w] = "next" /\ batch'[w] = b
      /\ \A v \in Passes \ {w} : PassInv(v)'
    BY <1>2, OnlyOne DEF List, ExclusiveInv
<1>4. source' = source /\ stored' = stored BY DEF List, table
<1>5. Len(q) = n /\ Len(b) = n OBVIOUS
<1>6. \A i \in 1 .. n : q[i] \in Due BY <1>2, <1>5 DEF Listing
<1>7. \A i, j \in 1 .. n : i < j => q[i] # q[j]
    <2> SUFFICES ASSUME NEW i \in 1 .. n, NEW j \in 1 .. n, i < j, q[i] = q[j]
                 PROVE  FALSE
        OBVIOUS
    <2>1. Before(q[i], q[j]) BY <1>2, <1>5 DEF Listing
    <2>2. source[q[i]].pull \in Nat BY DEF Typed, TypeOK, Row
    <2> QED BY <2>1, <2>2 DEF Before
<1>8. AsRead(b)
    <2>1. \A i \in 1 .. n : source[b[i].id].pull = b[i].pull /\ Fresh(b[i].id)
        BY <1>6 DEF Due, Fresh
    <2>2. \A i, j \in 1 .. n : i # j => b[i].id # b[j].id
        BY <1>7
    <2> HIDE DEF b
    <2> QED BY <1>5, <2>1, <2>2 DEF AsRead
<1>9. PassInv(w)'
    <2> HIDE DEF b
    <2> QED BY <1>3, <1>4, <1>8 DEF PassInv, AsRead, Fresh
<1>10. ImportedIsCurrent' BY <1>4 DEF ExclusiveInv, ImportedIsCurrent, Imported
<1> QED BY <1>3, <1>9, <1>10 DEF ExclusiveInv

\* A mark takes the head off the batch and writes the row of the head only.
LEMMA MarkExclusive ==
    ASSUME Typed, ExclusiveInv, NEW w \in Passes, MarkImported(w) \/ MarkFailed(w)
    PROVE  ExclusiveInv'
<1> DEFINE b == batch[w]
           h == Head(b)
<1>1. at[w] \in {"imported", "partial", "failed"} /\ Goes(w, "next", Tail(b))
    BY DEF MarkImported, MarkFailed
<1>2. b # <<>> /\ b \in Seq(Pending) BY <1>1 DEF Typed, Carries, TypeOK
<1>3. /\ Solo' /\ at'[w] = "next" /\ batch'[w] = Tail(b)
      /\ \A v \in Passes \ {w} : PassInv(v)'
    BY <1>1, OnlyOne DEF ExclusiveInv
<1>4. h.id \in Sources /\ h = b[1] BY <1>2, HeadAndTail DEF Pending
<1>5. stored' = stored BY DEF MarkImported, MarkFailed
<1>6. \A s \in Sources \ {h.id} : source'[s] = source[s]
    BY DEF MarkImported, MarkFailed, Typed, TypeOK
<1>7. AsRead(b) BY <1>1 DEF ExclusiveInv, PassInv, InHand
<1>8. AsRead(batch[w])'
    <2>1. \A i \in 1 .. Len(Tail(b)) : Tail(b)[i] = b[i + 1] /\ i + 1 \in 1 .. Len(b)
        BY <1>2, HeadAndTail
    <2>2. \A i \in 1 .. Len(Tail(b)) :
              Tail(b)[i].id \in Sources /\ Tail(b)[i].id # h.id
        <3>0. \A i \in 1 .. Len(b) : b[i] \in Pending
            <4> HIDE DEF b
            <4> QED BY <1>2
        <3>1. \A i \in 1 .. Len(b) : b[i].id \in Sources BY <3>0 DEF Pending
        <3>2. 1 \in 1 .. Len(b) BY <1>2, HeadAndTail
        <3> QED BY <1>4, <1>7, <2>1, <3>1, <3>2 DEF AsRead
    <2>3. \A i \in 1 .. Len(Tail(b)) :
              source[Tail(b)[i].id].pull = Tail(b)[i].pull /\ Fresh(Tail(b)[i].id)
        BY <1>7, <2>1 DEF AsRead
    <2>4. \A i, j \in 1 .. Len(Tail(b)) : i # j => Tail(b)[i].id # Tail(b)[j].id
        BY <1>7, <2>1 DEF AsRead
    <2> DEFINE t == Tail(b)
    <2>5. \A i \in 1 .. Len(t) : source'[t[i].id] = source[t[i].id]
        BY <1>6, <2>2
    <2>6. \A i \in 1 .. Len(t) : /\ source'[t[i].id].pull = t[i].pull
                                 /\ ~source'[t[i].id].dead
                                 /\ source'[t[i].id].wait = 0
        BY <2>3, <2>5 DEF Fresh
    <2>7. batch'[w] = t BY <1>3
    <2>8. \A i, j \in 1 .. Len(t) : i # j => t[i].id # t[j].id BY <2>4
    <2> HIDE DEF t, b
    <2> QED BY <2>6, <2>7, <2>8 DEF AsRead, Fresh
<1>9. PassInv(w)' BY <1>3, <1>8 DEF PassInv
<1>10. ImportedIsCurrent'
    <2>1. CASE MarkImported(w)
        <3>1. stored[h.id] = h.pull /\ source[h.id].pull = h.pull
            <4>1. 1 \in 1 .. Len(b) BY <1>2, HeadAndTail
            <4>2. source[h.id].pull = h.pull BY <1>4, <1>7, <4>1 DEF AsRead
            <4>3. at[w] \in {"imported", "partial"} BY <2>1 DEF MarkImported
            <4> QED BY <4>2, <4>3 DEF ExclusiveInv, PassInv
        <3>2. source'[h.id] = AfterImport(h.id, at[w])
            BY <1>4, <2>1 DEF MarkImported, Typed, TypeOK
        <3>3. source'[h.id].pull = source[h.id].pull BY <3>2 DEF AfterImport
        <3> QED BY <1>5, <1>6, <3>1, <3>3 DEF ExclusiveInv, ImportedIsCurrent, Imported
    <2>2. CASE MarkFailed(w)
        <3>1. source'[h.id] = AfterFailure(h.id)
            BY <1>4, <2>2 DEF MarkFailed, Typed, TypeOK
        <3>2. source'[h.id].status = "failed" BY <3>1 DEF AfterFailure
        <3> QED BY <1>5, <1>6, <3>2 DEF ExclusiveInv, ImportedIsCurrent, Imported
    <2> QED BY <2>1, <2>2
<1> QED BY <1>3, <1>9, <1>10 DEF ExclusiveInv

\* The sources of a batch are known to the table.
LEMMA BatchSources ==
    ASSUME Typed, NEW w \in Passes
    PROVE  \A i \in 1 .. Len(batch[w]) : batch[w][i].id \in Sources
<1>1. batch[w] \in Seq(Pending) BY DEF Typed, TypeOK
<1>2. \A i \in 1 .. Len(batch[w]) : batch[w][i] \in Pending BY <1>1
<1> QED BY <1>2 DEF Pending

LEMMA HeadSource ==
    ASSUME Typed, NEW w \in Passes, batch[w] # <<>>
    PROVE  /\ Head(batch[w]) \in Pending /\ Head(batch[w]).id \in Sources
           /\ Head(batch[w]) = batch[w][1] /\ 1 \in 1 .. Len(batch[w])
<1>1. batch[w] \in Seq(Pending) BY DEF Typed, TypeOK
<1>2. Head(batch[w]) \in Pending BY <1>1, HeadAndTail
<1>3. Head(batch[w]) = batch[w][1] /\ 1 \in 1 .. Len(batch[w])
    BY <1>1, HeadAndTail
<1> QED BY <1>2, <1>3 DEF Pending

\* Ignore, the clock and a stutter: sheets, statuses and dead letters stay,
\* delays only get shorter.
LEMMA GentleExclusive ==
    ASSUME Typed, ExclusiveInv, UNCHANGED <<pass, stored>>,
           \A s \in Sources : /\ source'[s].pull = source[s].pull
                              /\ source'[s].status = source[s].status
                              /\ source'[s].dead = source[s].dead
                              /\ source[s].wait = 0 => source'[s].wait = 0
    PROVE  ExclusiveInv'
<1>1. Solo' BY DEF ExclusiveInv, Solo, pass
<1>2. ImportedIsCurrent' BY DEF ExclusiveInv, ImportedIsCurrent, Imported
<1>3. ASSUME NEW w \in Passes PROVE PassInv(w)'
    <2>1. at' = at /\ batch' = batch BY DEF pass
    <2>2. PassInv(w) BY DEF ExclusiveInv
    <2>3. \A s \in Sources : Fresh(s) => Fresh(s)' BY DEF Fresh
    <2>4. ASSUME at[w] = "reset" PROVE Fresh(Head(batch[w]).id)'
        <3>1. Head(batch[w]).id \in Sources
            BY <2>4, HeadSource DEF Typed, Carries
        <3> QED BY <2>1, <2>2, <2>3, <2>4, <3>1 DEF PassInv
    <2>5. ASSUME AsRead(batch[w]) PROVE AsRead(batch[w])'
        BY <2>1, <2>3, <2>5, BatchSources DEF AsRead
    <2> QED BY <2>1, <2>2, <2>4, <2>5 DEF PassInv, pass
<1> QED BY <1>1, <1>2, <1>3 DEF ExclusiveInv

LEMMA ExclusiveNext ==
    ASSUME Exclusive, Typed, ExclusiveInv, [Next]_vars
    PROVE  ExclusiveInv'
<1>1. ASSUME NEW w \in Passes, Begin(w) PROVE ExclusiveInv'
    <2>1. /\ Solo' /\ at'[w] = "open"
          /\ \A v \in Passes \ {w} : PassInv(v)'
        BY <1>1, OnlyOne DEF Begin, ExclusiveInv
    <2>2. PassInv(w)' BY <2>1 DEF PassInv, InHand
    <2>3. ImportedIsCurrent'
        BY <1>1 DEF Begin, table, ExclusiveInv, ImportedIsCurrent, Imported
    <2> QED BY <2>1, <2>2, <2>3 DEF ExclusiveInv
<1>2. ASSUME NEW w \in Passes, List(w) PROVE ExclusiveInv'
    BY <1>2, ListExclusive
<1>3. ASSUME NEW w \in Passes, Fetch(w) PROVE ExclusiveInv'
    <2> DEFINE s == Head(batch[w]).id
    <2>1. at[w] = "reset" /\ Fresh(s) /\ source' = source /\ stored' = stored
        BY <1>3 DEF Fetch, ExclusiveInv, PassInv, table
    <2>2. ImportedIsCurrent' BY <2>1 DEF ExclusiveInv, ImportedIsCurrent, Imported
    <2>3. CASE Imported(s)
        <3>1. /\ Solo' /\ at'[w] = "idle"
              /\ \A v \in Passes \ {w} : PassInv(v)'
            BY <1>3, <2>3, OnlyOne DEF Fetch, ExclusiveInv
        <3>2. PassInv(w)' BY <3>1 DEF PassInv, InHand
        <3> QED BY <2>2, <3>1, <3>2 DEF ExclusiveInv
    <2>4. CASE ~Imported(s)
        <3> DEFINE b == <<[id |-> s, pull |-> source[s].pull]>>
        <3>1. /\ Solo' /\ at'[w] = "next" /\ batch'[w] = b
              /\ \A v \in Passes \ {w} : PassInv(v)'
            BY <1>3, <2>4, OnlyOne DEF Fetch, ExclusiveInv
        <3>2. /\ Len(b) = 1 /\ b[1].id = s /\ b[1].pull = source[s].pull
            OBVIOUS
        <3>3. AsRead(b)
            <4> HIDE DEF b
            <4> QED BY <2>1, <3>2 DEF AsRead
        <3>4. PassInv(w)'
            <4> HIDE DEF b
            <4> QED BY <2>1, <3>1, <3>3 DEF PassInv, AsRead, Fresh
        <3> QED BY <2>2, <3>1, <3>4 DEF ExclusiveInv
    <2> QED BY <2>3, <2>4
<1>4. ASSUME NEW w \in Passes, Persist(w) PROVE ExclusiveInv'
    <2> DEFINE h == Head(batch[w])
    <2>1. at[w] = "next" /\ batch[w] # <<>> /\ source' = source BY <1>4 DEF Persist
    <2>2. PICK place \in {"imported", "partial"} : Goes(w, place, batch[w])
        BY <1>4 DEF Persist
    <2>3. /\ Solo' /\ at'[w] = place /\ batch'[w] = batch[w]
          /\ \A v \in Passes \ {w} : PassInv(v)'
        BY <2>1, <2>2, OnlyOne DEF ExclusiveInv
    <2>4. AsRead(batch[w]) BY <2>1 DEF ExclusiveInv, PassInv, InHand
    <2>5. h.id \in Sources /\ source[h.id].pull = h.pull
        BY <2>1, <2>4, HeadSource DEF AsRead
    <2>6. stored' = [stored EXCEPT ![h.id] = h.pull] BY <1>4 DEF Persist
    <2>7. stored'[h.id] = h.pull BY <2>5, <2>6 DEF Typed, TypeOK
    <2>8. ImportedIsCurrent'
        <3> SUFFICES ASSUME NEW s \in Sources, Imported(s)
                     PROVE  stored'[s] = source[s].pull
            BY <2>1 DEF ImportedIsCurrent, Imported
        <3>1. CASE s = h.id BY <2>5, <2>7, <3>1
        <3>2. CASE s # h.id
            BY <2>6, <3>2 DEF Typed, TypeOK, ExclusiveInv, ImportedIsCurrent
        <3> QED BY <3>1, <3>2
    <2>9. PassInv(w)'
        BY <2>1, <2>3, <2>4, <2>7 DEF PassInv, AsRead, Fresh
    <2> QED BY <2>3, <2>8, <2>9 DEF ExclusiveInv
<1>5. ASSUME NEW w \in Passes, PersistFails(w) PROVE ExclusiveInv'
    <2>1. at[w] = "next" /\ source' = source /\ stored' = stored
        BY <1>5 DEF PersistFails, table
    <2>2. /\ Solo' /\ at'[w] = "failed" /\ batch'[w] = batch[w]
          /\ \A v \in Passes \ {w} : PassInv(v)'
        BY <1>5, <2>1, OnlyOne DEF PersistFails, ExclusiveInv
    <2>3. AsRead(batch[w]) BY <2>1 DEF ExclusiveInv, PassInv, InHand
    <2>4. PassInv(w)' BY <2>1, <2>2, <2>3 DEF PassInv, AsRead, Fresh
    <2>5. ImportedIsCurrent' BY <2>1 DEF ExclusiveInv, ImportedIsCurrent, Imported
    <2> QED BY <2>2, <2>4, <2>5 DEF ExclusiveInv
<1>6. ASSUME NEW w \in Passes, MarkImported(w) \/ MarkFailed(w) PROVE ExclusiveInv'
    BY <1>6, MarkExclusive
<1>7. ASSUME NEW w \in Passes, End(w) \/ Abort(w) PROVE ExclusiveInv'
    <2>1. at[w] # "idle" /\ Goes(w, "idle", <<>>) /\ source' = source /\ stored' = stored
        BY <1>7 DEF End, Abort, table
    <2>2. /\ Solo' /\ at'[w] = "idle"
          /\ \A v \in Passes \ {w} : PassInv(v)'
        BY <2>1, OnlyOne DEF ExclusiveInv
    <2>3. PassInv(w)' BY <2>2 DEF PassInv, InHand
    <2>4. ImportedIsCurrent' BY <2>1 DEF ExclusiveInv, ImportedIsCurrent, Imported
    <2> QED BY <2>2, <2>3, <2>4 DEF ExclusiveInv
<1>8. ASSUME NEW w \in Passes, NEW s \in Sources, Export(w, s) PROVE ExclusiveInv'
    <2>1. /\ Solo' /\ at'[w] = "exported"
          /\ \A v \in Passes \ {w} : PassInv(v)'
        BY <1>8, OnlyOne DEF Export, ExclusiveInv
    <2>2. PassInv(w)' BY <2>1 DEF PassInv, InHand
    <2>3. stored' = stored /\ source'[s].status = "pending"
        BY <1>8 DEF Export, Refreshed, Typed, TypeOK
    <2>4. \A t \in Sources \ {s} : source'[t] = source[t]
        BY <1>8 DEF Export, Typed, TypeOK
    <2>5. ImportedIsCurrent'
        BY <2>3, <2>4 DEF ExclusiveInv, ImportedIsCurrent, Imported
    <2> QED BY <2>1, <2>2, <2>5 DEF ExclusiveInv
<1>9. ASSUME NEW w \in Passes, NEW s \in Sources, Reset(w, s) PROVE ExclusiveInv'
    <2>1. /\ Solo' /\ at'[w] = "reset" /\ batch'[w] = <<[id |-> s, pull |-> 0]>>
          /\ \A v \in Passes \ {w} : PassInv(v)'
        BY <1>9, OnlyOne DEF Reset, ExclusiveInv
    <2>2. /\ stored' = stored /\ source'[s].status = "pending"
          /\ ~source'[s].dead /\ source'[s].wait = 0
        BY <1>9 DEF Reset, Refreshed, Typed, TypeOK
    <2>3. \A t \in Sources \ {s} : source'[t] = source[t]
        BY <1>9 DEF Reset, Typed, TypeOK
    <2>4. Head(batch'[w]).id = s BY <2>1
    <2>5. PassInv(w)' BY <2>1, <2>2, <2>4 DEF PassInv, InHand, Fresh
    <2>6. ImportedIsCurrent'
        BY <2>2, <2>3 DEF ExclusiveInv, ImportedIsCurrent, Imported
    <2> QED BY <2>1, <2>5, <2>6 DEF ExclusiveInv
<1>10. ASSUME NEW s \in Sources, Ignore(s) PROVE ExclusiveInv'
    BY <1>10, GentleExclusive DEF Ignore, AfterIgnore, Typed, TypeOK, Row
<1>11. ASSUME Tick PROVE ExclusiveInv'
    <2>1. \A s \in Sources : source'[s] = Later(s) BY <1>11 DEF Tick
    <2>2. \A s \in Sources : source[s] \in Row BY DEF Typed, TypeOK
    <2> QED BY <1>11, <2>1, <2>2, GentleExclusive DEF Tick, Later, Row
<1>12. CASE UNCHANGED vars
    BY <1>12, GentleExclusive DEF vars, table
<1> QED
    BY <1>1, <1>2, <1>3, <1>4, <1>5, <1>6, <1>7, <1>8, <1>9, <1>10, <1>11, <1>12
       DEF Next, Step

LEMMA ExclusiveCorrect == ASSUME Exclusive PROVE Spec => [](Typed /\ ExclusiveInv)
<1>1. Init => ExclusiveInv
    BY DEF Init, ExclusiveInv, Solo, PassInv, InHand, ImportedIsCurrent, Imported, Blank
<1> QED BY <1>1, TypedInit, TypedNext, ExclusiveNext, PTL DEF Spec

\* As long as passes exclude one another, a source that counts as imported has
\* the sheet it names in the business tables.
THEOREM ImportsAreCurrent == ASSUME Exclusive PROVE Spec => []ImportedIsCurrent
<1>1. ExclusiveInv => ImportedIsCurrent BY DEF ExclusiveInv
<1> QED BY <1>1, ExclusiveCorrect, PTL


\* What a pass marks was due when it was listed and still is.
LEMMA MarksAreFresh ==
    ASSUME Typed, ExclusiveInv, NEW s \in Sources, Marked(s)
    PROVE  Fresh(s)
<1>1. PICK w \in Passes : /\ at[w] \in {"imported", "partial", "failed"}
                          /\ s = Head(batch[w]).id
    BY DEF Marked
<1>2. batch[w] # <<>> BY <1>1 DEF Typed, Carries
<1>3. AsRead(batch[w]) BY <1>1 DEF ExclusiveInv, PassInv, InHand
<1> QED BY <1>1, <1>2, <1>3, HeadSource DEF AsRead

LEMMA AttemptsAndDeaths ==
    ASSUME Typed, ExclusiveInv, [Next]_vars, NEW s \in Sources
    PROVE  /\ source'[s].attempts > source[s].attempts => source[s].wait = 0
           /\ source[s].dead /\ ~source'[s].dead =>
                  source'[s].attempts = 0 /\ source'[s].status = "pending"
<1>0. source[s].attempts \in Nat /\ Written(s)
    BY RowsAreWritten DEF Typed, TypeOK, Row
<1>1. CASE source'[s] = source[s] BY <1>0, <1>1
<1>2. CASE \E n \in Nat : source'[s] = Refreshed(s, n)
    BY <1>0, <1>2 DEF Refreshed
<1>3. CASE Marked(s) BY <1>3, MarksAreFresh DEF Fresh
<1>4. CASE source'[s] = AfterIgnore(s) BY <1>0, <1>4 DEF AfterIgnore
<1>5. CASE source'[s] = Later(s) BY <1>0, <1>5 DEF Later
<1> QED BY <1>0, <1>1, <1>2, <1>3, <1>4, <1>5 DEF Written

\* No source is attempted again before its delay has passed.
THEOREM DelaysAreKept == ASSUME Exclusive PROVE Spec => BackoffRespected
<1>1. Typed /\ ExclusiveInv /\ [Next]_vars =>
          [\A s \in Sources : source'[s].attempts > source[s].attempts =>
               source[s].wait = 0]_vars
    BY AttemptsAndDeaths
<1> QED BY <1>1, ExclusiveCorrect, PTL DEF Spec, BackoffRespected

\* A dead letter is not opened by an automatic pass.
THEOREM DeadLettersStay == ASSUME Exclusive PROVE Spec => DeadLettersWait
<1>1. Typed /\ ExclusiveInv /\ [Next]_vars =>
          [\A s \in Sources : source[s].dead /\ ~source'[s].dead =>
               source'[s].attempts = 0 /\ source'[s].status = "pending"]_vars
    BY AttemptsAndDeaths
<1> QED BY <1>1, ExclusiveCorrect, PTL DEF Spec, DeadLettersWait

\* With exclusive passes retries keep to both of their rules, the delay of a
\* failed source and the lock of the dead letter (data_import.rs:213, 214).
THEOREM RetriesAreRuled == ASSUME Exclusive PROVE Spec => RetriesKeepTheRules
BY DelaysAreKept, DeadLettersStay DEF RetriesKeepTheRules
=============================================================================
