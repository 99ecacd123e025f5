------------------------------- MODULE Reports -------------------------------
(***************************************************************************)
(* The figures of one period: the daily play counts that imports write     *)
(* (src/src/xingtu/data_import.rs), what the queries of the HTTP API make  *)
(* of them (src/src/server/query.rs, audit_extra_query.rs), the daily      *)
(* report of the Feishu data connector (src/src/server/data_sync.rs) and   *)
(* the card of the project report (src/src/pipeline/project_report.rs).    *)
(*                                                                         *)
(* Every SQL statement is one operator on the tables.  What takes several  *)
(* statements or several requests is a reader with a step for each: a      *)
(* paged listing counts and selects, a synchronisation of the connector    *)
(* computes the report again for every page.  Imports fall in between, and *)
(* so do the other writes that change what a filter selects.               *)
(***************************************************************************)
EXTENDS Integers, FiniteSets, Sequences, FiniteSetsExt, SequencesExt

CONSTANTS
    Videos, Sessions,   \* video ids and live room ids, numbers
    LastDay,            \* the days are 0 .. LastDay
    Month,              \* those of the period's task_month, <<first, last>>
    PublishDay,         \* of a video
    AuthorOf, LabelOf,  \* of a video; a blank one is NoName
    NoName,
    Live,               \* of a session: day, anchor, pv, acu and seconds
    Counts,             \* play counts
    PageSize,           \* limit of a listing and page size of the connector
    Listings,           \* the kinds of listings that are read
    MaxImports,         \* bound of the imports
    MaxLeft             \* bound of the rows that leave one listing between its pages

\* A day has no row of a video, or one whose count is NULL.
NoRow == -2
Null  == -1

Days     == 0 .. LastDay
InMonth  == Month[1] .. Month[2]
Ranges   == {r \in Days \X Days : r[1] <= r[2]}
InRange(r) == r[1] .. r[2]

ASSUME ReportConstants ==
    /\ Videos \subseteq Nat /\ Sessions \subseteq Nat /\ Counts \subseteq Nat
    /\ LastDay \in Nat /\ Month \in Ranges /\ Month[1] > 0
    /\ PublishDay \in [Videos -> Days]
    /\ DOMAIN AuthorOf = Videos /\ DOMAIN LabelOf = Videos
    /\ Live \in [Sessions -> [day : Days, anchor : Nat, pv : Nat \cup {Null},
                              acu : Nat \cup {Null}, seconds : Nat]]
    /\ IsFiniteSet(Videos) /\ IsFiniteSet(Sessions)
    /\ PageSize \in Nat \ {0} /\ MaxImports \in Nat /\ MaxLeft \in Nat
    /\ Listings \subseteq {"video", "live", "source", "search"}

VARIABLES
    metric,    \* video_daily_metric.play_count
    seen,      \* last_seen_at of video_content, as the number of the import
    seenLive,  \* and of live_session
    imports,   \* how many there were
    list,      \* a reader who pages through a listing
    sync       \* a synchronisation of the connector

tables == <<metric, seen, seenLive, imports>>
reportVars   == <<tables, list, sync>>

-----------------------------------------------------------------------------
(* The tables. *)

Present   == {v \in Videos : seen[v] > 0}
Streamed  == {s \in Sessions : seenLive[s] > 0}
Rows(v)   == {d \in Days : metric[v][d] # NoRow}
OrZero(n) == IF n = Null THEN 0 ELSE n
Sum(S, f(_)) == SumFunction([x \in S |-> f(x)])
Names(S)  == S \ {NoName}
Positive(n) == IF n > 0 THEN n ELSE 0

\* LAG(play_count) OVER (PARTITION BY video ORDER BY stat_date) on the given rows.
Lag(v, d, rows) ==
    LET before == {e \in rows : e < d}
    IN  IF before = {} THEN Null ELSE metric[v][Max(before)]

\* play_increment: NULL for a row without a count.
Increment(v, d) ==
    IF metric[v][d] = Null THEN Null
    ELSE Positive(metric[v][d] - OrZero(Lag(v, d, Rows(v))))

\* The play count of the last of the given days that has a row.
Latest(v, days) ==
    LET rows == Rows(v) \cap days
    IN  IF rows = {} THEN 0 ELSE OrZero(metric[v][Max(rows)])

-----------------------------------------------------------------------------
(* Queries of the analysis endpoints: S is what the filters select. *)

Growth(v, r) == Sum(Rows(v) \cap InRange(r), LAMBDA d : OrZero(Increment(v, d)))
Active(S, r) == {v \in S : Rows(v) \cap InRange(r) # {}}

VideoSummary(S, r) ==
    [play     |-> Sum(S, LAMBDA v : Growth(v, r)),
     contents |-> Cardinality(Active(S, r)),
     authors  |-> Cardinality(Names({AuthorOf[v] : v \in Active(S, r)}))]

\* Mutant: the rows before the range are dropped before LAG looks at them.
LabelSeriesInRange(v, r) == Rows(v) \cap InRange(r)

\* metric_series: only what is after the range is dropped before LAG.
LabelSeries(v, r) == Rows(v) \cap (0 .. r[2])

LabelGrowth(v, r) ==
    Sum(Rows(v) \cap InRange(r), LAMBDA d :
        Positive(OrZero(metric[v][d]) - OrZero(Lag(v, d, LabelSeries(v, r)))))

LabelRow(S, r, l) ==
    LET mine      == {v \in S : LabelOf[v] = l}
        published == {v \in mine : PublishDay[v] \in InRange(r)}
    IN  [label     |-> l,
         published |-> Cardinality(published),
         active    |-> Cardinality(Active(mine, r)),
         authors   |-> Cardinality(Names({AuthorOf[v] : v \in published \cup Active(mine, r)})),
         play      |-> Sum(mine, LAMBDA v : LabelGrowth(v, r))]

LabelSummary(S, r) ==
    {LabelRow(S, r, l) : l \in {LabelOf[v] : v \in
        Active(S, r) \cup {w \in S : PublishDay[w] \in InRange(r)}}}

\* A video without any metric is listed, one without a metric in the range is not.
VideosWithMetrics(S, r) ==
    {[video  |-> v,
      points |-> [d \in Rows(v) \cap InRange(r) |-> [play |-> metric[v][d], inc |-> Increment(v, d)]],
      latest |-> LET last == Max(Rows(v) \cap InRange(r))
                 IN  IF Active({v}, r) = {} THEN Null ELSE metric[v][last]] : v \in {w \in S : Rows(w) = {}} \cup Active(S, r)}

MetricDays(v, r) == Cardinality(Rows(v) \cap InRange(r))
LastMetric(v, r) == Max(Rows(v) \cap InRange(r))

\* More plays come first; of the same plays, more on an average day, which is fewer days
\* unless there were no plays at all; and then the later last day.
Above(v, w, r) ==
    \/ Growth(v, r) > Growth(w, r)
    \/ /\ Growth(v, r) = Growth(w, r)
       /\ \/ MetricDays(v, r) < MetricDays(w, r) /\ Growth(v, r) > 0
          \/ /\ MetricDays(v, r) = MetricDays(w, r) \/ Growth(v, r) = 0
             /\ LastMetric(v, r) > LastMetric(w, r)

TopVideos(S, r, n) ==
    LET ranked == CHOOSE seq \in SetToSeqs(Active(S, r)) :
                     \A i, j \in DOMAIN seq : i < j => ~ Above(seq[j], seq[i], r)
    IN  [i \in 1 .. Min({n, Len(ranked)}) |->
            [video |-> ranked[i], play |-> Growth(ranked[i], r), days |-> MetricDays(ranked[i], r)]]

LiveSummary(L, r) ==
    LET held == {s \in L : Live[s].day \in InRange(r)}
    IN  [pv       |-> Sum(held, LAMBDA s : OrZero(Live[s].pv)),
         sessions |-> Cardinality(held),
         anchors  |-> Cardinality(Names({Live[s].anchor : s \in held}))]

-----------------------------------------------------------------------------
(* Queries on the contents whose audit fields match. *)

SearchSummary(S, L) ==
    [videos  |-> Cardinality(S),
     metered |-> Cardinality({v \in S : Rows(v) # {}}),
     play    |-> Sum(S, LAMBDA v : Latest(v, Days)),
     lives   |-> Cardinality(L),
     pv      |-> Sum(L, LAMBDA s : OrZero(Live[s].pv))]

\* Sessions that count for the weighted average of an anchor's ACU.
Weighed(L, a) == {s \in L : Live[s].anchor = a /\ Live[s].acu # Null /\ Live[s].seconds > 0}

LivePvBelowAcu(L, bound) ==
    LET Below(a) ==
            LET w == Weighed(L, a)
            IN  /\ w # {}
                /\ Sum(w, LAMBDA s : Live[s].acu * Live[s].seconds)
                     < bound * Sum(w, LAMBDA s : Live[s].seconds)
        named == {s \in L : Live[s].anchor # NoName}
        users == {a \in {Live[s].anchor : s \in named} : Below(a)}
    IN  Sum({s \in named : Live[s].anchor \in users}, LAMBDA s : OrZero(Live[s].pv))

PlayBelowAuthorTotal(S, bound) ==
    LET Total(a) == Sum({v \in S : AuthorOf[v] = a}, LAMBDA v : Latest(v, Days))
        users    == {a \in Names({AuthorOf[v] : v \in S}) : Total(a) < bound}
    IN  Sum(users, Total)

-----------------------------------------------------------------------------
(* The daily report and the card of the project. *)

MonthVideos   == {v \in Present : PublishDay[v] \in InMonth}
MonthSessions == {s \in Streamed : Live[s].day \in InMonth}
FirstDay(a)   == Min({PublishDay[v] : v \in {w \in MonthVideos : AuthorOf[w] = a}})
FirstLive(a)  == Min({Live[s].day : s \in {t \in MonthSessions : Live[t].anchor = a}})

VideoDay(d) ==
    LET out     == {v \in MonthVideos : PublishDay[v] <= d}
        authors == Names({AuthorOf[v] : v \in MonthVideos})
    IN  [newAuthors |-> Cardinality({a \in authors : FirstDay(a) = d}),
         authors    |-> Cardinality({a \in authors : FirstDay(a) <= d}),
         newVideos  |-> Cardinality({v \in out : PublishDay[v] = d}),
         videos     |-> Cardinality(out),
         finalPlay  |-> Sum({v \in out : PublishDay[v] = d}, LAMBDA v : Latest(v, Days)),
         totalPlay  |-> Sum(out, LAMBDA v : Latest(v, 0 .. d))]

LiveDay(d) ==
    LET anchors == Names({Live[s].anchor : s \in MonthSessions})
        Pv(S)   == Sum(S, LAMBDA s : OrZero(Live[s].pv))
    IN  [newAnchors |-> Cardinality({a \in anchors : FirstLive(a) = d}),
         anchors    |-> Cardinality({a \in anchors : FirstLive(a) <= d}),
         pv         |-> Pv({s \in MonthSessions : Live[s].day = d}),
         totalPv    |-> Pv({s \in MonthSessions : Live[s].day <= d})]

ProjectReport ==
    [play |-> Sum(MonthVideos, LAMBDA v : Latest(v, Days)),
     pv   |-> Sum(MonthSessions, LAMBDA s : OrZero(Live[s].pv))]

\* Mutant: the first row of the month counts from its own total.
ReportRowFromItself(plays, d) ==
    [day |-> d, play |-> plays[d],
     inc |-> plays[d] - plays[Max({d - 1, Month[1]})], pv |-> LiveDay(d).pv]

\* A row of the report from the totals that were read first and the live days.
ReportRow(plays, d) ==
    [day |-> d, play |-> plays[d], inc |-> plays[d] - plays[d - 1], pv |-> LiveDay(d).pv]

-----------------------------------------------------------------------------
(* Readers. *)

Slice(seq, offset) == SubSeq(seq, offset + 1, Min({offset + PageSize, Len(seq)}))

NoList == [kind |-> "video", counted |-> TRUE, out |-> {}, pc |-> "idle", total |-> 0,
           offset |-> 0, got |-> {}, must |-> {}, left |-> 0, grown |-> FALSE]
NoSync == [pc |-> "idle", plays |-> [d \in Month[1] - 1 .. Month[2] |-> 0],
           offset |-> 0, rows |-> <<>>, clean |-> TRUE]

ReportsInit ==
    /\ metric = [v \in Videos |-> [d \in Days |-> NoRow]]
    /\ seen = [v \in Videos |-> 0]
    /\ seenLive = [s \in Sessions |-> 0]
    /\ imports = 0
    /\ list = NoList /\ sync = NoSync

\* What can be listed and what there is of it, a source for every import, in the order
\* of a time.
Known    == [video |-> Videos, live |-> Sessions, source |-> 1 .. imports, search |-> Videos]
Contents == [video |-> Present, live |-> Streamed, source |-> 1 .. imports, search |-> Present]
Stamp == [video |-> seen, live |-> seenLive, source |-> [i \in 1 .. imports |-> i],
          search |-> PublishDay]

\* The rows that the reader's WHERE selects: those of its filter on audit_result, label,
\* import_status, dates, text or audit_extra, which leaves out list.out.
Listed  == Contents[list.kind] \ list.out
Reading == list.pc \in {"count", "select"}

\* Mutant: a listing begins with what was seen longest ago.
OldestBefore(kind, byId, i, j) ==
    \/ Stamp[kind][i] < Stamp[kind][j]
    \/ Stamp[kind][i] = Stamp[kind][j] /\ (byId => i < j)

\* The order of a listing: the last seen, pulled or published first.  The second lists
\* put equal times in the order of the ids, the first ones in none.
Before(kind, byId, i, j) ==
    \/ Stamp[kind][i] > Stamp[kind][j]
    \/ Stamp[kind][i] = Stamp[kind][j] /\ (byId => i < j)

\* What ORDER BY may return; each statement may have an order of its own.
Orders(byId) ==
    {order \in SetToSeqs(Listed) :
        \A i, j \in DOMAIN order : i < j => Before(list.kind, byId, order[i], order[j])}

\* What a listing promises to return: without an order among equals, only the others.
Promised(kind, counted, rows) ==
    {i \in rows : counted \/ \A j \in rows \ {i} : Stamp[kind][j] # Stamp[kind][i]}

\* Readers do not affect each other: one at a time is followed.
Quiet == list.pc \in {"idle", "done"} /\ sync.pc \in {"idle", "done"}

\* The second lists have filters and count their rows; the first ones have none and are
\* read until a page is short.
StartListing(kind, counted, out) ==
    /\ Quiet
    /\ kind = "search" => counted
    /\ ~counted => out = {}
    /\ list' = [NoList EXCEPT !.kind = kind, !.counted = counted, !.out = out,
                              !.must = Promised(kind, counted, Contents[kind] \ out),
                              !.pc = IF counted THEN "count" ELSE "select"]
    /\ sync' = NoSync
    /\ UNCHANGED tables

\* Mutant: the cursor moves on by the limit, not by the rows of the page.
NextOffsetByLimit(offset, page) == offset + PageSize

NextOffset(offset, page) == offset + Len(page)

\* paged(): another page is promised while the total is not reached.
TakePage(total) ==
    \E order \in Orders(TRUE) :
        LET page == Slice(order, list.offset)
            next == NextOffset(list.offset, page)
        IN  list' = [list EXCEPT !.got = @ \cup ToSet(page), !.offset = next, !.total = 0,
                                 !.pc = IF next < total THEN "count" ELSE "done"]

CountItems ==
    /\ list.pc = "count" /\ list.kind # "search"
    /\ list' = [list EXCEPT !.pc = "select", !.total = Cardinality(Listed)]
    /\ UNCHANGED <<tables, sync>>

SelectPage ==
    /\ list.pc = "select" /\ list.counted
    /\ TakePage(list.total)
    /\ UNCHANGED <<tables, sync>>

\* A page of a first list.
ListPage ==
    /\ list.pc = "select" /\ ~list.counted
    /\ \E order \in Orders(FALSE) :
        LET page == Slice(order, list.offset)
        IN  list' = [list EXCEPT !.got = @ \cup ToSet(page), !.offset = NextOffset(@, page),
                                 !.pc = IF Len(page) < PageSize THEN "done" ELSE "select"]
    /\ UNCHANGED <<tables, sync>>

\* A search counts and selects in one REPEATABLE READ snapshot.
SearchPage ==
    /\ list.pc = "count" /\ list.kind = "search"
    /\ TakePage(Cardinality(Listed))
    /\ UNCHANGED <<tables, sync>>

StartSync ==
    /\ Quiet
    /\ sync' = [NoSync EXCEPT !.pc = "video"]
    /\ list' = NoList
    /\ UNCHANGED tables

LoadVideoDays ==
    /\ sync.pc = "video"
    /\ sync' = [sync EXCEPT !.pc = "live",
                            !.plays = [d \in Month[1] - 1 .. Month[2] |-> VideoDay(d).totalPlay]]
    /\ UNCHANGED <<tables, list>>

\* load_live_days, the rows of the month, and the page at the token's offset.
AnswerPage ==
    /\ sync.pc = "live"
    /\ LET report == [i \in 1 .. Month[2] - Month[1] + 1 |-> ReportRow(sync.plays, Month[1] + i - 1)]
           page   == Slice(report, sync.offset)
           end    == NextOffset(sync.offset, page)
       IN  sync' = [NoSync EXCEPT !.clean = sync.clean, !.offset = end, !.rows = sync.rows \o page,
                                  !.pc = IF end < Len(report) THEN "video" ELSE "done"]
    /\ UNCHANGED <<tables, list>>

-----------------------------------------------------------------------------
(* Imports and other writes: one transaction each. *)

\* What a write does to the readers: the filter now leaves out `out`, and `moved` has
\* new times.  (The history of a listing that has ended stays.)
Overtake(moved, out) ==
    LET after == Contents'[list.kind] \ out
    IN  /\ list' = IF ~Reading THEN list
                   ELSE [list EXCEPT
                            !.out   = out,
                            !.must  = (@ \ moved) \cap after,
                            !.left  = @ + Cardinality(Listed \ after),
                            !.grown = @ \/ /\ list.pc = "select" /\ list.counted
                                           /\ after \ Listed # {}]
        /\ list'.left <= MaxLeft
        /\ sync' = [sync EXCEPT !.clean = @ /\ sync.pc \notin {"video", "live"}]

\* An import writes what a filter looks at: any of the rows it touches may match
\* afterwards or not.  It makes them the latest, except in the order of a search.
Imported(S, L) ==
    LET touched == [video |-> S, search |-> S, live |-> L, source |-> {imports + 1}][list.kind]
        Filter  == IF list.counted THEN {(list.out \ touched) \cup hidden : hidden \in SUBSET touched}
                   ELSE {list.out}
    IN  \E out \in Filter : Overtake(IF list.kind = "search" THEN {} ELSE touched, out)

\* A row of the sheet makes the video the latest, new or not.
Refreshed(S) == [v \in Videos |-> IF v \in S THEN imports + 1 ELSE seen[v]]

\* The counts of a day are replaced, by nothing where the sheet has none.
Counted(v, d, count) == [metric[v] EXCEPT ![d] = count]

\* Rows of a sheet, with their counts if the content is traced.
ImportVideos(S, d, count, traced) ==
    /\ imports < MaxImports
    /\ seen' = Refreshed(S)
    /\ metric' = [v \in Videos |-> IF v \in S /\ traced THEN Counted(v, d, count) ELSE metric[v]]
    /\ imports' = imports + 1
    /\ UNCHANGED seenLive
    /\ Imported(S, {})

ImportSessions(L) ==
    /\ imports < MaxImports
    /\ seenLive' = [s \in Sessions |-> IF s \in L THEN imports + 1 ELSE seenLive[s]]
    /\ imports' = imports + 1
    /\ UNCHANGED <<metric, seen>>
    /\ Imported({}, L)

\* Audit results, labels and audit_extra are written back to rows of a content, and a
\* source is marked: rows enter and leave a filter without a new time.
WriteBack(out) ==
    /\ Reading /\ list.counted
    /\ UNCHANGED tables
    /\ Overtake({}, out)

\* Sessions of another month are taken out of the period, as far as their own period has
\* a place for them; no filter is needed to lose them.
Misplaced == {s \in Streamed : Live[s].day \notin InMonth}

NormalizeLives(L) ==
    /\ seenLive' = [s \in Sessions |-> IF s \in L THEN 0 ELSE seenLive[s]]
    /\ UNCHANGED <<metric, seen, imports>>
    /\ Overtake({}, list.out)

\* A sheet of a day has only what was published by then; its rows get one count here.
Sheets(d) == (SUBSET {v \in Videos : PublishDay[v] <= d}) \ {{}}

ReportsNext ==
    \/ \E d \in Days \ {0}, count \in Counts \cup {Null} : \E S \in Sheets(d) :
            ImportVideos(S, d, count, TRUE)
    \/ \E S \in Sheets(LastDay) : ImportVideos(S, LastDay, Null, FALSE)
    \/ \E L \in (SUBSET Sessions) \ {{}} : ImportSessions(L)
    \/ \E out \in SUBSET Contents[list.kind] : WriteBack(out)
    \/ \E L \in (SUBSET Misplaced) \ {{}} : NormalizeLives(L)
    \/ \E kind \in Listings, counted \in BOOLEAN : \E out \in SUBSET Contents[kind] :
            StartListing(kind, counted, out)
    \/ CountItems \/ SelectPage \/ ListPage \/ SearchPage
    \/ StartSync \/ LoadVideoDays \/ AnswerPage

ReportsSpec == ReportsInit /\ [][ReportsNext]_reportVars

-----------------------------------------------------------------------------
(* Properties. *)

\* The variables have their types, and no reader's offset is past the rows there may be.
ReportsTypeOK ==
    /\ metric \in [Videos -> [Days -> Counts \cup {NoRow, Null}]]
    /\ seen \in [Videos -> 0 .. imports] /\ seenLive \in [Sessions -> 0 .. imports]
    /\ imports \in 0 .. MaxImports
    /\ list.kind \in {"video", "live", "source", "search"} /\ list.counted \in BOOLEAN
    /\ list.pc \in {"idle", "count", "select", "done"}
    /\ list.got \cup list.must \cup list.out \subseteq Known[list.kind]
    /\ {list.offset, list.total} \subseteq 0 .. Cardinality(Known[list.kind])
    /\ list.left \in 0 .. MaxLeft /\ list.grown \in BOOLEAN
    /\ sync.pc \in {"idle", "video", "live", "done"}
    /\ sync.offset \in 0 .. Month[2] - Month[1] + 1

\* Four queries and the fold of the labels add up the same plays of a range.
RangesAgree ==
    \A r \in Ranges :
        LET summary == VideoSummary(Present, r)
            labels  == LabelSummary(Present, r)
            top     == TopVideos(Present, r, Cardinality(Videos))
        IN  /\ summary.play = Sum(labels, LAMBDA x : x.play)
            /\ summary.contents = Sum(labels, LAMBDA x : x.active)
            /\ summary.play = Sum(DOMAIN top, LAMBDA i : top[i].play)
            /\ summary.contents = Len(top)
            /\ summary.play = Sum(VideosWithMetrics(Present, r), LAMBDA x :
                    Sum(DOMAIN x.points, LAMBDA d : OrZero(x.points[d].inc)))

\* The card, the connector, the search and the author totals name the same figures.
TotalsAgree ==
    LET everyone == Sum(Present, LAMBDA v : Latest(v, Days)) + 1
        nameless == {v \in Present : AuthorOf[v] = NoName}
    IN  /\ ProjectReport.play = Sum(InMonth, LAMBDA d : VideoDay(d).finalPlay)
        /\ (\A v \in MonthVideos : Rows(v) \subseteq 0 .. Month[2])
              => ProjectReport.play = VideoDay(Month[2]).totalPlay
        /\ ProjectReport.play = SearchSummary(MonthVideos, Streamed).play
        /\ PlayBelowAuthorTotal(Present, everyone)
              = SearchSummary(Present, {}).play - SearchSummary(nameless, {}).play
        /\ ProjectReport.pv = LiveDay(Month[2]).totalPv
        /\ ProjectReport.pv = LiveSummary(Streamed, Month).pv
        /\ LivePvBelowAcu(Streamed, LastDay) <= SearchSummary({}, Streamed).pv

\* The columns of the connector's report are the sums of the daily ones.
ColumnsAddUp ==
    \A d \in InMonth :
        LET upto == Month[1] .. d
        IN  /\ VideoDay(d).videos = Sum(upto, LAMBDA e : VideoDay(e).newVideos)
            /\ VideoDay(d).authors = Sum(upto, LAMBDA e : VideoDay(e).newAuthors)
            /\ LiveDay(d).anchors = Sum(upto, LAMBDA e : LiveDay(e).newAnchors)
            /\ LiveDay(d).totalPv = Sum(upto, LAMBDA e : LiveDay(e).pv)

\* Counts that are never missing and never fall.
Steady(v) == \A d \in Rows(v) : metric[v][d] # Null /\ metric[v][d] >= OrZero(Lag(v, d, Rows(v)))

\* Increments of a steady video add up to what it has reached, gaps or not.
GrowthReachesTotal ==
    \A v \in Present : Steady(v) => \A d \in Days : Growth(v, <<0, d>>) = Latest(v, 0 .. d)

\* Whatever imports have written, with days missing, counts missing or falling and
\* counts replaced, the endpoints, the connector and the card that promise the same
\* figure give the same figure, each from a statement of its own.  (Readers change no
\* table: every content of the tables is there in a state without one.)
ReportsAgree ==
    list = NoList /\ sync = NoSync => RangesAgree /\ TotalsAgree /\ ColumnsAddUp /\ GrowthReachesTotal

\* A listing that was followed to its last page misses at most as many of the rows that
\* were there when it began, and that no import has touched since, as rows have left it
\* between its pages: imports put rows in front and may make the reader see one twice,
\* but a row before the cursor that ceases to match the filter, or is moved to another
\* period, moves the rows behind it up, and OFFSET skips one of them.  Of a listing that
\* no row leaves nothing is missed.  Except when a row enters between the COUNT and the
\* SELECT of a page, which may make the last page look like the end, and except for the
\* rows a first list shows in no certain order.
UntouchedAreRead ==
    list.pc = "done" /\ ~list.grown => Cardinality(list.must \ list.got) <= list.left

\* A synchronisation returns each day of the month once and in order, whatever is
\* imported between its pages and between the statements of one.
SyncInOrder ==
    sync.pc = "done" =>
        [i \in DOMAIN sync.rows |-> sync.rows[i].day]
            = [i \in 1 .. Month[2] - Month[1] + 1 |-> Month[1] + i - 1]

\* When nothing is imported during a synchronisation, the increments of its rows add up
\* to the plays of the last, though every page computes the report again.
IncrementsAddUp ==
    sync.pc = "done" /\ sync.clean =>
        Sum(DOMAIN sync.rows, LAMBDA i : sync.rows[i].inc) = Last(sync.rows).play

\* The pages of a synchronisation make one report: its days, whatever is imported in the
\* meantime, and its increments if nothing is.
SyncAddsUp == SyncInOrder /\ IncrementsAddUp
=============================================================================
