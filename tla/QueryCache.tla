----------------------------- MODULE QueryCache -----------------------------
(***************************************************************************)
(* The cache of the analysis queries (src/src/server/cache.rs): every      *)
(* instance keeps compressed answers in memory under "<revision>:<key>",   *)
(* the revision is a row of the database, and whoever has written data     *)
(* increments it.                                                          *)
(*                                                                         *)
(* One key; its answer is the version of the data it was computed from.    *)
(* A reader is a request of get_or_try_insert, a writer is a handler, a    *)
(* scheduler loop or a task that writes and then calls                     *)
(* invalidate_all_shared.  Home is the instance a task runs in.            *)
(***************************************************************************)
EXTENDS Integers

CONSTANTS
    Nodes, Readers, Writers,
    Home,      \* the node of a reader or writer
    MaxData,   \* bound of the writes
    MaxRev,    \* bound of the invalidations
    TTL,       \* QUERY_CACHE_TTL, in ticks
    LoadTime   \* longest time from the snapshot of a query to its insert

ASSUME CacheConstants ==
    /\ Readers \cap Writers = {}
    /\ Home \in [Readers \cup Writers -> Nodes]
    /\ MaxData \in Nat /\ MaxRev \in Nat
    /\ TTL \in Nat \ {0} /\ LoadTime \in Nat

VARIABLES
    data,   \* version of the data; every commit is a new one
    gone,   \* time since a version was replaced; see Long
    rev,    \* query_cache_revision.revision
    base,   \* the version a revision was opened with
    cache,  \* the entries of all nodes
    at,     \* where each reader is
    held,   \* the revision it read
    got,    \* the answer it loaded or found
    age,    \* time since its load, until it is inserted
    wr      \* where each writer is

db     == <<data, gone, rev, base>>
reader == <<at, held, got, age>>
vars   == <<db, cache, reader, wr>>

Long     == TTL + LoadTime + 1
Versions == 0 .. MaxData
Entry    == [node : Nodes, rev : 0 .. MaxRev, value : Versions, age : 0 .. TTL - 1]
Places   == {"idle", "begun", "missed", "loaded", "answered"}

TypeOK ==
    /\ data \in Versions /\ gone \in [Versions -> 0 .. Long]
    /\ rev \in 0 .. MaxRev /\ base \in [0 .. MaxRev -> Versions]
    /\ cache \subseteq Entry
    /\ at \in [Readers -> Places] /\ held \in [Readers -> 0 .. MaxRev]
    /\ got \in [Readers -> Versions] /\ age \in [Readers -> 0 .. LoadTime]
    /\ wr \in [Writers -> {"idle", "wrote", "bumped"}]

Init ==
    /\ data = 0 /\ gone = [v \in Versions |-> 0]
    /\ rev = 0 /\ base = [k \in 0 .. MaxRev |-> 0]
    /\ cache = {}
    /\ at = [r \in Readers |-> "idle"] /\ held = [r \in Readers |-> 0]
    /\ got = [r \in Readers |-> 0] /\ age = [r \in Readers |-> 0]
    /\ wr = [w \in Writers |-> "idle"]

-----------------------------------------------------------------------------
(* Readers. *)

Mine(r, k) == {e \in cache : e.node = Home[r] /\ e.rev = k}

Goes(r, place) == at' = [at EXCEPT ![r] = place]

\* The locals of a request go with it.
Gone(R) ==
    /\ at'   = [r \in Readers |-> IF r \in R THEN "idle" ELSE at[r]]
    /\ held' = [r \in Readers |-> IF r \in R THEN 0 ELSE held[r]]
    /\ got'  = [r \in Readers |-> IF r \in R THEN 0 ELSE got[r]]
    /\ age'  = [r \in Readers |-> IF r \in R THEN 0 ELSE age[r]]

\* current_revision
Begin(r) ==
    /\ at[r] = "idle" /\ Goes(r, "begun")
    /\ held' = [held EXCEPT ![r] = rev]
    /\ UNCHANGED <<db, cache, got, age, wr>>

Hit(r) ==
    /\ at[r] = "begun"
    /\ \E e \in Mine(r, held[r]) :
          Goes(r, "answered") /\ got' = [got EXCEPT ![r] = e.value]
    /\ UNCHANGED <<db, cache, held, age, wr>>

\* No entry, or one that does not decode and is discarded.
Miss(r) ==
    /\ at[r] = "begun" /\ Goes(r, "missed")
    /\ cache' = cache \ Mine(r, held[r])
    /\ UNCHANGED <<db, held, got, age, wr>>

\* The loader runs its query.
Load(r) ==
    /\ at[r] = "missed" /\ Goes(r, "loaded")
    /\ got' = [got EXCEPT ![r] = data]
    /\ UNCHANGED <<db, cache, held, age, wr>>

\* Mutant: the revision is read again for the insert.
InsertLate(r) ==
    /\ at[r] = "loaded" /\ Goes(r, "answered")
    /\ cache' = (cache \ Mine(r, rev)) \cup
          {[node |-> Home[r], rev |-> rev, value |-> got[r], age |-> 0]}
    /\ age' = [age EXCEPT ![r] = 0] /\ UNCHANGED <<db, held, got, wr>>

Insert(r) ==
    /\ at[r] = "loaded" /\ Goes(r, "answered")
    /\ cache' = (cache \ Mine(r, held[r])) \cup
          {[node |-> Home[r], rev |-> held[r], value |-> got[r], age |-> 0]}
    /\ age' = [age EXCEPT ![r] = 0] /\ UNCHANGED <<db, held, got, wr>>

\* The answer cannot be encoded: it is answered and not kept.
NotKept(r) ==
    /\ at[r] = "loaded" /\ Goes(r, "answered")
    /\ age' = [age EXCEPT ![r] = 0] /\ UNCHANGED <<db, cache, held, got, wr>>

\* The request ends: answered, failed at a query, or dropped by its client.
Leave(r) ==
    /\ at[r] # "idle" /\ Gone({r})
    /\ UNCHANGED <<db, cache, wr>>

-----------------------------------------------------------------------------
(* Writers. *)

\* A transaction of a workflow or an admin request commits.
Write(w) ==
    /\ wr[w] \in {"idle", "wrote"} /\ data < MaxData
    /\ data' = data + 1 /\ gone' = [gone EXCEPT ![data] = 0]
    /\ wr' = [wr EXCEPT ![w] = "wrote"]
    /\ UNCHANGED <<rev, base, cache, reader>>

\* invalidate_all_shared increments the revision, after a write or after a
\* failure that may have written nothing ...
Invalidate(w) ==
    /\ wr[w] \in {"idle", "wrote"} /\ rev < MaxRev
    /\ rev' = rev + 1 /\ base' = [base EXCEPT ![rev + 1] = data]
    /\ wr' = [wr EXCEPT ![w] = "bumped"]
    /\ UNCHANGED <<data, gone, cache, reader>>

\* ... and then empties the cache of its own node.
InvalidateAll(w) ==
    /\ wr[w] = "bumped" /\ wr' = [wr EXCEPT ![w] = "idle"]
    /\ cache' = {e \in cache : e.node # Home[w]}
    /\ UNCHANGED <<db, reader>>

\* The statement fails, its answer is lost, or the handler is dropped.
Drop(w) ==
    /\ wr[w] # "idle" /\ wr' = [wr EXCEPT ![w] = "idle"]
    /\ UNCHANGED <<db, cache, reader>>

-----------------------------------------------------------------------------
(* The rest of the world. *)

\* moka makes room.
Evict(e) == e \in cache /\ cache' = cache \ {e} /\ UNCHANGED <<db, reader, wr>>

Crash(n) ==
    /\ cache' = {e \in cache : e.node # n}
    /\ Gone({r \in Readers : Home[r] = n})
    /\ wr' = [w \in Writers |-> IF Home[w] = n THEN "idle" ELSE wr[w]]
    /\ UNCHANGED db

Older ==
    {[node |-> e.node, rev |-> e.rev, value |-> e.value, age |-> e.age + 1] :
        e \in {f \in cache : f.age + 1 < TTL}}

Tick ==
    /\ \A r \in Readers : at[r] = "loaded" => age[r] < LoadTime
    /\ cache' = Older
    /\ age' = [r \in Readers |-> IF at[r] = "loaded" THEN age[r] + 1 ELSE age[r]]
    /\ gone' = [v \in Versions |->
                   IF v < data /\ gone[v] < Long THEN gone[v] + 1 ELSE gone[v]]
    /\ UNCHANGED <<data, rev, base, at, held, got, wr>>

Next ==
    \/ \E r \in Readers :
          \/ Begin(r) \/ Hit(r) \/ Miss(r) \/ Load(r)
          \/ Insert(r) \/ NotKept(r) \/ Leave(r)
    \/ \E w \in Writers : Write(w) \/ Invalidate(w) \/ InvalidateAll(w) \/ Drop(w)
    \/ \E e \in cache : Evict(e)
    \/ \E n \in Nodes : Crash(n)
    \/ Tick

Spec == Init /\ [][Next]_vars

-----------------------------------------------------------------------------
(* Properties. *)

phase == [r \in Readers |-> IF at[r] \in {"idle", "answered"} THEN at[r] ELSE "reading"]
low == [r \in Readers |-> IF at[r] = "idle" THEN 0 ELSE base[held[r]]]
answer == [r \in Readers |-> IF at[r] = "answered" THEN got[r] ELSE 0]

Reads == INSTANCE FreshReads WITH settled <- base[rev], got <- answer

\* Every read answers with data at least as new as the last invalidation that
\* ended before the read took its revision, on whichever node, however slow
\* the load was and whatever happened to other writers.
AnswersAreFresh == Reads!Spec

\* Even when the invalidation of a write failed or was lost with its handler,
\* no answer shows data that was replaced longer ago than an entry lives and
\* a load takes.
AnswersAreRecent ==
    [][\A r \in Readers :
          at[r] # "answered" /\ at'[r] = "answered" =>
              got'[r] = data \/ gone[got'[r]] < TTL + LoadTime]_vars

\* What readers may rely on: answers as new as what was invalidated before
\* they began, and, when an invalidation is lost, bounded staleness at least.
ReadsAreSound == AnswersAreFresh /\ AnswersAreRecent
=============================================================================
