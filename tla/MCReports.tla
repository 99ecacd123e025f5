----------------------------- MODULE MCReports ------------------------------
(* Values of the constants of Reports for TLC: two authors' videos, one of   *)
(* them published before the month, and sessions of which one has neither an *)
(* exposure nor an ACU and one is of another month.                          *)
EXTENDS Reports

MCMonth == <<1, 2>>
MCPublishDay == [v \in Videos |-> v - 1]
MCAuthorOf == [v \in Videos |-> IF v = 3 THEN NoName ELSE v]
MCLabelOf == [v \in Videos |-> IF v = 2 THEN NoName ELSE 7]
MCLive == 1 :> [day |-> 1, anchor |-> 1, pv |-> 5, acu |-> 2, seconds |-> 3]
       @@ 2 :> [day |-> 2, anchor |-> 1, pv |-> Null, acu |-> Null, seconds |-> 4]
       @@ 3 :> [day |-> 3, anchor |-> 2, pv |-> 1, acu |-> 1, seconds |-> 1]

\* Readers write no table, so one is followed to its end over each course of the
\* imports; a listing over courses of what it reads, since imports of anything else, and
\* counts, which no listing reads, change nothing for it.
OneReader ==
    /\ list.pc # "done" /\ sync.pc # "done"
    /\ list'.pc # "idle" =>
        /\ \A v \in Videos, d \in Days : metric'[v][d] = NoRow
        /\ IF list'.kind = "live" THEN Present' = {} ELSE Streamed' = {}
=============================================================================
