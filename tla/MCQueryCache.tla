---------------------------- MODULE MCQueryCache ----------------------------
(* Values for the constants of QueryCache. *)
EXTENDS QueryCache, TLC

CONSTANTS n1, n2, r1, r2, w1, w2

\* Two readers share the cache of one node, a writer works beside them and
\* another one on a second node.
HomeApart == r1 :> n1 @@ r2 :> n1 @@ w1 :> n1 @@ w2 :> n2
=============================================================================
