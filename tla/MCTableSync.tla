---------------------------- MODULE MCTableSync ----------------------------
(* Values of the constants of TableSync for TLC. *)
EXTENDS TableSync

CONSTANT v

\* A row with a value and a business time, and an empty row without one.
SomeContents == {[val |-> v, timed |-> TRUE], [val |-> Blank, timed |-> FALSE]}
=============================================================================
