------------------------------ MODULE MCQuerier ------------------------------
(* Instances of Querier for TLC. *)
EXTENDS Querier

\* Two months of one instant each: enough for rows of two windows that meet.
ShortMonths == [m \in 0 .. 2 |-> m]
=============================================================================
