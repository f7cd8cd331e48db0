------------------------------ MODULE MCServices ------------------------------
(* Instances of Services for TLC. *)
EXTENDS Services

OneMonth == [m \in 0 .. 1 |-> m]
=============================================================================
