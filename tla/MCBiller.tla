------------------------------ MODULE MCBiller ------------------------------
(* Instances of Biller for TLC. *)
EXTENDS Biller, TLC

\* A month of three instants, and the first instant of the next.
TwoMonths == [m \in 0 .. 2 |-> IF m = 0 THEN 0 ELSE m + 2]

OneMonth == [m \in 0 .. 1 |-> 2 * m]

SymmetricLeases == Permutations(Leases)
=============================================================================
