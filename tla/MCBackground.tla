---------------------------- MODULE MCBackground ----------------------------
(* Instances of Background for TLC. *)
EXTENDS Background

\* Nothing set; a sleep; an interval without a timeout, as the biller has, with
\* one below it and with one above it; and both loops.
AllConfigs ==
    {[Sleep |-> 0, Interval |-> 0, Timeout |-> 0],
     [Sleep |-> 2, Interval |-> 0, Timeout |-> 0],
     [Sleep |-> 0, Interval |-> 3, Timeout |-> 0],
     [Sleep |-> 0, Interval |-> 3, Timeout |-> 2],
     [Sleep |-> 0, Interval |-> 3, Timeout |-> 7],
     [Sleep |-> 2, Interval |-> 3, Timeout |-> 0]}

\* The configuration of the test, and of the biller in main.go.
IntervalOnly == {[Sleep |-> 0, Interval |-> 2, Timeout |-> 0]}
=============================================================================
