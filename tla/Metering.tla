------------------------------ MODULE Metering ------------------------------
(***************************************************************************)
(* What the biller charges a lease for: the filter of the query            *)
(* ListLeasesForTimeRangeByOrderId and the clipping done by                *)
(* calculateDemandSpend.  Pure operators; a lease is any record with the   *)
(* fields create_time, end_time (NULL while the lease is open) and         *)
(* price_hr, and one unit of time is one nanosecond, the unit of           *)
(* time.Duration.                                                          *)
(***************************************************************************)
EXTENDS Integers, FiniteSets

CONSTANT NULL                   \* the SQL NULL: an absent row, an open lease

ASSUME NullAssumption == NULL \notin Nat

\* A lease as the table holds it: it does not end before it begins.
OrderedLease(l) ==
    /\ l.create_time \in Nat
    /\ l.end_time \in Nat \cup {NULL}
    /\ l.end_time # NULL => l.create_time <= l.end_time

\* Mutant: the query without its upper bound on create_time.
InTimeRangeUnbounded(l, startTime, endTime) ==
    l.end_time = NULL \/ l.end_time >= startTime

\* WHERE l.create_time < @end_time
\*   AND (l.end_time IS NULL OR l.end_time >= @start_time)
InTimeRange(l, startTime, endTime) ==
    /\ l.create_time < endTime
    /\ l.end_time = NULL \/ l.end_time >= startTime

\* Mutant: every lease is charged from the beginning of the window.
LeaseStartUnclipped(l, startTime) == startTime

LeaseStartTime(l, startTime) ==
    IF l.create_time > startTime THEN l.create_time ELSE startTime

\* Mutant: the window's end is not moved back by a nanosecond.
LeaseEndInclusive(l, endTime) ==
    IF l.end_time # NULL /\ l.end_time < endTime THEN l.end_time ELSE endTime

\* A lease that is still running at endTime is charged to the last nanosecond
\* before it: endTime.Add(time.Nanosecond * -1).
LeaseEndTime(l, endTime) ==
    IF l.end_time # NULL /\ l.end_time < endTime
    THEN l.end_time
    ELSE endTime - 1

LeaseDuration(l, startTime, endTime) ==
    LeaseEndTime(l, endTime) - LeaseStartTime(l, startTime)

\* leaseHours * priceHr.  The detour of both factors through float64, text and
\* apd.Decimal is abstracted to exact arithmetic in price units per nanosecond.
LeaseSpend(l, startTime, endTime) ==
    l.price_hr * LeaseDuration(l, startTime, endTime)

\* The time a window charges a lease for: nothing when the query skips it.
Charged(l, startTime, endTime) ==
    IF InTimeRange(l, startTime, endTime)
    THEN LeaseDuration(l, startTime, endTime)
    ELSE 0

-----------------------------------------------------------------------------
(***************************************************************************)
(* Reference: the instants of the window at which the lease is running.    *)
(***************************************************************************)
RunningAt(l, t) ==
    /\ l.create_time <= t
    /\ l.end_time = NULL \/ t < l.end_time

RunningTime(l, startTime, endTime) ==
    Cardinality({t \in startTime .. endTime - 1 : RunningAt(l, t)})

\* The nanosecond that is given away when the lease outlives the window.
GivenAway(l, startTime, endTime) ==
    IF InTimeRange(l, startTime, endTime) /\ RunningAt(l, endTime - 1)
    THEN 1 ELSE 0
=============================================================================
