----------------------------- MODULE RangeSplit -----------------------------
(***************************************************************************)
(* How a time range [start, stop] is split between rollup buckets that lie *)
(* wholly inside it and the samples at its two ends: the functions         *)
(* splitHourlyRollupRanges and splitDailyRollupRanges of the time series   *)
(* service.  Times are integers, one tick the microsecond both PostgreSQL  *)
(* and the code's Add(-time.Microsecond) count in; days are UTC days, so   *)
(* both functions are one function of the bucket length.                   *)
(***************************************************************************)
EXTENDS Integers

Truncate(t, len) == t - (t % len)

firstFull(start, len) ==
    IF Truncate(start, len) < start THEN Truncate(start, len) + len
                                    ELSE Truncate(start, len)

\* Mutant of lastFull: the bucket stop falls into is taken as a full one.
lastStarted(stop, len) == Truncate(stop, len)

lastFull(stop, len) ==
    IF Truncate(stop, len) + len > stop + 1 THEN Truncate(stop, len) - len
                                            ELSE Truncate(stop, len)

HasRollupRange(start, stop, len) ==
    start <= stop /\ firstFull(start, len) <= lastFull(stop, len)

\* The buckets to read from the rollup table, given by their first tick.
InRollupRange(b, start, stop, len) ==
    /\ HasRollupRange(start, stop, len)
    /\ firstFull(start, len) <= b /\ b <= lastFull(stop, len)

\* The raw ranges, as pairs of first and last tick (BETWEEN is inclusive).
LeftRange(start, len) == <<start, firstFull(start, len) - 1>>
RightRange(stop, len) == <<lastFull(stop, len) + len, stop>>

RawRanges(start, stop, len) ==
    IF stop < start THEN {}
    ELSE IF ~HasRollupRange(start, stop, len) THEN {<<start, stop>>}
    ELSE {r \in {LeftRange(start, len), RightRange(stop, len)} : r[1] <= r[2]}

InRange(t, r) == r[1] <= t /\ t <= r[2]

-----------------------------------------------------------------------------
(* A tick of [start, stop] is read exactly once: through the rollup row of *)
(* its bucket, or in exactly one raw range; a tick outside is not read.    *)
ReadByRollup(t, start, stop, len) == InRollupRange(Truncate(t, len), start, stop, len)

SplitExact(t, start, stop, len) ==
    /\ start <= t /\ t <= stop <=>
          \/ ReadByRollup(t, start, stop, len)
          \/ \E r \in RawRanges(start, stop, len) : InRange(t, r)
    /\ \A r \in RawRanges(start, stop, len) :
          InRange(t, r) => ~ReadByRollup(t, start, stop, len)
    /\ \A r, q \in RawRanges(start, stop, len) :
          InRange(t, r) /\ InRange(t, q) => r = q
=============================================================================
