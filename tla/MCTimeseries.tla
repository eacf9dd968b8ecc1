---------------------------- MODULE MCTimeseries ----------------------------
(* Timeseries on small instances: an hour of two ticks, a day of two       *)
(* hours, values 0 and 1, and two units that turn one value into another.  *)
EXTENDS Timeseries, TLC

\* Two ticks of the first hour, one of the second, one of the next day.
MCTimes == {0, 1, 2, 4}

Pt(t, v) == [ts |-> t, value |-> v]

\* Bodies of one point, of two points in one hour and in two, one that
\* repeats a timestamp, and one that does not fit in one batch.
MCPointLists ==
    {<<Pt(1, 1)>>,
     <<Pt(0, 1), Pt(2, 0)>>, <<Pt(0, 1), Pt(0, 0)>>,
     <<Pt(4, 1), Pt(2, 1), Pt(1, 0)>>}

MCConvertible == {<<"C", "K">>}
MCUnits == {"C", "K"}
MCConvertUnit(v, from, to) == MaxValue - v
ClientSymmetry == Permutations(Clients)
MCBounds == {<<NoBound, NoBound>>, <<NoBound, 0>>}
=============================================================================
