------------------------- MODULE MCTimeseriesQuery --------------------------
(* Aggregated queries on one series, an hour of two ticks, a day of two    *)
(* hours.  The windows start and end on and off the bucket boundaries; one *)
(* lies inside an hour and one is empty.                                   *)
EXTENDS TimeseriesQuery

MCTimes == {0, 1, 2, 4}
MCWindows == {<<0, 3>>, <<0, 4>>, <<1, 4>>, <<1, 2>>, <<0, 0>>, <<2, 1>>}
=============================================================================
