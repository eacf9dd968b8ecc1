---------------------------- MODULE RollupTables ----------------------------
(***************************************************************************)
(* The three PostgreSQL tables that hold time series data and the          *)
(* statement triggers that keep the rollups in step with the samples:      *)
(*                                                                         *)
(*   tsdata                 one row per sample, UNIQUE(ts_uuid, ts)        *)
(*   tsdata_hourly_rollups  one row per series and hour with samples       *)
(*   tsdata_daily_rollups   one row per series and day with samples        *)
(*                                                                         *)
(* A table is a set of rows.  The triggers on tsdata write the hourly      *)
(* table, and the triggers on the hourly table write the daily one, all    *)
(* inside the statement that fired them, so a statement on tsdata is one   *)
(* step here.  Time is counted in ticks of PostgreSQL's resolution (one    *)
(* microsecond); HourLen ticks make an hour.                               *)
(***************************************************************************)
EXTENDS Integers, FiniteSets, FiniteSetsExt

CONSTANTS Series,        \* the UUIDs a time series may have
          Times,         \* the timestamps of samples
          MaxValue,      \* samples take the values 0..MaxValue
          HourLen,       \* ticks in an hour
          HoursPerDay    \* hours in a day

Values == 0..MaxValue
Sample == [ts_uuid : Series, ts : Times, value : Values]
DayLen == HourLen * HoursPerDay

ASSUME ConstantsAssumption ==
    /\ Times \subseteq Nat
    /\ MaxValue \in Nat
    /\ HourLen \in Nat \ {0}
    /\ HoursPerDay \in Nat \ {0}

VARIABLES tsdata, hourly, daily
tables == <<tsdata, hourly, daily>>

-----------------------------------------------------------------------------
(* Bucketing: date_trunc('hour', ts) and date_trunc('day', bucket_ts).     *)

Hour(t) == t - (t % HourLen)
Day(t) == t - (t % DayLen)

HourKey(r) == <<r.ts_uuid, Hour(r.ts)>>
DayKey(h) == <<h.ts_uuid, Day(h.bucket_ts)>>
RollupKey(r) == <<r.ts_uuid, r.bucket_ts>>       \* the PRIMARY KEY

HourKeys(rows) == {HourKey(r) : r \in rows}
DayKeys(hours) == {DayKey(h) : h \in hours}
RollupKeys(table) == {RollupKey(r) : r \in table}

\* SUM of SQL over the rows of a group.
SUM(column, rows) == MapThenSumSet(LAMBDA r : r[column], rows)

(* The SELECT ... GROUP BY of the hourly triggers, for one bucket.         *)
InHour(k, rows) == {r \in rows : HourKey(r) = k}

HourRow(k, rows) ==
    [ts_uuid      |-> k[1],
     bucket_ts    |-> k[2],
     sample_count |-> Cardinality(InHour(k, rows)),
     sample_sum   |-> SUM("value", InHour(k, rows)),
     sample_min   |-> Min({r.value : r \in InHour(k, rows)}),
     sample_max   |-> Max({r.value : r \in InHour(k, rows)})]

HourlyOf(rows) == {HourRow(k, rows) : k \in HourKeys(rows)}

(* The SELECT ... GROUP BY of the daily triggers: sums over hourly rows.   *)
InDay(k, hours) == {h \in hours : DayKey(h) = k}

DayRow(k, hours) ==
    [ts_uuid      |-> k[1],
     bucket_ts    |-> k[2],
     sample_count |-> SUM("sample_count", InDay(k, hours)),
     sample_sum   |-> SUM("sample_sum", InDay(k, hours)),
     sample_min   |-> Min({h.sample_min : h \in InDay(k, hours)}),
     sample_max   |-> Max({h.sample_max : h \in InDay(k, hours)})]

DailyOf(hours) == {DayRow(k, hours) : k \in DayKeys(hours)}

-----------------------------------------------------------------------------
(* INSERT ... ON CONFLICT (ts_uuid, bucket_ts) DO UPDATE of both levels.   *)

LEAST(x, y) == IF x <= y THEN x ELSE y
GREATEST(x, y) == IF x >= y THEN x ELSE y

\* Mutant of Merge: DO UPDATE SET ... = EXCLUDED, which forgets the old row.
MergeOverwrites(r, excluded) == excluded

Merge(r, excluded) ==
    [ts_uuid      |-> r.ts_uuid,
     bucket_ts    |-> r.bucket_ts,
     sample_count |-> r.sample_count + excluded.sample_count,
     sample_sum   |-> r.sample_sum + excluded.sample_sum,
     sample_min   |-> LEAST(r.sample_min, excluded.sample_min),
     sample_max   |-> GREATEST(r.sample_max, excluded.sample_max)]

Conflicting(table, keys) == {r \in table : RollupKey(r) \in keys}
Untouched(table, keys) == {r \in table : RollupKey(r) \notin keys}

MergedHours(table, new_rows) ==
    {Merge(r, HourRow(RollupKey(r), new_rows)) :
        r \in Conflicting(table, HourKeys(new_rows))}

InsertedHours(table, new_rows) ==
    {HourRow(k, new_rows) : k \in HourKeys(new_rows) \ RollupKeys(table)}

upsert_tsdata_hourly_rollups_from_new(table, new_rows) ==
    Untouched(table, HourKeys(new_rows))
        \cup MergedHours(table, new_rows)
        \cup InsertedHours(table, new_rows)

upsert_tsdata_daily_rollups_from_hourly_new(table, new_rows) ==
    Untouched(table, DayKeys(new_rows))
        \cup {Merge(r, DayRow(RollupKey(r), new_rows)) :
                 r \in Conflicting(table, DayKeys(new_rows))}
        \cup {DayRow(k, new_rows) : k \in DayKeys(new_rows) \ RollupKeys(table)}

\* Mutant of the refresh: the affected days are deleted and not inserted again.
RefreshOnlyDeletes(table, hours, affected) == Untouched(table, DayKeys(affected))

(* DELETE the affected days, then INSERT them again from the hourly rows.  *)
refresh_tsdata_daily_rollups_for_affected_hourly(table, hours, affected) ==
    Untouched(table, DayKeys(affected))
        \cup {DayRow(k, hours) : k \in DayKeys(affected) \cap DayKeys(hours)}

(* DELETE the affected hours, then INSERT them again from the samples.     *)
RecomputedHours(data, old_rows) ==
    {HourRow(k, data) : k \in HourKeys(old_rows) \cap HourKeys(data)}

refresh_tsdata_hourly_rollups_for_affected_from_old(table, data, old_rows) ==
    Untouched(table, HourKeys(old_rows)) \cup RecomputedHours(data, old_rows)

(***************************************************************************)
(* What a statement on the hourly table does to the daily table.  An       *)
(* INSERT ... ON CONFLICT DO UPDATE fires the AFTER UPDATE triggers of the *)
(* statement before its AFTER INSERT triggers; the former see every hourly *)
(* row the statement wrote, the latter get the inserted ones as new_rows.  *)
(***************************************************************************)
DailyAfterHourlyUpsert(table, hours, new_rows) ==
    upsert_tsdata_daily_rollups_from_hourly_new(
        refresh_tsdata_daily_rollups_for_affected_hourly(
            table,
            upsert_tsdata_hourly_rollups_from_new(hours, new_rows),
            Conflicting(hours, HourKeys(new_rows))),
        InsertedHours(hours, new_rows))

\* Mutant of DailyAfterHourlyRefresh: the INSERT does not reach the daily table.
RefreshWithoutUpsert(table, hours, data, old_rows) ==
    refresh_tsdata_daily_rollups_for_affected_hourly(
        table,
        Untouched(hours, HourKeys(old_rows)),
        Conflicting(hours, HourKeys(old_rows)))

(* The trigger body for DELETE on tsdata runs two statements on the hourly *)
(* table: the DELETE fires the daily refresh, the INSERT the daily upsert. *)
DailyAfterHourlyRefresh(table, hours, data, old_rows) ==
    upsert_tsdata_daily_rollups_from_hourly_new(
        refresh_tsdata_daily_rollups_for_affected_hourly(
            table,
            Untouched(hours, HourKeys(old_rows)),
            Conflicting(hours, HourKeys(old_rows))),
        RecomputedHours(data, old_rows))

-----------------------------------------------------------------------------
(* The two kinds of statement the program runs on tsdata.                  *)

\* Mutant of Stored: no unique key.
StoredUnknown(id, t) == FALSE

Stored(id, t) == \E r \in tsdata : r.ts_uuid = id /\ r.ts = t

InsertStmt(rows) ==
    /\ tsdata' = tsdata \cup rows
    /\ hourly' = upsert_tsdata_hourly_rollups_from_new(hourly, rows)
    /\ daily' = DailyAfterHourlyUpsert(daily, hourly, rows)

DeleteStmt(rows) ==
    /\ tsdata' = tsdata \ rows
    /\ hourly' = refresh_tsdata_hourly_rollups_for_affected_from_old(
                     hourly, tsdata \ rows, rows)
    /\ daily' = DailyAfterHourlyRefresh(daily, hourly, tsdata \ rows, rows)

TablesInit == tsdata = {} /\ hourly = {} /\ daily = {}

-----------------------------------------------------------------------------
(***************************************************************************)
(* Correctness of the rollups.                                             *)
(***************************************************************************)

(* UNIQUE(ts_uuid, ts) of tsdata.                                          *)
UniqueSamples ==
    \A r, q \in tsdata : r.ts_uuid = q.ts_uuid /\ r.ts = q.ts => r = q

(* Every hourly rollup row is what a scan of the samples of its hour       *)
(* would compute, and every hour with samples has one: the incremental     *)
(* upsert after INSERT and the recomputation after DELETE agree.           *)
HourlyExact == hourly = HourlyOf(tsdata)

(* What holds of the daily table whatever is inserted and deleted: a day   *)
(* has a row iff it has samples, the row's minimum and maximum are exact,  *)
(* and its count is never too low.                                         *)
DailyCovers ==
    /\ RollupKeys(daily) = DayKeys(HourlyOf(tsdata))
    /\ \A d \in daily :
          LET exact == DayRow(RollupKey(d), HourlyOf(tsdata))
          IN  /\ d.sample_min = exact.sample_min
              /\ d.sample_max = exact.sample_max
              /\ d.sample_count >= exact.sample_count
=============================================================================
