-------------------------- MODULE TimeseriesQuery ---------------------------
(***************************************************************************)
(* Aggregated queries over the tables of RollupTables while samples are    *)
(* inserted and deleted.                                                   *)
(*                                                                         *)
(* loadAggregateSources answers a query for a range from up to three       *)
(* separate statements: the raw samples at each end of the range, and the  *)
(* rollup rows of the buckets in between.  Each statement sees the tables  *)
(* as they are when it runs.                                               *)
(***************************************************************************)
EXTENDS RollupTables, RangeSplit

CONSTANTS DaysPerWeek, \* days in the longest precision modelled
          Windows,     \* the ranges <<start, stop>> a query may name
          MaxRows,     \* rows in an INSERT statement
          MaxWrites    \* statements on tsdata in a behaviour

ASSUME QueryAssumption ==
    /\ DaysPerWeek \in Nat \ {0}
    /\ Windows \subseteq Int \X Int
    /\ MaxRows \in Nat /\ MaxWrites \in Nat

VARIABLES query,    \* the query in progress
          writes,   \* statements executed so far
          always,   \* samples stored at every moment since the query began
          ever      \* samples stored at some moment since the query began

vars == <<tables, query, writes, always, ever>>

\* "week" stands for every precision above the day: it is served from the
\* daily rollups, several of which fall into one bucket of the answer.
Precisions == {"hour", "day", "week"}

\* truncateTime, in UTC: the length of the buckets of the answer.
BucketLen(precision) ==
    CASE precision = "hour" -> HourLen
      [] precision = "day" -> DayLen
      [] precision = "week" -> DayLen * DaysPerWeek

\* rollupSourceForPrecision, when rollups are enabled and the zone is UTC:
\* the table to read and the length of its buckets.
RollupLen(precision) == IF precision = "hour" THEN HourLen ELSE DayLen
Rollups(precision) == IF precision = "hour" THEN hourly ELSE daily

NoQuery == [pc |-> "idle", id |-> CHOOSE s \in Series : TRUE, precision |-> "hour",
            window |-> <<0, -1>>, todo |-> {}, raw |-> {}, rollups |-> {}]

-----------------------------------------------------------------------------
(* The statements of loadAggregateSources.                                 *)

GetTsDataRange(id, r) == {s \in tsdata : s.ts_uuid = id /\ InRange(s.ts, r)}

GetTsRollupRange(id, precision, w) ==
    {h \in Rollups(precision) :
        /\ h.ts_uuid = id
        /\ InRollupRange(h.bucket_ts, w[1], w[2], RollupLen(precision))}

BeginQuery ==
    /\ query.pc = "idle"
    /\ \E id \in Series, precision \in Precisions, w \in Windows :
          query' = [NoQuery EXCEPT
                       !.pc = "raw", !.id = id, !.precision = precision, !.window = w,
                       !.todo = RawRanges(w[1], w[2], RollupLen(precision))]
    /\ always' = tsdata
    /\ ever' = tsdata
    /\ UNCHANGED <<tables, writes>>

\* Mutant of ReadRaw: the rows of the second range replace those of the first.
ReadRawAnew ==
    /\ query.pc = "raw"
    /\ \E r \in query.todo :
          /\ \A q \in query.todo : r[1] <= q[1]
          /\ query' = [query EXCEPT !.todo = @ \ {r}, !.raw = GetTsDataRange(query.id, r)]
    /\ UNCHANGED <<tables, writes, always, ever>>

\* The raw ranges are read left to right, one statement each.
ReadRaw ==
    /\ query.pc = "raw"
    /\ \E r \in query.todo :
          /\ \A q \in query.todo : r[1] <= q[1]
          /\ query' = [query EXCEPT !.todo = @ \ {r},
                                    !.raw = @ \cup GetTsDataRange(query.id, r)]
    /\ UNCHANGED <<tables, writes, always, ever>>

\* Without a rollup range this statement is not run, and reads no row.
ReadRollups ==
    /\ query.pc = "raw"
    /\ query.todo = {}
    /\ query' = [query EXCEPT !.pc = "done",
                              !.rollups = GetTsRollupRange(query.id, query.precision,
                                                           query.window)]
    /\ UNCHANGED <<tables, writes, always, ever>>

-----------------------------------------------------------------------------
(* Aggregation: accumulateAggregateBucket over raw samples, then rollups.  *)

SourceBuckets(raw, rollups, len) ==
    {Truncate(s.ts, len) : s \in raw} \cup {Truncate(h.bucket_ts, len) : h \in rollups}

\* Mutant of accumulateAggregateBucket: a rollup row counts as one sample.
accumulateRows(b, raw, rollups, len) ==
    LET samples == {s \in raw : Truncate(s.ts, len) = b}
        rows == {h \in rollups : Truncate(h.bucket_ts, len) = b}
    IN  [ts    |-> b,
         count |-> Cardinality(samples) + Cardinality(rows),
         sum   |-> SUM("value", samples) + SUM("sample_sum", rows),
         min   |-> Min({s.value : s \in samples} \cup {h.sample_min : h \in rows}),
         max   |-> Max({s.value : s \in samples} \cup {h.sample_max : h \in rows})]

accumulateAggregateBucket(b, raw, rollups, len) ==
    LET samples == {s \in raw : Truncate(s.ts, len) = b}
        rows == {h \in rollups : Truncate(h.bucket_ts, len) = b}
    IN  [ts    |-> b,
         count |-> Cardinality(samples) + SUM("sample_count", rows),
         sum   |-> SUM("value", samples) + SUM("sample_sum", rows),
         min   |-> Min({s.value : s \in samples} \cup {h.sample_min : h \in rows}),
         max   |-> Max({s.value : s \in samples} \cup {h.sample_max : h \in rows})]

aggregateFromSources(raw, rollups, len) ==
    {accumulateAggregateBucket(b, raw, rollups, len) : b \in SourceBuckets(raw, rollups, len)}

\* aggregateSingleSourceRows: the same from the samples alone.
aggregateRows(rows, len) == aggregateFromSources(rows, {}, len)

Answer == aggregateFromSources(query.raw, query.rollups, BucketLen(query.precision))

-----------------------------------------------------------------------------
(* The writers: any statement the API or the ingester may run.             *)

Observe ==
    /\ writes < MaxWrites
    /\ query.pc # "done"
    /\ writes' = writes + 1
    /\ always' = IF query.pc = "idle" THEN {} ELSE always \cap tsdata'
    /\ ever' = IF query.pc = "idle" THEN {} ELSE ever \cup tsdata'
    /\ UNCHANGED query

Insert ==
    /\ \E rows \in SUBSET Sample :
          /\ IsFiniteSet(rows) /\ Cardinality(rows) \in 1..MaxRows
          /\ \A r \in rows : ~Stored(r.ts_uuid, r.ts)
          /\ \A r, q \in rows : r.ts_uuid = q.ts_uuid /\ r.ts = q.ts => r = q
          /\ InsertStmt(rows)
    /\ Observe

Delete ==
    /\ \E rows \in {{r \in tsdata : r.ts_uuid = id /\ InRange(r.ts, w)} :
                        id \in Series, w \in Windows} \ {{}} :
          DeleteStmt(rows)
    /\ Observe

Init == TablesInit /\ query = NoQuery /\ writes = 0 /\ always = {} /\ ever = {}

Next == BeginQuery \/ ReadRaw \/ ReadRollups \/ Insert \/ Delete

Spec == Init /\ [][Next]_vars

-----------------------------------------------------------------------------
TypeOK ==
    /\ tsdata \subseteq Sample
    /\ UniqueSamples
    /\ query.pc \in {"idle", "raw", "done"}
    /\ query.raw \subseteq Sample
    /\ always \subseteq ever
    /\ writes \in 0..MaxWrites

(* The split of the range of the query in progress reads every tick of it  *)
(* exactly once.                                                           *)
QuerySplitExact ==
    query.pc # "idle" =>
        \A t \in Times : SplitExact(t, query.window[1], query.window[2],
                                    RollupLen(query.precision))

(* An aggregate by the hour over any range is the same from the rollup     *)
(* tables as from a scan of the samples.                                   *)
HourlyAnswerIsScan ==
    \A id \in Series, w \in Windows :
        LET raw == UNION {GetTsDataRange(id, r) : r \in RawRanges(w[1], w[2], HourLen)}
        IN  aggregateFromSources(raw, GetTsRollupRange(id, "hour", w), HourLen)
                = aggregateRows(GetTsDataRange(id, w), HourLen)

(* The same for aggregates by the day and above.                           *)
DailyAnswerIsScan ==
    \A id \in Series, w \in Windows, precision \in {"day", "week"} :
        LET raw == UNION {GetTsDataRange(id, r) : r \in RawRanges(w[1], w[2], DayLen)}
        IN  aggregateFromSources(raw, GetTsRollupRange(id, precision, w), BucketLen(precision))
                = aggregateRows(GetTsDataRange(id, w), BucketLen(precision))

(* What a query that runs while samples are written may answer: each       *)
(* bucket holds at least the samples that were there all the time, and by  *)
(* the hour no more than those that were there at some time, although the  *)
(* statements of the query see different states.                           *)
InBucket(b, rows) ==
    {r \in rows : /\ r.ts_uuid = query.id
                  /\ InRange(r.ts, query.window)
                  /\ Truncate(r.ts, BucketLen(query.precision)) = b}

QueryBracketed ==
    query.pc = "done" =>
        /\ \A r \in always :
              r.ts_uuid = query.id /\ InRange(r.ts, query.window) =>
                  \E a \in Answer : a.ts = Truncate(r.ts, BucketLen(query.precision))
        /\ \A a \in Answer :
              LET stayed == InBucket(a.ts, always)
                  seen == InBucket(a.ts, ever)
              IN  /\ a.count >= Cardinality(stayed)
                  /\ query.precision = "hour" => a.count <= Cardinality(seen)
                  /\ \A r \in stayed : a.min <= r.value /\ r.value <= a.max
                  /\ {a.min, a.max} \subseteq {r.value : r \in seen}
=============================================================================
