-------------------------- MODULE TimeseriesProofs --------------------------
(***************************************************************************)
(* Proofs about the writers of time series data, for any number of series, *)
(* clients, timestamps and values, any batch size and any bodies.          *)
(*                                                                         *)
(* The invariant Inv is inductive: the rollups stay exact because an       *)
(* INSERT adds only rows whose timestamps are not stored (the unique key   *)
(* of tsdata), which needs the types and the uniqueness of TypeOK;         *)
(* deleting a series keeps them because its rollups are gone with its      *)
(* samples.  DaysCovered is DailyCovers with the types of the counts and   *)
(* the finiteness that sums over the daily table need.                     *)
(***************************************************************************)
EXTENDS Timeseries, RollupTablesProofs

(* The inductive invariant.                                                *)
Inv == TypeOK /\ HourlyExact /\ DaysCovered /\ SamplesHaveSeries

(* A client without a request.                                             *)
LEMMA NoRequestType ==
    /\ NoRequest \in Request
    /\ IsFiniteSet(NoRequest.todo)
<1>1. (CHOOSE s \in Series : TRUE) \in Series
  BY WriterAssumption
<1>2. NoRequest.todo = {} /\ NoRequest \in Request
  BY <1>1 DEF NoRequest, Request, Bound
<1> QED BY <1>2, FS_EmptySet

(* The row of a series that is not there.                                  *)
LEMMA NoSeriesType ==
    ASSUME NEW status \in {"none", "live", "deleted"}
    PROVE  NoSeries(status) \in SeriesRow
<1>1. (CHOOSE u \in Units : TRUE) \in Units
  BY WriterAssumption
<1> QED BY <1>1 DEF NoSeries, SeriesRow, Bound

(* The row of a series that is there.                                      *)
LEMMA LiveSeriesType ==
    ASSUME NEW bounds \in Bounds, NEW unit \in Units
    PROVE  /\ LiveSeries(bounds, unit) \in SeriesRow
           /\ LiveSeries(bounds, unit).status = "live"
  BY WriterAssumption DEF LiveSeries, SeriesRow

(* Converting the units of a body keeps it a body.                         *)
LEMMA ConvertedType ==
    ASSUME NEW points \in Seq(Point), NEW from \in Units, NEW to \in Units
    PROVE  Converted(points, from, to) \in Seq(Point)
<1> DEFINE conv == Converted(points, from, to)
<1>1. /\ DOMAIN points = 1..Len(points) /\ Len(points) \in Nat
      /\ \A i \in DOMAIN points : points[i] \in Point
  OBVIOUS
<1>2. ASSUME NEW i \in DOMAIN points PROVE conv[i] \in Point
  <2>1. points[i] \in Point /\ points[i].value \in Values
    BY <1>1 DEF Point
  <2>2. ConvertUnit(points[i].value, from, to) \in Values
    BY <2>1, WriterAssumption
  <2>3. conv[i] = [points[i] EXCEPT !.value = ConvertUnit(points[i].value, from, to)]
    BY DEF Converted
  <2> QED BY <2>1, <2>2, <2>3 DEF Point
<1>3. conv = [i \in 1..Len(points) |-> conv[i]]
  BY <1>1 DEF Converted
<1> QED BY <1>1, <1>2, <1>3

(* What a request has left to insert.                                      *)
LEMMA InsertingType ==
    ASSUME NEW id \in Series, NEW todo \in SUBSET (Nat \X Point), IsFiniteSet(todo)
    PROVE  /\ Inserting(id, todo) \in Request
           /\ IsFiniteSet(Inserting(id, todo).todo)
<1> DEFINE r == [NoRequest EXCEPT !.pc = "insert", !.id = id, !.todo = todo]
<1>1. CASE todo = {}
  BY <1>1, NoRequestType DEF Inserting
<1>2. CASE todo # {}
  <2>1. Inserting(id, todo) = r
    BY <1>2 DEF Inserting
  <2>2. r \in Request /\ r.todo = todo
    BY NoRequestType DEF NoRequest, Request
  <2> QED BY <2>1, <2>2
<1> QED BY <1>1, <1>2

(* The points of a body that are within bounds.                            *)
LEMMA InBoundsType ==
    ASSUME NEW points \in Seq(Point), NEW lower \in Bound, NEW upper \in Bound
    PROVE  /\ InBounds(points, lower, upper) \in SUBSET (Nat \X Point)
           /\ IsFiniteSet(InBounds(points, lower, upper))
<1> DEFINE K == {j \in DOMAIN points : WithinBounds(points[j].value, lower, upper)}
           f == [i \in K |-> <<i, points[i]>>]
<1>1. DOMAIN points = 1..Len(points) /\ Len(points) \in Nat
  OBVIOUS
<1>2. IsFiniteSet(K)
  <2>1. IsFiniteSet(1..Len(points))
    BY <1>1, FS_Interval
  <2> QED BY <1>1, <2>1, FS_Subset
<1>3. InBounds(points, lower, upper) = {f[i] : i \in K}
  BY DEF InBounds
<1>4. IsFiniteSet({f[i] : i \in K})
  <2>1. DOMAIN f = K
    OBVIOUS
  <2> HIDE DEF f, K
  <2> QED BY <1>2, <2>1, ImageFinite
<1>5. InBounds(points, lower, upper) \in SUBSET (Nat \X Point)
  BY <1>1 DEF InBounds
<1> QED BY <1>3, <1>4, <1>5

(* A batch the database does not refuse holds new timestamps only.         *)
LEMMA BatchRows ==
    ASSUME NEW id \in Series, NEW todo \in SUBSET (Nat \X Point), IsFiniteSet(todo),
           ~Refused(id, Batch(todo))
    PROVE  LET rows == RowsOf(id, Batch(todo))
           IN  rows \in SUBSET Sample /\ IsFiniteSet(rows) /\ NewKeys(rows)
<1> DEFINE batch == Batch(todo)
           rows == RowsOf(id, batch)
           f == [e \in batch |-> RowOf(id, e[2])]
<1>1. batch \in SUBSET todo
  BY DEF Batch
<1>2. IsFiniteSet(batch)
  BY <1>1, FS_Subset
<1>3. IsFiniteSet(rows)
  <2>1. rows = {f[e] : e \in batch} /\ DOMAIN f = batch
    BY DEF RowsOf
  <2> HIDE DEF f, batch, rows
  <2> QED BY <1>2, <2>1, ImageFinite
<1>4. \A e \in batch : e[2] \in Point
  BY <1>1
<1> HIDE DEF batch
<1>5. rows \in SUBSET Sample
  BY <1>4 DEF RowsOf, RowOf, Sample, Point
<1>6. NewKeys(rows)
  <2>1. /\ \A e \in batch : ~Stored(id, e[2].ts)
        /\ \A d, e \in batch : d # e => d[2].ts # e[2].ts
    BY DEF Refused, batch
  <2> QED BY <2>1 DEF NewKeys, RowsOf, RowOf
<1> QED BY <1>3, <1>5, <1>6 DEF batch

(* ON CONFLICT DO NOTHING: the ingester adds new timestamps only.          *)
LEMMA FlushRows ==
    ASSUME NEW id \in Series, NEW points \in Seq(Point)
    PROVE  LET rows == NewRows(id, points)
           IN  rows \in SUBSET Sample /\ IsFiniteSet(rows) /\ NewKeys(rows)
<1> DEFINE K == {j \in FirstOf(points) : ~Stored(id, points[j].ts)}
           rows == NewRows(id, points)
           f == [i \in K |-> RowOf(id, points[i])]
<1>1. /\ DOMAIN points = 1..Len(points) /\ Len(points) \in Nat
      /\ \A i \in DOMAIN points : points[i] \in Point
  OBVIOUS
<1>2. K \in SUBSET (1..Len(points))
  BY <1>1 DEF FirstOf
<1>3. IsFiniteSet(K)
  <2>1. IsFiniteSet(1..Len(points))
    BY <1>1, FS_Interval
  <2> QED BY <1>2, <2>1, FS_Subset
<1>4. IsFiniteSet(rows)
  <2>1. rows = {f[i] : i \in K} /\ DOMAIN f = K
    BY DEF NewRows
  <2> HIDE DEF f, K, rows
  <2> QED BY <1>3, <2>1, ImageFinite
<1>5. rows \in SUBSET Sample
  BY <1>1, <1>2 DEF NewRows, RowOf, Sample, Point
<1>6. \A i, j \in K : points[i].ts = points[j].ts => i = j
  BY <1>1 DEF FirstOf
<1>7. NewKeys(rows)
  <2>1. rows = {RowOf(id, points[i]) : i \in K}
    BY DEF NewRows
  <2>2. \A i \in K : ~Stored(id, points[i].ts)
    OBVIOUS
  <2> HIDE DEF K, rows
  <2> QED BY <1>6, <2>1, <2>2 DEF NewKeys, RowOf
<1> QED BY <1>4, <1>5, <1>7

(* The empty tables.                                                       *)
LEMMA InitInv == Init => Inv
<1> SUFFICES ASSUME Init PROVE Inv
  OBVIOUS
<1>1. tsdata = {} /\ hourly = {} /\ daily = {}
  BY DEF Init, TablesInit
<1>2. HourlyExact /\ DaysCovered
  BY <1>1, FS_EmptySet DEF HourlyExact, HourlyOf, HourKeys, DaysCovered, Covering,
                           RollupKeys, DayKeys
<1>3. series \in [Series -> SeriesRow]
  BY NoSeriesType DEF Init
<1>4. /\ request \in [Clients -> Request]
      /\ \A c \in Clients : IsFiniteSet(request[c].todo)
  BY NoRequestType DEF Init
<1>5. IsFiniteSet(tsdata) /\ UniqueSamples /\ SamplesHaveSeries
  BY <1>1, FS_EmptySet DEF UniqueSamples, SamplesHaveSeries
<1> QED BY <1>1, <1>2, <1>3, <1>4, <1>5 DEF Inv, TypeOK

(* A step that replaces one client's request by a well-typed one.          *)
LEMMA RequestStep ==
    ASSUME Inv, UNCHANGED <<tables, series>>, NEW c \in Clients,
           NEW r \in Request, IsFiniteSet(r.todo),
           request' = [request EXCEPT ![c] = r]
    PROVE  Inv'
<1>1. /\ request' \in [Clients -> Request]
      /\ \A d \in Clients : IsFiniteSet(request'[d].todo)
  BY DEF Inv, TypeOK
<1>2. tsdata' = tsdata /\ hourly' = hourly /\ daily' = daily /\ series' = series
  BY DEF tables
<1>3. HourlyExact' /\ DaysCovered' /\ UniqueSamples' /\ SamplesHaveSeries'
  BY <1>2 DEF Inv, TypeOK, HourlyExact, DaysCovered, UniqueSamples, SamplesHaveSeries, Live
<1> QED BY <1>1, <1>2, <1>3 DEF Inv, TypeOK

(* A step that inserts samples of a live series.                           *)
LEMMA InsertStep ==
    ASSUME Inv, UNCHANGED series, NEW id \in Series, Live(id),
           NEW rows \in SUBSET Sample, IsFiniteSet(rows), NewKeys(rows),
           \A r \in rows : r.ts_uuid = id, InsertStmt(rows),
           request' \in [Clients -> Request],
           \A c \in Clients : IsFiniteSet(request'[c].todo)
    PROVE  Inv'
<1>1. /\ tsdata' \in SUBSET Sample /\ IsFiniteSet(tsdata')
      /\ UniqueSamples' /\ HourlyExact' /\ DaysCovered'
  BY InsertKeeps DEF Inv, TypeOK
<1>2. SamplesHaveSeries'
  BY DEF InsertStmt, Inv, SamplesHaveSeries, Live
<1> QED BY <1>1, <1>2 DEF Inv, TypeOK

(* A step that changes one series row; a series with samples stays.        *)
LEMMA SeriesUpdate ==
    ASSUME Inv, NEW id \in Series, NEW row \in SeriesRow,
           row.status = "live" \/ \A r \in tsdata : r.ts_uuid # id,
           series' = [series EXCEPT ![id] = row],
           tsdata' = tsdata, hourly' = hourly, daily' = daily, request' = request
    PROVE  Inv'
<1>1. series' \in [Series -> SeriesRow]
  BY DEF Inv, TypeOK
<1>2. SamplesHaveSeries'
  BY DEF Inv, TypeOK, SamplesHaveSeries, Live, Sample
<1>3. HourlyExact' /\ DaysCovered' /\ UniqueSamples'
  BY DEF Inv, TypeOK, HourlyExact, DaysCovered, UniqueSamples
<1> QED BY <1>1, <1>2, <1>3 DEF Inv, TypeOK

(* Every action keeps the invariant.                                       *)
LEMMA NextInv == Inv /\ [Next]_vars => Inv'
<1> SUFFICES ASSUME Inv, [Next]_vars PROVE Inv'
  OBVIOUS
<1>1. ASSUME NEW id \in Series, AddTimeseries(id) PROVE Inv'
  <2>1. PICK bounds \in Bounds, unit \in Units :
           series' = [series EXCEPT ![id] = LiveSeries(bounds, unit)]
    BY <1>1 DEF AddTimeseries
  <2>2. tsdata' = tsdata /\ hourly' = hourly /\ daily' = daily /\ request' = request
    BY <1>1 DEF AddTimeseries, tables
  <2> QED BY <2>1, <2>2, LiveSeriesType, SeriesUpdate
<1>2. ASSUME NEW id \in Series, UpdateTimeseries(id) PROVE Inv'
  <2>1. PICK bounds \in Bounds, unit \in Units :
           series' = [series EXCEPT ![id] = LiveSeries(bounds, unit)]
    BY <1>2 DEF UpdateTimeseries
  <2>2. tsdata' = tsdata /\ hourly' = hourly /\ daily' = daily /\ request' = request
    BY <1>2 DEF UpdateTimeseries, tables
  <2> QED BY <2>1, <2>2, LiveSeriesType, SeriesUpdate
<1>3. ASSUME NEW id \in Series, DeleteTimeseries(id) PROVE Inv'
  <2>1. /\ \A r \in tsdata : r.ts_uuid # id
        /\ series' = [series EXCEPT ![id] = NoSeries("deleted")]
        /\ hourly' = {h \in hourly : h.ts_uuid # id}
        /\ daily' = {d \in daily : d.ts_uuid # id}
        /\ tsdata' = tsdata /\ request' = request
    BY <1>3 DEF DeleteTimeseries
  <2>2. \A h \in hourly : h.ts_uuid # id
    <3>1. ASSUME NEW k \in HourKeys(tsdata) PROVE HourRow(k, tsdata).ts_uuid # id
      <4>1. PICK r \in tsdata : k = <<r.ts_uuid, Hour(r.ts)>>
        BY DEF HourKeys, HourKey
      <4>2. HourRow(k, tsdata).ts_uuid = r.ts_uuid
        BY <4>1 DEF HourRow
      <4> QED BY <2>1, <4>2
    <3> QED BY <3>1 DEF Inv, HourlyExact, HourlyOf
  <2>3. \A d \in daily : d.ts_uuid # id
    <3>1. ASSUME NEW d \in daily PROVE d.ts_uuid # id
      <4>1. <<d.ts_uuid, d.bucket_ts>> \in DayKeys(hourly)
        BY DEF Inv, DaysCovered, HourlyExact, Covering, RollupKeys, RollupKey
      <4>2. PICK h \in hourly : <<d.ts_uuid, d.bucket_ts>> = <<h.ts_uuid, Day(h.bucket_ts)>>
        BY <4>1 DEF DayKeys, DayKey
      <4> QED BY <2>2, <4>2
    <3> QED BY <3>1
  <2>5. hourly' = hourly /\ daily' = daily
    BY <2>1, <2>2, <2>3
  <2>4. NoSeries("deleted") \in SeriesRow
    BY NoSeriesType
  <2> QED BY <2>1, <2>4, <2>5, SeriesUpdate
<1>4. ASSUME NEW id \in Series, IngestFlush(id) PROVE Inv'
  <2>1. PICK points \in PointLists : InsertStmt(NewRows(id, points))
    BY <1>4 DEF IngestFlush
  <2>2. points \in Seq(Point)
    BY WriterAssumption DEF Point
  <2> DEFINE rows == NewRows(id, points)
  <2>3. rows \in SUBSET Sample /\ IsFiniteSet(rows) /\ NewKeys(rows)
    BY <2>2, FlushRows
  <2>4. \A r \in rows : r.ts_uuid = id
    BY DEF NewRows, RowOf
  <2>5. UNCHANGED series /\ request' = request /\ Live(id)
    BY <1>4 DEF IngestFlush
  <2>6. /\ request' \in [Clients -> Request]
        /\ \A c \in Clients : IsFiniteSet(request'[c].todo)
    BY <2>5 DEF Inv, TypeOK
  <2> HIDE DEF rows
  <2>7. InsertStmt(rows)
    BY <2>1 DEF rows
  <2> QED BY <2>3, <2>4, <2>5, <2>6, <2>7, InsertStep
<1>5. ASSUME NEW id \in Series, DeleteTsData(id) PROVE Inv'
  <2>1. PICK rows \in SUBSET tsdata : DeleteStmt(rows)
    BY <1>5 DEF DeleteTsData, DeleteRange
  <2>2. /\ tsdata' \in SUBSET Sample /\ IsFiniteSet(tsdata')
        /\ UniqueSamples' /\ HourlyExact' /\ DaysCovered'
    BY <2>1, DeleteKeeps DEF Inv, TypeOK
  <2>3. series' = series /\ request' = request
    BY <1>5 DEF DeleteTsData
  <2>4. SamplesHaveSeries'
    BY <2>1, <2>3 DEF DeleteStmt, Inv, SamplesHaveSeries, Live
  <2> QED BY <2>2, <2>3, <2>4 DEF Inv, TypeOK
<1>6. ASSUME NEW c \in Clients, ReadSeries(c) PROVE Inv'
  <2>1. PICK id \in Series, points \in PointLists, unit \in Units \cup {NoUnit} :
          LET req == [pc |-> "unit", id |-> id, unit |-> unit,
                      lower |-> series[id].lower_bound,
                      upper |-> series[id].upper_bound,
                      points |-> points, todo |-> {}]
          IN IF unit = NoUnit
             THEN StartInserting(c, req, points)
             ELSE request' = [request EXCEPT ![c] = req]
    BY <1>6 DEF ReadSeries
  <2> DEFINE req == [pc |-> "unit", id |-> id, unit |-> unit,
                     lower |-> series[id].lower_bound,
                     upper |-> series[id].upper_bound,
                     points |-> points, todo |-> {}]
  <2>2. points \in Seq(Point)
    BY WriterAssumption DEF Point
  <2>3. series[id].lower_bound \in Bound /\ series[id].upper_bound \in Bound
    BY DEF Inv, TypeOK, SeriesRow
  <2>4. req \in Request /\ IsFiniteSet(req.todo)
    BY <2>2, <2>3, FS_EmptySet DEF Request
  <2>5. UNCHANGED <<tables, series>>
    BY <1>6 DEF ReadSeries
  <2> DEFINE todo == InBounds(points, series[id].lower_bound, series[id].upper_bound)
  <2>6. todo \in SUBSET (Nat \X Point) /\ IsFiniteSet(todo)
    BY <2>2, <2>3, InBoundsType
  <2>7. \/ request' = [request EXCEPT ![c] = req]
        \/ request' = [request EXCEPT ![c] = Inserting(id, todo)]
    BY <2>1 DEF StartInserting
  <2> HIDE DEF req, todo
  <2>8. Inserting(id, todo) \in Request /\ IsFiniteSet(Inserting(id, todo).todo)
    BY <2>6, InsertingType
  <2> QED BY <2>4, <2>5, <2>7, <2>8, RequestStep
<1>7. ASSUME NEW c \in Clients, ReadUnit(c) PROVE Inv'
  <2> DEFINE req == request[c]
             to == series[req.id].si_unit
             points == Converted(req.points, req.unit, to)
  <2>1. req \in Request /\ to \in Units
    BY DEF Inv, TypeOK, Request, SeriesRow
  <2>2. UNCHANGED <<tables, series>>
    BY <1>7 DEF ReadUnit
  <2>3. \/ /\ to = req.unit
           /\ request' = [request EXCEPT ![c] =
                             Inserting(req.id, InBounds(req.points, req.lower, req.upper))]
        \/ /\ <<req.unit, to>> \in Convertible
           /\ request' = [request EXCEPT ![c] =
                             Inserting(req.id, InBounds(points, req.lower, req.upper))]
        \/ request' = [request EXCEPT ![c] = NoRequest]
    BY <1>7 DEF ReadUnit, StartInserting, Finish
  <2>4. req.id \in Series /\ req.points \in Seq(Point) /\ req.lower \in Bound /\ req.upper \in Bound
    BY <2>1 DEF Request
  <2>5. ASSUME NEW ps \in Seq(Point),
               request' = [request EXCEPT ![c] =
                              Inserting(req.id, InBounds(ps, req.lower, req.upper))]
        PROVE  Inv'
    <3> DEFINE todo == InBounds(ps, req.lower, req.upper)
    <3>1. todo \in SUBSET (Nat \X Point) /\ IsFiniteSet(todo)
      BY <2>4, InBoundsType
    <3> HIDE DEF todo, req
    <3>2. Inserting(req.id, todo) \in Request /\ IsFiniteSet(Inserting(req.id, todo).todo)
      BY <2>4, <3>1, InsertingType
    <3>3. request' = [request EXCEPT ![c] = Inserting(req.id, todo)]
      BY <2>5 DEF todo
    <3> QED BY <2>2, <3>2, <3>3, RequestStep
  <2>6. <<req.unit, to>> \in Convertible => points \in Seq(Point)
    <3>1. <<req.unit, to>> \in Convertible => req.unit \in Units
      BY WriterAssumption
    <3> QED BY <2>1, <2>4, <3>1, ConvertedType
  <2>7. request' = [request EXCEPT ![c] = NoRequest] => Inv'
    BY <2>2, NoRequestType, RequestStep
  <2> HIDE DEF req, to, points
  <2> QED BY <2>3, <2>4, <2>5, <2>6, <2>7
<1>8. ASSUME NEW c \in Clients, insertTimeseriesBatch(c) PROVE Inv'
  <2> DEFINE req == request[c]
             batch == Batch(req.todo)
             rows == RowsOf(req.id, batch)
             next == Inserting(req.id, req.todo \ batch)
  <2>1. /\ ~Refused(req.id, batch)
        /\ InsertStmt(rows)
        /\ request' = [request EXCEPT ![c] = next]
        /\ UNCHANGED series
    BY <1>8 DEF insertTimeseriesBatch
  <2>2. /\ request \in [Clients -> Request]
        /\ \A d \in Clients : IsFiniteSet(request[d].todo)
    BY DEF Inv, TypeOK
  <2>3. req.id \in Series /\ req.todo \in SUBSET (Nat \X Point) /\ IsFiniteSet(req.todo)
    BY <2>2 DEF Request
  <2>4. rows \in SUBSET Sample /\ IsFiniteSet(rows) /\ NewKeys(rows)
    BY <2>1, <2>3, BatchRows
  <2>5. \A r \in rows : r.ts_uuid = req.id
    BY DEF RowsOf, RowOf
  <2>6. Live(req.id)
    BY <2>1 DEF Refused
  <2>7. req.todo \ batch \in SUBSET (Nat \X Point) /\ IsFiniteSet(req.todo \ batch)
    BY <2>3, FS_Difference
  <2>8. next \in Request /\ IsFiniteSet(next.todo)
    BY <2>3, <2>7, InsertingType
  <2>9. /\ request' \in [Clients -> Request]
        /\ \A d \in Clients : IsFiniteSet(request'[d].todo)
    <3> HIDE DEF next
    <3> QED BY <2>1, <2>2, <2>8
  <2> HIDE DEF req, rows
  <2> QED BY <2>1, <2>3, <2>4, <2>5, <2>6, <2>9, InsertStep
<1>9. ASSUME NEW c \in Clients, AbortRequest(c) PROVE Inv'
  BY <1>9, NoRequestType, RequestStep DEF AbortRequest, Finish
<1>10. CASE UNCHANGED vars
  BY <1>10 DEF vars, tables, Inv, TypeOK, HourlyExact, DaysCovered, UniqueSamples, SamplesHaveSeries, Live
<1> QED
  BY <1>1, <1>2, <1>3, <1>4, <1>5, <1>6, <1>7, <1>8, <1>9, <1>10 DEF Next

(* The invariant holds in every reachable state.                           *)
THEOREM InvHolds == Spec => []Inv
  BY InitInv, NextInv, PTL DEF Spec

(* Types and the uniqueness of (ts_uuid, ts).                              *)
THEOREM TypeCorrect == Spec => []TypeOK
<1>1. Inv => TypeOK
  BY DEF Inv
<1> QED BY <1>1, InvHolds, PTL

(* The hourly rollup table is always what a scan of the samples would      *)
(* give, however API requests, ingester flushes, deletions and changes of  *)
(* series interleave.                                                      *)
THEOREM HourlyRollupsExact == Spec => []HourlyExact
<1>1. Inv => HourlyExact
  BY DEF Inv
<1> QED BY <1>1, InvHolds, PTL

(* A day has a row iff it has samples; its minimum and maximum are exact   *)
(* and its count is never too low, however statements follow each other.   *)
THEOREM DailyRollupsCover == Spec => []DailyCovers
<1>1. Inv => DailyCovers
  BY DEF Inv, DaysCovered, DailyCovers, Covering, Covers, DayRow
<1> QED BY <1>1, InvHolds, PTL

(* A sample's series exists, also when the series is deleted between two   *)
(* batches of a request.                                                   *)
THEOREM NoOrphanSamples == Spec => []SamplesHaveSeries
<1>1. Inv => SamplesHaveSeries
  BY DEF Inv
<1> QED BY <1>1, InvHolds, PTL

(* No step replaces a stored sample by another one of the same time.       *)
THEOREM SamplesNotOverwritten == Spec => NoOverwrite
<1> DEFINE Kept == \A r \in tsdata, q \in tsdata' :
                      r.ts_uuid = q.ts_uuid /\ r.ts = q.ts => r = q
<1>1. Inv /\ Inv' /\ [Next]_vars => [Kept]_vars
  <2> SUFFICES ASSUME Inv, Inv', Next PROVE Kept
    OBVIOUS
  <2>1. tsdata \subseteq tsdata' \/ tsdata' \subseteq tsdata
    <3>1. ASSUME NEW id \in Series,
                 AddTimeseries(id) \/ UpdateTimeseries(id) \/ DeleteTimeseries(id)
          PROVE  tsdata' = tsdata
      BY <3>1 DEF AddTimeseries, UpdateTimeseries, DeleteTimeseries, tables
    <3>2. ASSUME NEW id \in Series, IngestFlush(id) PROVE tsdata \subseteq tsdata'
      BY <3>2 DEF IngestFlush, InsertStmt
    <3>3. ASSUME NEW id \in Series, DeleteTsData(id) PROVE tsdata' \subseteq tsdata
      BY <3>3 DEF DeleteTsData, DeleteStmt
    <3>4. ASSUME NEW c \in Clients, ReadSeries(c) \/ ReadUnit(c) \/ AbortRequest(c)
          PROVE  tsdata' = tsdata
      BY <3>4 DEF ReadSeries, ReadUnit, AbortRequest, tables
    <3>5. ASSUME NEW c \in Clients, insertTimeseriesBatch(c) PROVE tsdata \subseteq tsdata'
      BY <3>5 DEF insertTimeseriesBatch, InsertStmt
    <3> QED BY <3>1, <3>2, <3>3, <3>4, <3>5 DEF Next
  <2> QED BY <2>1 DEF Inv, TypeOK, UniqueSamples
<1> QED BY <1>1, InvHolds, PTL DEF Spec, NoOverwrite

(* A DELETE of samples leaves the daily rows of the days it touched as a   *)
(* scan of the samples would give them, whatever they were before.         *)
THEOREM DeletesRepairDays == Spec => DeleteRepairsDay
<1> DEFINE Repaired == \A k \in DayKeys(HourlyOf(tsdata \ tsdata')) :
             Conflicting(daily', {k}) = Conflicting(DailyOf(HourlyOf(tsdata')), {k})
<1>1. Inv /\ [Next]_vars => [Repaired]_vars
  <2> SUFFICES ASSUME Inv, Next PROVE Repaired
    OBVIOUS
  <2>1. ASSUME tsdata \subseteq tsdata' PROVE Repaired
    <3>1. tsdata \ tsdata' = {}
      BY <2>1
    <3>2. DayKeys(HourlyOf(tsdata \ tsdata')) = {}
      BY <3>1 DEF DayKeys, HourlyOf, HourKeys
    <3> QED BY <3>2
  <2>2. ASSUME NEW id \in Series,
               AddTimeseries(id) \/ UpdateTimeseries(id) \/ DeleteTimeseries(id)
        PROVE  tsdata \subseteq tsdata'
    BY <2>2 DEF AddTimeseries, UpdateTimeseries, DeleteTimeseries, tables
  <2>3. ASSUME NEW id \in Series, IngestFlush(id) PROVE tsdata \subseteq tsdata'
    BY <2>3 DEF IngestFlush, InsertStmt
  <2>4. ASSUME NEW c \in Clients,
               ReadSeries(c) \/ ReadUnit(c) \/ AbortRequest(c) \/ insertTimeseriesBatch(c)
        PROVE  tsdata \subseteq tsdata'
    BY <2>4 DEF ReadSeries, ReadUnit, AbortRequest, insertTimeseriesBatch, InsertStmt, tables
  <2>5. ASSUME NEW id \in Series, DeleteTsData(id) PROVE Repaired
    <3>1. PICK rows \in SUBSET tsdata : DeleteStmt(rows)
      BY <2>5 DEF DeleteTsData, DeleteRange
    <3>2. /\ tsdata' = tsdata \ rows
          /\ daily' = DailyAfterHourlyRefresh(daily, HourlyOf(tsdata), tsdata \ rows, rows)
      BY <3>1 DEF DeleteStmt, Inv, HourlyExact
    <3>3. tsdata \ tsdata' = rows
      BY <3>2
    <3>4. tsdata \in SUBSET Sample /\ IsFiniteSet(tsdata)
      BY DEF Inv, TypeOK
    <3>5. ASSUME NEW k \in DayKeys(HourlyOf(rows))
          PROVE  Conflicting(daily', {k}) = Conflicting(DailyOf(HourlyOf(tsdata')), {k})
      BY <3>2, <3>4, DeleteRepairs
    <3> QED BY <3>3, <3>5
  <2> HIDE DEF Repaired
  <2> QED BY <2>1, <2>2, <2>3, <2>4, <2>5 DEF Next
<1> QED BY <1>1, InvHolds, PTL DEF Spec, DeleteRepairsDay
=============================================================================
