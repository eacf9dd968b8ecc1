----------------------------- MODULE Timeseries -----------------------------
(***************************************************************************)
(* The time series API (aapije) and the MQTT ingester (insamlare) writing  *)
(* to the tables of RollupTables.                                          *)
(*                                                                         *)
(* POST /v2/timeseries/{uuid}/data is a request of several database calls: *)
(* it reads the series row, then the unit of the series when the caller    *)
(* named one, filters the points by the bounds it read, and inserts them   *)
(* in statements of BatchSize rows, each committed by itself.  Requests of *)
(* other clients, the ingester and changes of the series come in between.  *)
(***************************************************************************)
EXTENDS RollupTables, Sequences

CONSTANTS Clients,            \* concurrent requests that add data
          PointLists,         \* the bodies such a request may carry
          BatchSize,          \* insertTimeseriesBatchSize
          MaxSpan,            \* longest range a DELETE may name
          Units,              \* units go-units can find
          Convertible,        \* pairs of units it can convert
          ConvertUnit(_,_,_), \* value, from, to: what it returns
          Bounds,             \* pairs of bounds a series may be given
          NoUnit, NoBound     \* nil

Bound == Values \cup {NoBound}

ASSUME WriterAssumption ==
    /\ PointLists \subseteq Seq([ts : Times, value : Values])
    /\ BatchSize \in Nat \ {0}
    /\ Series # {} /\ Units # {} /\ NoUnit \notin Units
    /\ Convertible \subseteq Units \X Units
    /\ NoBound \notin Int
    /\ Bounds \subseteq Bound \X Bound
    /\ \A v \in Values, from, to \in Units : ConvertUnit(v, from, to) \in Values

VARIABLES series,   \* the timeseries table: bounds and unit of each series
          request   \* what each client's request has got to

vars == <<tables, series, request>>

SeriesRow == [status : {"none", "live", "deleted"},
              lower_bound : Bound, upper_bound : Bound, si_unit : Units]

NoSeries(status) == [status |-> status, lower_bound |-> NoBound, upper_bound |-> NoBound,
                     si_unit |-> CHOOSE u \in Units : TRUE]

LiveSeries(bounds, unit) == [status |-> "live", lower_bound |-> bounds[1],
                             upper_bound |-> bounds[2], si_unit |-> unit]

Point == [ts : Times, value : Values]

NoRequest == [pc |-> "idle", id |-> CHOOSE s \in Series : TRUE, unit |-> NoUnit,
              lower |-> NoBound, upper |-> NoBound, points |-> <<>>, todo |-> {}]

\* points is the body as it came; todo holds the points still to be inserted,
\* each with its place in the body.
Request == [pc : {"idle", "unit", "insert"}, id : Series, unit : Units \cup {NoUnit},
            lower : Bound, upper : Bound,
            points : Seq(Point), todo : SUBSET (Nat \X Point)]

Live(id) == series[id].status = "live"

WithinBounds(v, lower, upper) ==
    /\ lower # NoBound => v >= lower
    /\ upper # NoBound => v <= upper

-----------------------------------------------------------------------------
(* The series themselves.                                                  *)

\* INSERT INTO timeseries: the UUID is fresh, so it was never used before.
AddTimeseries(id) ==
    /\ series[id].status = "none"
    /\ \E bounds \in Bounds, unit \in Units :
          series' = [series EXCEPT ![id] = LiveSeries(bounds, unit)]
    /\ UNCHANGED <<tables, request>>

\* One transaction that sets any of the columns.
UpdateTimeseries(id) ==
    /\ Live(id)
    /\ \E bounds \in Bounds, unit \in Units :
          series' = [series EXCEPT ![id] = LiveSeries(bounds, unit)]
    /\ UNCHANGED <<tables, request>>

\* Mutant of DeleteTimeseries: no foreign key from the samples to the series.
DeleteSeriesWithSamples(id) ==
    /\ Live(id)
    /\ series' = [series EXCEPT ![id] = NoSeries("deleted")]
    /\ hourly' = {h \in hourly : h.ts_uuid # id}
    /\ daily' = {d \in daily : d.ts_uuid # id}
    /\ UNCHANGED <<tsdata, request>>

\* The foreign key of tsdata refuses to delete a series that has samples;
\* the rollups' foreign keys cascade.
DeleteTimeseries(id) ==
    /\ Live(id)
    /\ \A r \in tsdata : r.ts_uuid # id
    /\ series' = [series EXCEPT ![id] = NoSeries("deleted")]
    /\ hourly' = {h \in hourly : h.ts_uuid # id}
    /\ daily' = {d \in daily : d.ts_uuid # id}
    /\ UNCHANGED <<tsdata, request>>

-----------------------------------------------------------------------------
(* TimeseriesService.AddDataToTimeseries, step by step.                    *)

Finish(c) == request' = [request EXCEPT ![c] = NoRequest]

InBounds(points, lower, upper) ==
    {<<i, points[i]>> : i \in {j \in DOMAIN points : WithinBounds(points[j].value, lower, upper)}}

Inserting(id, todo) ==
    IF todo = {} THEN NoRequest
    ELSE [NoRequest EXCEPT !.pc = "insert", !.id = id, !.todo = todo]

\* Filter the (converted) points; nothing left means 204 No Content.
StartInserting(c, req, points) ==
    request' = [request EXCEPT ![c] =
                   Inserting(req.id, InBounds(points, req.lower, req.upper))]

\* GetTimeseriesByUUID; a series that is not there answers 404.
ReadSeries(c) ==
    /\ request[c].pc = "idle"
    /\ \E id \in Series, points \in PointLists, unit \in Units \cup {NoUnit} :
          /\ Live(id)
          /\ points # <<>>
          /\ LET req == [pc |-> "unit", id |-> id, unit |-> unit,
                         lower |-> series[id].lower_bound,
                         upper |-> series[id].upper_bound,
                         points |-> points, todo |-> {}]
             IN IF unit = NoUnit
                THEN StartInserting(c, req, points)
                ELSE request' = [request EXCEPT ![c] = req]
    /\ UNCHANGED <<tables, series>>

Converted(points, from, to) ==
    [i \in DOMAIN points |->
        [points[i] EXCEPT !.value = ConvertUnit(@, from, to)]]

\* GetUnitFromTimeseries, a second read of the row, and the conversion.
ReadUnit(c) ==
    LET req == request[c]
        to == series[req.id].si_unit
    IN  /\ req.pc = "unit"
        /\ \/ /\ Live(req.id)
              /\ to = req.unit
              /\ StartInserting(c, req, req.points)
           \/ /\ Live(req.id)
              /\ to # req.unit
              /\ <<req.unit, to>> \in Convertible
              /\ StartInserting(c, req, Converted(req.points, req.unit, to))
           \/ /\ ~Live(req.id) \/ (to # req.unit /\ <<req.unit, to>> \notin Convertible)
              /\ Finish(c)
        /\ UNCHANGED <<tables, series>>

\* The next BatchSize points, in the order of the body.
Batch(todo) == {e \in todo : Cardinality({d \in todo : d[1] <= e[1]}) <= BatchSize}

RowOf(id, p) == [ts_uuid |-> id, ts |-> p.ts, value |-> p.value]
RowsOf(id, batch) == {RowOf(id, e[2]) : e \in batch}

\* Mutant of Refused: a timestamp that comes twice in a batch is not noticed.
RefusedIfStored(id, batch) == ~Live(id) \/ \E e \in batch : Stored(id, e[2].ts)

\* What makes the INSERT fail as a whole: the series is gone (foreign key),
\* or a timestamp is stored already or twice in the batch (unique key).
Refused(id, batch) ==
    \/ ~Live(id)
    \/ \E e \in batch : Stored(id, e[2].ts)
    \/ \E d, e \in batch : d # e /\ d[2].ts = e[2].ts

\* insertTimeseriesBatch: one multi-row INSERT, committed by itself.
insertTimeseriesBatch(c) ==
    LET req == request[c]
        batch == Batch(req.todo)
    IN  /\ req.pc = "insert"
        /\ ~Refused(req.id, batch)
        /\ InsertStmt(RowsOf(req.id, batch))
        /\ request' = [request EXCEPT ![c] = Inserting(req.id, req.todo \ batch)]
        /\ UNCHANGED series

\* The statement is refused, the database fails or the client goes away:
\* the request stops where it is and the batches before it stay.
AbortRequest(c) ==
    /\ request[c].pc # "idle"
    /\ Finish(c)
    /\ UNCHANGED <<tables, series>>

-----------------------------------------------------------------------------
(* The other statements on tsdata.                                         *)

\* insamlare's Writer.flush for one series: INSERT ... SELECT from a JSON
\* array, ON CONFLICT DO NOTHING.  The first of equal timestamps is kept.
FirstOf(points) ==
    {i \in DOMAIN points : \A j \in 1..(i - 1) : points[j].ts # points[i].ts}

\* Mutant of NewRows: rows that are stored already are not left out.
FlushedRows(id, points) == {RowOf(id, points[i]) : i \in FirstOf(points)}

NewRows(id, points) ==
    {RowOf(id, points[i]) : i \in {j \in FirstOf(points) : ~Stored(id, points[j].ts)}}

IngestFlush(id) ==
    /\ Live(id)
    /\ \E points \in PointLists : InsertStmt(NewRows(id, points))
    /\ UNCHANGED <<series, request>>

\* A range longer than MaxSpan is a malformed request.
Spans == {w \in Times \X Times : w[2] - w[1] <= MaxSpan}

\* DELETE ... WHERE ts BETWEEN start AND stop AND value >= ge AND value <= le
DeleteRange(id, w, ge, le) ==
    {r \in tsdata : /\ r.ts_uuid = id
                    /\ r.ts \in w[1]..w[2]
                    /\ WithinBounds(r.value, ge, le)}

DeleteTsData(id) ==
    /\ \E rows \in {DeleteRange(id, w, ge, le) : w \in Spans, ge \in Bound, le \in Bound} :
          DeleteStmt(rows)
    /\ UNCHANGED <<series, request>>

-----------------------------------------------------------------------------
Init ==
    /\ TablesInit
    /\ series = [id \in Series |-> NoSeries("none")]
    /\ request = [c \in Clients |-> NoRequest]

Next ==
    \/ \E id \in Series : AddTimeseries(id)
    \/ \E id \in Series : UpdateTimeseries(id)
    \/ \E id \in Series : DeleteTimeseries(id)
    \/ \E id \in Series : IngestFlush(id)
    \/ \E id \in Series : DeleteTsData(id)
    \/ \E c \in Clients : ReadSeries(c)
    \/ \E c \in Clients : ReadUnit(c)
    \/ \E c \in Clients : insertTimeseriesBatch(c)
    \/ \E c \in Clients : AbortRequest(c)

Spec == Init /\ [][Next]_vars

-----------------------------------------------------------------------------
(* Types, and the UNIQUE constraint the two INSERT statements rely on.     *)
TypeOK ==
    /\ tsdata \subseteq Sample
    /\ IsFiniteSet(tsdata)
    /\ UniqueSamples
    /\ series \in [Series -> SeriesRow]
    /\ request \in [Clients -> Request]
    /\ \A c \in Clients : IsFiniteSet(request[c].todo)

(* A stored sample is never overwritten: a repeated timestamp makes the    *)
(* API's INSERT fail and is skipped by the ingester, so a retry of points  *)
(* that were partly stored changes none of them.                           *)
NoOverwrite ==
    [][\A r \in tsdata, q \in tsdata' :
          r.ts_uuid = q.ts_uuid /\ r.ts = q.ts => r = q]_vars

(* Samples belong to a series that exists, also when the series is deleted *)
(* while a request that adds data to it is between two statements.         *)
SamplesHaveSeries == \A r \in tsdata : Live(r.ts_uuid)

(* Deleting samples leaves the rollup rows of every day it touched exact,  *)
(* whatever was wrong with them before.                                    *)
DeleteRepairsDay ==
    [][\A k \in DayKeys(HourlyOf(tsdata \ tsdata')) :
          Conflicting(daily', {k}) = Conflicting(DailyOf(HourlyOf(tsdata')), {k})]_vars

(* What the API documentation says of the bounds of a series: a value      *)
(* outside of them is not stored.                                          *)
OutOfBoundsRejected ==
    [][\A r \in tsdata' \ tsdata :
          WithinBounds(r.value, series[r.ts_uuid].lower_bound,
                       series[r.ts_uuid].upper_bound)]_vars
=============================================================================
