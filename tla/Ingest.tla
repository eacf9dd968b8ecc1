------------------------------- MODULE Ingest --------------------------------
(***************************************************************************)
(* insamlare, the MQTT ingester: subscription callbacks put messages into  *)
(* a bounded channel, transform workers turn them into points and put      *)
(* those into the bounded queue of the writer, and the writer collects     *)
(* them into a batch that it inserts series by series.                     *)
(*                                                                         *)
(* Every callback runs in a goroutine of its own (SetOrderMatters(false)), *)
(* and the client acknowledges a message when its callback returns: the    *)
(* broker has forgotten a message long before its points are stored.       *)
(*                                                                         *)
(* A statement is one step, as is each channel operation.  The goroutines  *)
(* end through the context, through the closed channel, or with the        *)
(* process.                                                                *)
(***************************************************************************)
EXTENDS TopicRoutes, FiniteSets, SequencesExt

CONSTANTS
  Routes,          \* the configured routes
  Messages,        \* what publishers have sent
  Topics,          \* the topics there are
  UUIDs,           \* the words uuid.Parse accepts
  Known,           \* the series in the database
  NaN,             \* a value json.Marshal refuses
  Workers,
  QueueSize,       \* of the message channel and of the writer's queue
  BatchSize,
  MaxDeliveries,   \* bound: messages handed to the client
  MaxFailures,     \* bound: statements failing by chance
  MaxRestarts      \* bound: restarts of the process

ASSUME IngestAssumption ==
  /\ Routes \in Seq([kind : {"topic", "regex"}, pattern : Seq(STRING),
                     subscription : Seq(STRING), template : Nat, series : STRING,
                     mode : {"fixed", "script"},
                     format : {"auto", "number", "json"}, stamped : BOOLEAN])
  /\ \A r \in DOMAIN Routes : ValidRoute(Routes[r])
  /\ Topics \subseteq Seq(STRING)
  /\ \A m \in Messages :
       /\ m.topic \in Topics
       /\ m.payload \in {"number", "json", "other"}
       /\ m.samples \in Seq([series : STRING, ts : Nat, value : Int])
       /\ m.payload = "number" => Len(m.samples) = 1
  /\ IsFiniteSet(Workers)
  /\ QueueSize \in Nat \ {0} /\ BatchSize \in Nat \ {0}
  /\ MaxDeliveries \in Nat /\ MaxFailures \in Nat /\ MaxRestarts \in Nat

VARIABLES
  log,             \* the messages delivered, with the routes they went to
  run,             \* where Runtime.Run is
  subscribed,      \* number of routes subscribed so far
  connected,       \* the client is connected
  cancelled,       \* the context of Run
  callbacks,       \* callbacks in progress, <<delivery, route>>
  msgCh,
  worker,          \* per worker: pc, and the points it has left to enqueue
  queue,
  writer,          \* pc, and the series of the batch left to insert
  buffer,
  stats,
  tsdata,          \* the rows, each the point it was made of
  excused,         \* history: points lost to a failed flush, a stop or a kill
  failures,        \* statements that failed by chance
  restarts

vars == <<log, run, subscribed, connected, cancelled, callbacks, msgCh, worker,
          queue, writer, buffer, stats, tsdata, excused, failures, restarts>>

-----------------------------------------------------------------------------
(***************************************************************************)
(* The transformation of a message.  Its samples are what the payload      *)
(* holds, or what the script of a route makes of it: the series a script   *)
(* names, a timestamp (0 for none) and a value.                            *)
(***************************************************************************)
SubscriptionTopic(r) ==
  IF Routes[r].subscription # <<>> THEN Routes[r].subscription
  ELSE IF Routes[r].kind = "topic" THEN Routes[r].pattern
  ELSE deriveSubscriptionTopicFromRegex(Routes[r].pattern)

Matches(r, topic) ==
  IF Routes[r].kind = "regex" THEN RegexMatch(Routes[r].pattern, topic)
                              ELSE WildcardMatch(Routes[r].pattern, topic)

\* What a timeseries_uuid with a template expands to: a template whose index
\* has no capture stays as it is, and is no UUID.
SeriesOf(r, topic) ==
  LET route == Routes[r]
      found == Captures(route.pattern, topic)
  IN  IF route.template = 0 THEN route.series
      ELSE IF route.template \in DOMAIN found THEN found[route.template]
      ELSE "template"

\* Whether sample k of m brings the timestamp it is stored under: a script says
\* so point by point, a fixed route by its timestamp_key, which only an object
\* of a JSON payload can have.
FromPayload(r, m, k) ==
  IF Routes[r].mode = "script" THEN m.samples[k].ts # 0
                               ELSE m.payload = "json" /\ Routes[r].stamped

\* Mutant: the time of reception is used whatever the payload says.
TimestampReceived(r, m, d, k) == <<0, d, r>>

\* The time of reception otherwise, for a script the time of the conversion,
\* which no two points share.
Timestamp(r, m, d, k) ==
  IF FromPayload(r, m, k) THEN <<m.samples[k].ts, 0, 0>>
  ELSE IF Routes[r].mode = "script" THEN <<k, d, r>>
  ELSE <<0, d, r>>

\* The payload can be read; all of it is thrown away if one object lacks the
\* timestamp its route wants.
Extracts(r, m) ==
  IF Routes[r].mode = "script" THEN m.payload # "other"
  ELSE \/ m.payload = "number" /\ Routes[r].format \in {"auto", "number"}
       \/ /\ m.payload = "json" /\ Routes[r].format \in {"auto", "json"}
          /\ Routes[r].stamped => \A k \in DOMAIN m.samples : m.samples[k].ts # 0

SeriesAt(r, m, k) ==
  IF Routes[r].mode = "script" THEN m.samples[k].series ELSE SeriesOf(r, m.topic)

Transforms(r, m) ==
  /\ Matches(r, m.topic)
  /\ Extracts(r, m)
  /\ \A k \in DOMAIN m.samples : SeriesAt(r, m, k) \in UUIDs

\* For every message and route the series of its points, none if the message
\* cannot be transformed.
Target ==
  [m \in Messages |-> [r \in DOMAIN Routes |->
     [k \in 1 .. (IF Transforms(r, m) THEN Len(m.samples) ELSE 0) |-> SeriesAt(r, m, k)]]]

\* CompiledRoute.Transform for message m, the d-th delivery: src tells a point
\* from all others.
Transform(m, d, r) ==
  [k \in DOMAIN Target[m][r] |->
     [series |-> Target[m][r][k],
      ts     |-> Timestamp(r, m, d, k),
      value  |-> m.samples[k].value,
      src    |-> <<d, r, k>>]]

Key(p) == <<p.series, p.ts>>

-----------------------------------------------------------------------------
(***************************************************************************)
(* Where a point can be.                                                   *)
(***************************************************************************)
PointsFrom(i) == Transform(log[i[1]].msg, i[1], i[2])

PointsOf(items) == UNION {ToSet(PointsFrom(i)) : i \in items}

\* The places of the batch with the points of one series, as flush groups it.
PlacesOf(s) == {i \in DOMAIN buffer : buffer[i].series = s}

\* The part of the batch that no statement has been run for.
Unflushed == IF writer.pc = "flush"
             THEN {p \in ToSet(buffer) : p.series \in writer.todo}
             ELSE ToSet(buffer)

Delivered == {<<d, r>> : d \in DOMAIN log, r \in DOMAIN Routes}
Called    == {i \in Delivered : i[2] \in log[i[1]].routes}
Accepted  == PointsOf(Called)

\* Not transformed yet, and transformed but not in the queue.
Early == PointsOf(callbacks \cup ToSet(msgCh))
Held  == UNION {ToSet(worker[w].rest) : w \in Workers}

InFlight == Early \cup Held \cup ToSet(queue) \cup Unflushed

-----------------------------------------------------------------------------
IdleWorker == [pc |-> "idle", rest |-> <<>>]
ZeroStats  == [transformed |-> 0, enqueued |-> 0, inserted |-> 0, failed |-> 0]

\* The memory of a new process.
Fresh ==
  /\ subscribed' = 0
  /\ connected' = TRUE
  /\ cancelled' = FALSE
  /\ callbacks' = {}
  /\ msgCh' = <<>>
  /\ worker' = [w \in Workers |-> IdleWorker]
  /\ queue' = <<>>
  /\ writer' = [pc |-> "loop", todo |-> {}, last |-> FALSE]
  /\ buffer' = <<>>
  /\ stats' = ZeroStats

Init ==
  /\ log = <<>>
  /\ run = "connect"
  /\ subscribed = 0
  /\ connected = TRUE
  /\ cancelled = FALSE
  /\ callbacks = {}
  /\ msgCh = <<>>
  /\ worker = [w \in Workers |-> IdleWorker]
  /\ queue = <<>>
  /\ writer = [pc |-> "loop", todo |-> {}, last |-> FALSE]
  /\ buffer = <<>>
  /\ stats = ZeroStats
  /\ tsdata = {}
  /\ excused = {}
  /\ failures = 0
  /\ restarts = 0

Closed == run \in {"wait", "returned"}     \* msgCh
Up     == run # "down"

process  == <<run, subscribed, connected, cancelled>>
pipeline == <<callbacks, msgCh, worker, queue, writer, buffer, stats>>
outside  == <<log, tsdata, failures, restarts>>

-----------------------------------------------------------------------------
(***************************************************************************)
(* Runtime.Run.  connectMQTT subscribes to the routes one by one, and the  *)
(* callbacks of the first run while the next is subscribed to.  When one   *)
(* is refused, Run closes the channel without disconnecting the client.    *)
(***************************************************************************)
Subscribe ==
  /\ run = "connect"
  /\ subscribed < Len(Routes)
  /\ subscribed' = subscribed + 1
  /\ run' = IF subscribed + 1 = Len(Routes) THEN "run" ELSE run
  /\ UNCHANGED <<connected, cancelled, pipeline, outside, excused>>

SubscribeFails ==
  /\ run = "connect"
  /\ run' = "wait"
  /\ UNCHANGED <<subscribed, connected, cancelled, pipeline, outside, excused>>

Cancel ==
  /\ run \in {"connect", "run"}
  /\ ~cancelled
  /\ cancelled' = TRUE
  /\ UNCHANGED <<run, subscribed, connected, pipeline, outside, excused>>

\* The context is done, or the writer has returned because it is: the client
\* is disconnected and the channel closed.
Stop ==
  /\ run = "run"
  /\ cancelled
  /\ connected' = FALSE
  /\ run' = "wait"
  /\ UNCHANGED <<subscribed, cancelled, pipeline, outside, excused>>

\* workerWG.Wait returns and the database is closed; the writer is not
\* waited for.
Return ==
  /\ run = "wait"
  /\ \A w \in Workers : worker[w].pc = "stopped"
  /\ run' = "returned"
  /\ UNCHANGED <<subscribed, connected, cancelled, pipeline, outside, excused>>

(***************************************************************************)
(* The process ends: main leaves after Run, or it is killed (there is no   *)
(* signal handler).  Whatever is in memory is gone.                        *)
(***************************************************************************)
Die ==
  /\ run' = "down"
  /\ excused' = excused \cup InFlight
  /\ Fresh
  /\ UNCHANGED outside

Exit == run = "returned" /\ Die

Kill == Up /\ restarts < MaxRestarts /\ Die

Restart ==
  /\ run = "down"
  /\ restarts < MaxRestarts
  /\ restarts' = restarts + 1
  /\ run' = "connect"
  /\ UNCHANGED <<subscribed, connected, cancelled, pipeline, log, tsdata, excused,
                 failures>>

-----------------------------------------------------------------------------
(***************************************************************************)
(* The broker hands a message to the client if the filter of a subscribed  *)
(* route accepts the topic.  The client then starts the callback of every  *)
(* filter whose levels do: it keeps one callback per filter, that of the   *)
(* route that subscribed last.                                             *)
(*                                                                         *)
(* Any message may come at any time and again: brokers repeat what they    *)
(* got no acknowledgement for (at once or to the next process), and        *)
(* publishers repeat themselves.                                           *)
(***************************************************************************)
Superseded(r, n) ==
  \E q \in r + 1 .. n : SubscriptionTopic(q) = SubscriptionTopic(r)

\* With the first n routes subscribed.
Audience ==
  [n \in 0 .. Len(Routes) |-> [topic \in Topics |->
     {r \in 1 .. n : /\ \E q \in 1 .. n : FilterAccepts(SubscriptionTopic(q), topic)
                     /\ LevelsAccept(SubscriptionTopic(r), topic)
                     /\ ~Superseded(r, n)}]]

Receivers(topic) == Audience[subscribed][topic]

Deliver(m) ==
  /\ Up /\ connected
  /\ Len(log) < MaxDeliveries
  /\ Receivers(m.topic) # {}
  /\ log' = Append(log, [msg |-> m, routes |-> Receivers(m.topic)])
  /\ callbacks' = callbacks \cup {<<Len(log) + 1, r>> : r \in Receivers(m.topic)}
  /\ UNCHANGED <<process, msgCh, worker, queue, writer, buffer, stats,
                 tsdata, failures, restarts, excused>>

CallbackSends(c) ==
  /\ ~Closed
  /\ Len(msgCh) < QueueSize
  /\ msgCh' = Append(msgCh, c)
  /\ callbacks' = callbacks \ {c}
  /\ UNCHANGED <<process, worker, queue, writer, buffer, stats, log, tsdata,
                 failures, restarts, excused>>

CallbackGivesUp(c) ==
  /\ cancelled
  /\ callbacks' = callbacks \ {c}
  /\ excused' = excused \cup PointsOf({c})
  /\ UNCHANGED <<process, msgCh, worker, queue, writer, buffer, stats, log,
                 tsdata, failures, restarts>>

\* A send on the closed channel panics, and a panic ends the process.
CallbackPanics(c) == Closed /\ Die

Callback(c) ==
  \/ CallbackSends(c)
  \/ CallbackGivesUp(c)
  \/ CallbackPanics(c)

-----------------------------------------------------------------------------
(***************************************************************************)
(* transformLoop, and Writer.Enqueue which it calls: a point is put into   *)
(* the queue first and counted afterwards.                                 *)
(***************************************************************************)
Ready(rest) == [pc |-> IF rest = <<>> THEN "idle" ELSE "enqueue", rest |-> rest]

Receive(w) ==
  /\ worker[w].pc = "idle"
  /\ msgCh # <<>>
  /\ LET points == PointsFrom(Head(msgCh))
     IN  /\ worker' = [worker EXCEPT ![w] = Ready(points)]
         /\ stats' = [stats EXCEPT !.transformed = @ + Len(points)]
  /\ msgCh' = Tail(msgCh)
  /\ UNCHANGED <<process, callbacks, queue, writer, buffer, outside, excused>>

\* Mutant: the queue takes one point too many.
EnqueueOverfull(w) ==
  /\ worker[w].pc = "enqueue"
  /\ Len(queue) <= QueueSize
  /\ queue' = Append(queue, Head(worker[w].rest))
  /\ worker' = [worker EXCEPT ![w] = [pc |-> "count", rest |-> Tail(@.rest)]]
  /\ UNCHANGED <<process, callbacks, msgCh, writer, buffer, stats, outside,
                 excused>>

Enqueue(w) ==
  /\ worker[w].pc = "enqueue"
  /\ Len(queue) < QueueSize
  /\ queue' = Append(queue, Head(worker[w].rest))
  /\ worker' = [worker EXCEPT ![w] = [pc |-> "count", rest |-> Tail(@.rest)]]
  /\ UNCHANGED <<process, callbacks, msgCh, writer, buffer, stats, outside,
                 excused>>

CountEnqueued(w) ==
  /\ worker[w].pc = "count"
  /\ stats' = [stats EXCEPT !.enqueued = @ + 1]
  /\ worker' = [worker EXCEPT ![w] = Ready(@.rest)]
  /\ UNCHANGED <<process, callbacks, msgCh, queue, writer, buffer, outside,
                 excused>>

\* Mutant: a worker that waits for room does not watch the context.
WorkerCancelledIdle(w) ==
  /\ worker[w].pc = "idle"
  /\ cancelled
  /\ worker' = [worker EXCEPT ![w] = [pc |-> "stopped", rest |-> <<>>]]
  /\ UNCHANGED <<process, callbacks, msgCh, queue, writer, buffer, stats,
                 outside, excused>>

\* The context is done: between two messages, or while the queue is full.
WorkerCancelled(w) ==
  /\ worker[w].pc \in {"idle", "enqueue"}
  /\ cancelled
  /\ worker' = [worker EXCEPT ![w] = [pc |-> "stopped", rest |-> <<>>]]
  /\ excused' = excused \cup ToSet(worker[w].rest)
  /\ UNCHANGED <<process, callbacks, msgCh, queue, writer, buffer, stats,
                 outside>>

WorkerDrained(w) ==
  /\ worker[w].pc = "idle"
  /\ Closed /\ msgCh = <<>>
  /\ worker' = [worker EXCEPT ![w] = [pc |-> "stopped", rest |-> <<>>]]
  /\ UNCHANGED <<process, callbacks, msgCh, queue, writer, buffer, stats,
                 outside, excused>>

TransformLoop(w) ==
  /\ Up
  /\ \/ Receive(w)
     \/ Enqueue(w)
     \/ CountEnqueued(w)
     \/ WorkerCancelled(w)
     \/ WorkerDrained(w)

-----------------------------------------------------------------------------
(***************************************************************************)
(* Writer.Run and Writer.flush.                                            *)
(***************************************************************************)
Flushing(batch, last) ==
  [pc |-> "flush", todo |-> {p.series : p \in ToSet(batch)}, last |-> last]

BackToLoop ==
  writer' = [pc |-> IF writer.last THEN "stopped" ELSE "loop", todo |-> {},
             last |-> FALSE]

TakePoint ==
  /\ writer.pc = "loop"
  /\ queue # <<>>
  /\ buffer' = Append(buffer, Head(queue))
  /\ queue' = Tail(queue)
  /\ writer' = IF Len(buffer') >= BatchSize THEN Flushing(buffer', FALSE)
                                            ELSE writer
  /\ UNCHANGED <<process, callbacks, msgCh, worker, stats, outside, excused>>

\* Mutant: the ticker leaves a batch alone that is not full.
TickWhenFull ==
  /\ writer.pc = "loop"
  /\ Len(buffer) >= BatchSize
  /\ writer' = Flushing(buffer, FALSE)
  /\ UNCHANGED <<process, callbacks, msgCh, worker, queue, buffer, stats,
                 outside, excused>>

Tick ==
  /\ writer.pc = "loop"
  /\ buffer # <<>>
  /\ writer' = Flushing(buffer, FALSE)
  /\ UNCHANGED <<process, callbacks, msgCh, worker, queue, buffer, stats,
                 outside, excused>>

\* The last flush is tried with the context that is done.
WriterCancelled ==
  /\ writer.pc = "loop"
  /\ cancelled
  /\ writer' = IF buffer = <<>>
               THEN [pc |-> "stopped", todo |-> {}, last |-> FALSE]
               ELSE Flushing(buffer, TRUE)
  /\ UNCHANGED <<process, callbacks, msgCh, worker, queue, buffer, stats,
                 outside, excused>>

(***************************************************************************)
(* The INSERT of one series: rows whose key is taken, in the table or by   *)
(* an earlier point of the statement, are left out (ON CONFLICT DO         *)
(* NOTHING).                                                               *)
(***************************************************************************)
NewRows(s) ==
  {buffer[i] : i \in {i \in PlacesOf(s) :
     /\ \A q \in tsdata : Key(q) # Key(buffer[i])
     /\ \A j \in PlacesOf(s) : j < i => Key(buffer[j]) # Key(buffer[i])}}

CanInsert(s) ==
  /\ s \in Known
  /\ \A i \in PlacesOf(s) : buffer[i].value # NaN
  /\ ~cancelled
  /\ run # "returned"

\* Mutant: a row whose key is taken is replaced (ON CONFLICT DO UPDATE).
FlushSeriesUpserts(s) ==
  /\ CanInsert(s)
  /\ LET rows == {buffer[i] : i \in PlacesOf(s)}
     IN  tsdata' = {q \in tsdata : \A p \in rows : Key(p) # Key(q)} \cup rows
  /\ stats' = [stats EXCEPT !.inserted = @ + Cardinality(PlacesOf(s))]
  /\ writer' = [writer EXCEPT !.todo = @ \ {s}]
  /\ UNCHANGED <<process, callbacks, msgCh, worker, queue, buffer, log,
                 failures, restarts, excused>>

FlushSeries(s) ==
  /\ CanInsert(s)
  /\ tsdata' = tsdata \cup NewRows(s)
  /\ stats' = [stats EXCEPT !.inserted = @ + Cardinality(NewRows(s))]
  /\ writer' = [writer EXCEPT !.todo = @ \ {s}]
  /\ UNCHANGED <<process, callbacks, msgCh, worker, queue, buffer, log,
                 failures, restarts, excused>>

\* Mutant: a batch that failed is kept for the next flush.
FlushFailsKeepsBatch(s) ==
  /\ ~CanInsert(s)
  /\ stats' = [stats EXCEPT !.failed = @ + Cardinality(PlacesOf(s))]
  /\ BackToLoop
  /\ UNCHANGED <<process, callbacks, msgCh, worker, queue, buffer, outside,
                 excused>>

(***************************************************************************)
(* A statement that fails ends the flush, and the caller drops the whole   *)
(* batch: the points of this series are counted as failed, those of the    *)
(* series still to come are not.  A chance failure may hit before or after *)
(* the database has done the work.                                         *)
(***************************************************************************)
FlushFails(s) ==
  /\ \/ ~CanInsert(s) /\ UNCHANGED <<tsdata, failures>>
     \/ /\ CanInsert(s) /\ failures < MaxFailures
        /\ failures' = failures + 1
        /\ tsdata' \in {tsdata, tsdata \cup NewRows(s)}
  /\ stats' = [stats EXCEPT !.failed = @ + Cardinality(PlacesOf(s))]
  /\ excused' = excused \cup Unflushed
  /\ buffer' = <<>>
  /\ BackToLoop
  /\ UNCHANGED <<process, callbacks, msgCh, worker, queue, log, restarts>>

\* Mutant: the flush returns from within its loop, after the first series.
FlushDoneEarly ==
  /\ buffer' = <<>>
  /\ BackToLoop
  /\ UNCHANGED <<process, callbacks, msgCh, worker, queue, stats, outside,
                 excused>>

FlushDone ==
  /\ writer.todo = {}
  /\ buffer' = <<>>
  /\ BackToLoop
  /\ UNCHANGED <<process, callbacks, msgCh, worker, queue, stats, outside,
                 excused>>

Flush ==
  /\ writer.pc = "flush"
  /\ \/ \E s \in writer.todo : FlushSeries(s) \/ FlushFails(s)
     \/ FlushDone

WriterStep == Up /\ (TakePoint \/ Tick \/ WriterCancelled \/ Flush)

-----------------------------------------------------------------------------
Next ==
  \/ Subscribe \/ SubscribeFails \/ Cancel \/ Stop \/ Return \/ Exit
  \/ Kill \/ Restart
  \/ \E m \in Messages : Deliver(m)
  \/ \E c \in callbacks : Up /\ Callback(c)
  \/ \E w \in Workers : TransformLoop(w)
  \/ WriterStep

(***************************************************************************)
(* Every goroutine that can go on does, and select picks each ready case   *)
(* eventually; a subscription is answered or fails.  Nobody has to publish,  *)
(* to cancel or to kill.                                                   *)
(***************************************************************************)
Fairness ==
  /\ WF_vars(Subscribe \/ SubscribeFails)
  /\ WF_vars(Stop \/ Return \/ Exit)
  /\ \A d \in 1 .. MaxDeliveries, r \in DOMAIN Routes :
       WF_vars(<<d, r>> \in callbacks /\ Up /\ Callback(<<d, r>>))
  /\ \A w \in Workers : WF_vars(TransformLoop(w))
  /\ WF_vars(WriterStep)

Spec == Init /\ [][Next]_vars /\ Fairness

-----------------------------------------------------------------------------
(***************************************************************************)
(* The values of the variables.                                            *)
(***************************************************************************)
TypeOK ==
  /\ log \in Seq([msg : Messages, routes : SUBSET DOMAIN Routes])
  /\ run \in {"connect", "run", "wait", "returned", "down"}
  /\ subscribed \in 0 .. Len(Routes)
  /\ connected \in BOOLEAN /\ cancelled \in BOOLEAN
  /\ callbacks \subseteq Called
  /\ msgCh \in Seq(Called) /\ Len(msgCh) <= QueueSize
  /\ worker \in [Workers -> [pc : {"idle", "enqueue", "count", "stopped"},
                            rest : Seq(Accepted)]]
  /\ \A w \in Workers :
       /\ worker[w].pc \in {"idle", "stopped"} => worker[w].rest = <<>>
       /\ worker[w].pc = "enqueue" => worker[w].rest # <<>>
  /\ queue \in Seq(Accepted) /\ Len(queue) <= QueueSize
  /\ writer \in [pc : {"loop", "flush", "stopped"}, last : BOOLEAN,
                 todo : SUBSET {p.series : p \in ToSet(buffer)}]
  /\ buffer \in Seq(Accepted) /\ Len(buffer) <= BatchSize
  /\ stats \in [transformed : Nat, enqueued : Nat, inserted : Nat, failed : Nat]
  /\ tsdata \subseteq Accepted
  /\ excused \subseteq Accepted
  /\ failures \in 0 .. MaxFailures
  /\ restarts \in 0 .. MaxRestarts

(***************************************************************************)
(* A point gets lost for a reason only: its batch met a statement that     *)
(* failed, or the process was stopped or killed while it held the point.   *)
(* Everything else a callback was called for is stored, is a repetition of *)
(* a row, or is on its way (transformLoop, Enqueue, Writer.Run).           *)
(***************************************************************************)
LossNeedsCause ==
  \A p \in Accepted : \/ p \in InFlight \cup excused
                       \/ \E q \in tsdata : Key(q) = Key(p)

(***************************************************************************)
(* The counters of Writer.Stats never claim more than happened: a point    *)
(* inserted or failed was counted as enqueued, or is about to be by the    *)
(* worker that put it into the queue, and no point is both on its way and  *)
(* settled.  The counter of enqueued points may lag by one per worker.     *)
(***************************************************************************)
StatsAddUp ==
  LET counting == Cardinality({w \in Workers : worker[w].pc = "count"})
      waiting  == Cardinality(Unflushed) + Len(queue)
  IN  /\ stats.inserted + stats.failed + waiting <= stats.enqueued + counting
      /\ stats.enqueued + counting <= stats.transformed

(***************************************************************************)
(* MQTT delivers a message at least once, the table keeps its points once: *)
(* however often a message is delivered, before and after a restart, a     *)
(* sample whose timestamp comes with it is stored in one row only.  (One   *)
(* that gets the time of reception is stored once per delivery, a bare     *)
(* number on a route with a timestamp_key included.)                       *)
(***************************************************************************)
RedeliveryStoresOnce ==
  \A p, q \in tsdata :
    (/\ FromPayload(p.src[2], log[p.src[1]].msg, p.src[3])
     /\ log[p.src[1]].msg = log[q.src[1]].msg
     /\ p.src[2] = q.src[2] /\ p.src[3] = q.src[3]) => p = q

(***************************************************************************)
(* The filter a route subscribes to and the matcher its messages go        *)
(* through agree where the code derives the one from the other:            *)
(*   - a message the matcher of a subscribed route would take is brought   *)
(*     to it, unless a later route subscribed to the very same filter, or  *)
(*     the topic begins with "$" and the filter with a wildcard;           *)
(*   - a message brought to a route passes its matcher, unless a level of  *)
(*     its topic is empty ("+" accepts it and "[^/]+" does not) or the     *)
(*     expression ends in a literal "#", a wildcard to the broker.         *)
(* Nothing is said of a route that sets subscription_topic.                *)
(***************************************************************************)
SubscriptionMeetsMatcher ==
  \A topic \in Topics, r \in 1 .. subscribed :
    Routes[r].subscription = <<>> =>
      /\ Matches(r, topic) => \/ r \in Receivers(topic)
                              \/ Superseded(r, subscribed)
                              \/ Hidden(SubscriptionTopic(r), topic)
      /\ r \in Receivers(topic) =>
           \/ Matches(r, topic)
           \/ Routes[r].kind = "regex" /\ ("" \in ToSet(topic)
                                            \/ "#" \in ToSet(Routes[r].pattern))

(***************************************************************************)
(* The pipeline implements the contract: see PointContract.                *)
(***************************************************************************)
Contract == INSTANCE PointContract
              WITH accepted <- Accepted, pending <- InFlight, stored <- tsdata

KeepsContract == Contract!Spec

(***************************************************************************)
(* No point stays on its way for ever: full channels give way, a batch     *)
(* that never fills is flushed by the ticker, and what a stopped pipeline  *)
(* still holds ends with the process.                                      *)
(***************************************************************************)
PointsSettle ==
  \A d \in 1 .. MaxDeliveries :
    (\E p \in InFlight : p.src[1] = d) ~> ~(\E p \in InFlight : p.src[1] = d)

(***************************************************************************)
(* Once Run has begun to stop, it stops: no worker is left waiting for a   *)
(* writer that has already gone, and the process ends.                     *)
(***************************************************************************)
StopCompletes == run = "wait" ~> run = "down"

=============================================================================
