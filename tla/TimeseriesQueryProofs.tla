----------------------- MODULE TimeseriesQueryProofs ------------------------
(***************************************************************************)
(* Proofs about aggregated queries.                                        *)
(*                                                                         *)
(* The split of a range reads every tick of it exactly once, for every     *)
(* range of integers and every bucket length: the bucket boundaries are    *)
(* the multiples of the length, and two multiples are equal or at least    *)
(* one length apart; the rest is linear arithmetic.                        *)
(*                                                                         *)
(* An hour of an answer is therefore either one exact rollup row or the    *)
(* samples themselves, so it is what a scan gives.  And an answer put      *)
(* together while samples are written lies between the samples that were   *)
(* there all the time and those that were there at some time: the rollup   *)
(* rows cover their periods, and periods nest in the answer's buckets.     *)
(***************************************************************************)
EXTENDS TimeseriesQuery, RollupTablesProofs

(* Division with remainder, as TLA+ defines % and \div.                    *)
LEMMA ModFacts ==
    ASSUME NEW t \in Int, NEW len \in Nat \ {0}
    PROVE  /\ t % len \in Int
           /\ 0 <= t % len /\ t % len < len
           /\ t \div len \in Int
           /\ t - (t % len) = len * (t \div len)
  OBVIOUS

(* Two different multiples of len are at least len apart.                  *)
LEMMA MultStep ==
    ASSUME NEW p \in Int, NEW q \in Int, NEW len \in Nat \ {0}, len * p < len * q
    PROVE  len * p + len <= len * q
<1>1. p < q
  <2>1. SUFFICES ASSUME q <= p PROVE len * q <= len * p
    OBVIOUS
  <2>2. PICK d \in Nat : p = q + d
    <3>1. p - q \in Nat /\ p = q + (p - q)
      BY <2>1
    <3> QED BY <3>1
  <2>3. len * p = len * q + len * d
    BY <2>2
  <2>4. len * d >= 0
    OBVIOUS
  <2> QED BY <2>3, <2>4
<1>2. PICK d \in Nat : q = p + 1 + d
    <2>1. q - p - 1 \in Nat /\ q = p + 1 + (q - p - 1)
      BY <1>1
    <2> QED BY <2>1
<1>3. len * q = len * p + len + len * d
  BY <1>2
<1>4. len * d >= 0
  OBVIOUS
<1> QED BY <1>3, <1>4

(* x is the first tick of a bucket.                                        *)
Multiple(x, len) == \E k \in Int : x = len * k

(* Two different bucket boundaries are at least one bucket apart.          *)
LEMMA MultipleStep ==
    ASSUME NEW x \in Int, NEW y \in Int, NEW len \in Nat \ {0},
           Multiple(x, len), Multiple(y, len), x < y
    PROVE  x + len <= y
<1>1. PICK p \in Int : x = len * p
  BY DEF Multiple
<1>2. PICK q \in Int : y = len * q
  BY DEF Multiple
<1> QED BY <1>1, <1>2, MultStep

(* One bucket after or before a boundary is a boundary.                    *)
LEMMA MultipleShift ==
    ASSUME NEW x \in Int, NEW len \in Nat \ {0}, Multiple(x, len)
    PROVE  Multiple(x + len, len) /\ Multiple(x - len, len)
<1>1. PICK k \in Int : x = len * k
  BY DEF Multiple
<1>2. x + len = len * (k + 1) /\ x - len = len * (k - 1)
  BY <1>1
<1>3. k + 1 \in Int /\ k - 1 \in Int
  OBVIOUS
<1> QED BY <1>2, <1>3 DEF Multiple

(* time.Truncate and time.Date(y, m, d, 0, ...): the boundary at or before *)
(* t.                                                                      *)
LEMMA TruncateFacts ==
    ASSUME NEW t \in Int, NEW len \in Nat \ {0}
    PROVE  /\ Truncate(t, len) \in Int
           /\ Truncate(t, len) <= t /\ t < Truncate(t, len) + len
           /\ Multiple(Truncate(t, len), len)
<1>1. /\ t % len \in Int
      /\ 0 <= t % len /\ t % len < len
      /\ t \div len \in Int
      /\ Truncate(t, len) = len * (t \div len)
  BY ModFacts DEF Truncate
<1>2. Truncate(t, len) = t - (t % len)
  BY DEF Truncate
<1>3. Multiple(Truncate(t, len), len)
  BY <1>1 DEF Multiple
<1>4. /\ Truncate(t, len) \in Int
      /\ Truncate(t, len) <= t /\ t < Truncate(t, len) + len
  <2> DEFINE m == t % len
  <2>1. m \in Int /\ 0 <= m /\ m < len /\ Truncate(t, len) = t - m
    BY <1>1, <1>2
  <2> HIDE DEF m
  <2> QED BY <2>1
<1> QED BY <1>3, <1>4

(* firstFull is the first boundary that is not before start.               *)
LEMMA FirstFullFacts ==
    ASSUME NEW start \in Int, NEW len \in Nat \ {0}
    PROVE  /\ firstFull(start, len) \in Int
           /\ firstFull(start, len) - len < start /\ start <= firstFull(start, len)
           /\ Multiple(firstFull(start, len), len)
<1> DEFINE T == Truncate(start, len)
<1>1. T \in Int /\ T <= start /\ start < T + len /\ Multiple(T, len)
  BY TruncateFacts
<1>2. Multiple(T + len, len)
  BY <1>1, MultipleShift
<1>3. firstFull(start, len) = IF T < start THEN T + len ELSE T
  BY DEF firstFull
<1> HIDE DEF T
<1> QED BY <1>1, <1>2, <1>3

(* lastFull is the last boundary whose bucket ends by stop: the bucket's   *)
(* last tick is at most stop, the next bucket's is not.                    *)
LEMMA LastFullFacts ==
    ASSUME NEW stop \in Int, NEW len \in Nat \ {0}
    PROVE  /\ lastFull(stop, len) \in Int
           /\ lastFull(stop, len) + len <= stop + 1
           /\ stop + 1 < lastFull(stop, len) + len + len
           /\ Multiple(lastFull(stop, len), len)
<1> DEFINE T == Truncate(stop, len)
<1>1. T \in Int /\ T <= stop /\ stop < T + len /\ Multiple(T, len)
  BY TruncateFacts
<1>2. Multiple(T - len, len)
  BY <1>1, MultipleShift
<1>3. lastFull(stop, len) = IF T + len > stop + 1 THEN T - len ELSE T
  BY DEF lastFull
<1> HIDE DEF T
<1> QED BY <1>1, <1>2, <1>3

(* For every range and bucket length, a tick is in the range iff it is     *)
(* read, and it is read once: by the rollup row of its bucket or by one    *)
(* raw range.                                                              *)
THEOREM SplitIsExact ==
    ASSUME NEW t \in Int, NEW start \in Int, NEW stop \in Int, NEW len \in Nat \ {0}
    PROVE  SplitExact(t, start, stop, len)
<1> DEFINE b == Truncate(t, len)
           F == firstFull(start, len)
           L == lastFull(stop, len)
<1>1. b \in Int /\ b <= t /\ t < b + len
  BY TruncateFacts
<1>2. F \in Int /\ F - len < start /\ start <= F
  BY FirstFullFacts
<1>3. L \in Int /\ L + len <= stop + 1 /\ stop + 1 < L + len + len
  BY LastFullFacts
<1>4. /\ b < F => b + len <= F
      /\ L < b => L + len <= b
  BY <1>1, <1>2, <1>3, TruncateFacts, FirstFullFacts, LastFullFacts, MultipleStep
<1>5. CASE stop < start
  <2>1. RawRanges(start, stop, len) = {}
    BY <1>5 DEF RawRanges
  <2>2. ~ReadByRollup(t, start, stop, len)
    BY <1>5 DEF ReadByRollup, InRollupRange, HasRollupRange
  <2> QED BY <1>5, <2>1, <2>2 DEF SplitExact
<1>6. CASE start <= stop /\ ~(F <= L)
  <2>1. RawRanges(start, stop, len) = {<<start, stop>>}
    BY <1>6 DEF RawRanges, HasRollupRange
  <2>2. ~ReadByRollup(t, start, stop, len)
    BY <1>6 DEF ReadByRollup, InRollupRange, HasRollupRange
  <2>3. InRange(t, <<start, stop>>) <=> start <= t /\ t <= stop
    BY DEF InRange
  <2> QED BY <2>1, <2>2, <2>3 DEF SplitExact
<1>7. CASE start <= stop /\ F <= L
  <2> DEFINE left == LeftRange(start, len)
             right == RightRange(stop, len)
  <2>1. /\ left = <<start, F - 1>>
        /\ right = <<L + len, stop>>
    BY DEF LeftRange, RightRange
  <2>2. RawRanges(start, stop, len) = {r \in {left, right} : r[1] <= r[2]}
    BY <1>7 DEF RawRanges, HasRollupRange
  <2>3. ReadByRollup(t, start, stop, len) <=> F <= b /\ b <= L
    BY <1>7 DEF ReadByRollup, InRollupRange, HasRollupRange
  <2>4. InRange(t, left) <=> start <= t /\ t <= F - 1
    BY <2>1 DEF InRange
  <2>5. InRange(t, right) <=> L + len <= t /\ t <= stop
    BY <2>1 DEF InRange
  <2>6. \A r : r \in RawRanges(start, stop, len) => r = left \/ r = right
    BY <2>2
  <2>7. (\E r \in RawRanges(start, stop, len) : InRange(t, r))
            <=> InRange(t, left) \/ InRange(t, right)
    <3>1. InRange(t, left) => left[1] <= left[2]
      BY <1>2, <2>1, <2>4
    <3>2. InRange(t, right) => right[1] <= right[2]
      BY <1>3, <2>1, <2>5
    <3> QED BY <2>2, <3>1, <3>2
  <2> HIDE DEF b, F, L, left, right
  <2>8. /\ start <= t /\ t <= stop <=>
               \/ ReadByRollup(t, start, stop, len)
               \/ InRange(t, left) \/ InRange(t, right)
        /\ ~(InRange(t, left) /\ ReadByRollup(t, start, stop, len))
        /\ ~(InRange(t, right) /\ ReadByRollup(t, start, stop, len))
        /\ ~(InRange(t, left) /\ InRange(t, right))
    BY <1>1, <1>2, <1>3, <1>4, <1>7, <2>3, <2>4, <2>5
  <2> QED BY <2>6, <2>7, <2>8 DEF SplitExact
<1> HIDE DEF F, L
<1> QED BY <1>2, <1>3, <1>5, <1>6, <1>7

-----------------------------------------------------------------------------
(***************************************************************************)
(* The query in progress.  Writers change the tables between its           *)
(* statements, so what it has read is related to the samples that were     *)
(* stored all the time (always) and at some time (ever) since it began.    *)
(***************************************************************************)
QueryFields == {"pc", "id", "precision", "window", "todo", "raw", "rollups"}

QueryShape ==
    /\ query.id \in Series
    /\ query.precision \in Precisions
    /\ query.window \in Windows

Ranges == RawRanges(query.window[1], query.window[2], RollupLen(query.precision))

(* A row was read in one of the ranges that are not left to do, and every  *)
(* sample of such a range that never went away was read.                   *)
RawBracketed ==
    /\ \A s \in query.raw :
          s \in ever /\ s.ts_uuid = query.id /\ \E r \in Ranges \ query.todo : InRange(s.ts, r)
    /\ \A s \in always, r \in Ranges \ query.todo :
          s.ts_uuid = query.id /\ InRange(s.ts, r) => s \in query.raw

Tables ==
    /\ tsdata \in SUBSET Sample /\ IsFiniteSet(tsdata) /\ UniqueSamples
    /\ HourlyExact /\ DaysCovered

(* The last statement of a query sees the tables as they stay.             *)
RollupsRead ==
    query.pc = "done" =>
        /\ query.todo = {}
        /\ query.rollups = GetTsRollupRange(query.id, query.precision, query.window)

Observed ==
    /\ DOMAIN query = QueryFields
    /\ query.pc \in {"idle", "raw", "done"}
    /\ query.raw \in SUBSET Sample /\ IsFiniteSet(query.raw)
    /\ writes \in 0..MaxWrites
    /\ query.pc = "idle" => always = {} /\ ever = {}
    /\ query.pc # "idle" =>
          /\ QueryShape /\ query.todo \subseteq Ranges /\ RawBracketed
          /\ always \subseteq tsdata /\ tsdata \subseteq ever
          /\ ever \in SUBSET Sample /\ IsFiniteSet(ever)
    /\ RollupsRead

QueryInv == Tables /\ Observed

(* Before a query.                                                         *)
LEMMA NoQueryFacts ==
    /\ DOMAIN NoQuery = QueryFields
    /\ NoQuery.pc = "idle" /\ NoQuery.raw = {} /\ NoQuery.todo = {}
  BY DEF NoQuery, QueryFields

(* Empty tables, and no query.                                             *)
LEMMA QueryInit == Init => QueryInv
<1> SUFFICES ASSUME Init PROVE QueryInv
  OBVIOUS
<1>1. tsdata = {} /\ hourly = {} /\ daily = {} /\ query = NoQuery /\ writes = 0
      /\ always = {} /\ ever = {}
  BY DEF Init, TablesInit
<1>2. HourlyOf({}) = {} /\ RollupKeys({}) = {} /\ DayKeys({}) = {} /\ IsFiniteSet({})
  BY FS_EmptySet DEF HourlyOf, HourKeys, RollupKeys, DayKeys
<1>3. Tables
  BY <1>1, <1>2 DEF Tables, UniqueSamples, HourlyExact, DaysCovered, Covering
<1>4. MaxWrites \in Nat
  BY QueryAssumption
<1>5. Observed
  BY <1>1, <1>2, <1>4, NoQueryFacts DEF Observed, RollupsRead
<1> QED BY <1>3, <1>5 DEF QueryInv

(* A statement of a writer.                                                *)
LEMMA ObserveKeeps ==
    ASSUME Observed, Tables, Tables', Observe
    PROVE  Observed'
<1>1. /\ writes < MaxWrites /\ query.pc # "done" /\ writes' = writes + 1 /\ query' = query
      /\ always' = (IF query.pc = "idle" THEN {} ELSE always \cap tsdata')
      /\ ever' = (IF query.pc = "idle" THEN {} ELSE ever \cup tsdata')
  BY DEF Observe
<1>2. writes' \in 0..MaxWrites
  BY <1>1, QueryAssumption DEF Observed
<1>3. /\ DOMAIN query = QueryFields
      /\ query.pc \in {"idle", "raw", "done"}
      /\ query.raw \in SUBSET Sample /\ IsFiniteSet(query.raw)
  BY DEF Observed
<1>4. RollupsRead'
  BY <1>1 DEF RollupsRead
<1>5. CASE query.pc = "idle"
  BY <1>1, <1>2, <1>3, <1>4, <1>5 DEF Observed
<1>6. CASE query.pc # "idle"
  <2>1. /\ QueryShape /\ query.todo \subseteq Ranges /\ RawBracketed
        /\ always \subseteq tsdata /\ tsdata \subseteq ever
        /\ ever \in SUBSET Sample /\ IsFiniteSet(ever)
    BY <1>6 DEF Observed
  <2>2. always' = always \cap tsdata' /\ ever' = ever \cup tsdata'
    BY <1>1, <1>6
  <2>3. ever' \in SUBSET Sample /\ IsFiniteSet(ever')
    <3>1. tsdata' \in SUBSET Sample /\ IsFiniteSet(tsdata')
      BY DEF Tables
    <3>2. IsFiniteSet(ever \cup tsdata')
      BY <2>1, <3>1, FS_Union
    <3> QED BY <2>1, <2>2, <3>1, <3>2
  <2>4. QueryShape'
    BY <1>1, <2>1 DEF QueryShape
  <2>5. RawBracketed' /\ query'.todo \subseteq Ranges'
    BY <1>1, <2>1, <2>2 DEF RawBracketed, Ranges
  <2> QED BY <1>1, <1>2, <1>3, <1>4, <1>6, <2>2, <2>3, <2>4, <2>5 DEF Observed
<1> QED BY <1>5, <1>6

(* A query begins: nothing is read yet.                                    *)
LEMMA BeginKeeps ==
    ASSUME QueryInv, BeginQuery
    PROVE  QueryInv'
<1>1. PICK id \in Series, precision \in Precisions, w \in Windows :
         query' = [NoQuery EXCEPT
                      !.pc = "raw", !.id = id, !.precision = precision, !.window = w,
                      !.todo = RawRanges(w[1], w[2], RollupLen(precision))]
  BY DEF BeginQuery
<1>2. /\ query'.pc = "raw" /\ query'.id = id /\ query'.precision = precision
      /\ query'.window = w /\ query'.raw = {} /\ DOMAIN query' = QueryFields
      /\ query'.todo = RawRanges(w[1], w[2], RollupLen(precision))
  BY <1>1 DEF NoQuery, QueryFields
<1>3. /\ always' = tsdata /\ ever' = tsdata /\ tsdata' = tsdata /\ hourly' = hourly
      /\ daily' = daily /\ writes' = writes
  BY DEF BeginQuery, tables
<1>4. Tables'
  BY <1>3 DEF QueryInv, Tables, UniqueSamples, HourlyExact, DaysCovered
<1>5. QueryShape'
  BY <1>2 DEF QueryShape
<1>6. RawBracketed' /\ query'.todo \subseteq Ranges'
  BY <1>2 DEF RawBracketed, Ranges
<1>7. RollupsRead'
  BY <1>2 DEF RollupsRead
<1>8. Observed'
  BY <1>2, <1>3, <1>5, <1>6, <1>7, FS_EmptySet DEF QueryInv, Tables, Observed
<1> QED BY <1>4, <1>8 DEF QueryInv

(* A range of samples is read as it is now.                                *)
LEMMA ReadRawKeeps ==
    ASSUME QueryInv, ReadRaw
    PROVE  QueryInv'
<1>1. PICK r \in query.todo :
         query' = [query EXCEPT !.todo = @ \ {r}, !.raw = @ \cup GetTsDataRange(query.id, r)]
  BY DEF ReadRaw
<1> DEFINE got == GetTsDataRange(query.id, r)
<1>2. /\ query.pc = "raw" /\ always' = always /\ ever' = ever /\ tsdata' = tsdata
      /\ hourly' = hourly /\ daily' = daily /\ writes' = writes
  BY DEF ReadRaw, tables
<1>3. DOMAIN query = QueryFields
  BY DEF QueryInv, Observed
<1>4. /\ query'.pc = "raw" /\ query'.id = query.id /\ query'.precision = query.precision
      /\ query'.window = query.window /\ query'.raw = query.raw \cup got
      /\ DOMAIN query' = QueryFields /\ query'.todo = query.todo \ {r}
  BY <1>1, <1>2, <1>3 DEF QueryFields
<1>5. Tables'
  BY <1>2 DEF QueryInv, Tables, UniqueSamples, HourlyExact, DaysCovered
<1>6. QueryShape'
  BY <1>2, <1>4 DEF QueryInv, Observed, QueryShape
<1>7. got \in SUBSET tsdata /\ got \in SUBSET Sample /\ IsFiniteSet(got)
  <2>1. got \in SUBSET tsdata
    BY DEF GetTsDataRange
  <2> QED BY <2>1, FS_Subset DEF QueryInv, Tables
<1>8. query.raw \cup got \in SUBSET Sample /\ IsFiniteSet(query.raw \cup got)
  BY <1>7, FS_Union DEF QueryInv, Observed
<1>9. /\ RawBracketed /\ always \subseteq tsdata /\ tsdata \subseteq ever
      /\ ever \in SUBSET Sample /\ IsFiniteSet(ever) /\ writes \in 0..MaxWrites
  BY <1>2 DEF QueryInv, Observed
<1>10. RawBracketed'
  <2>1. Ranges' = Ranges
    BY <1>4 DEF Ranges
  <2>2. \A s : s \in got <=> s \in tsdata /\ s.ts_uuid = query.id /\ InRange(s.ts, r)
    BY DEF GetTsDataRange
  <2>3. r \in Ranges
    BY <1>2 DEF QueryInv, Observed
  <2> HIDE DEF got
  <2>4. ASSUME NEW s \in query'.raw
        PROVE  /\ s \in ever' /\ s.ts_uuid = query'.id
               /\ \E q \in Ranges' \ query'.todo : InRange(s.ts, q)
    <3>1. CASE s \in query.raw
      <4>1. PICK q \in Ranges \ query.todo : InRange(s.ts, q)
        BY <1>9, <3>1 DEF RawBracketed
      <4>2. q \in Ranges' \ query'.todo
        BY <1>4, <2>1, <4>1
      <4> QED BY <1>2, <1>4, <1>9, <3>1, <4>1, <4>2 DEF RawBracketed
    <3>2. CASE s \in got
      <4>1. r \in Ranges' \ query'.todo
        BY <1>4, <2>1, <2>3
      <4> QED BY <1>2, <1>4, <1>9, <2>2, <3>2, <4>1
    <3> QED BY <1>4, <3>1, <3>2
  <2>5. ASSUME NEW s \in always', NEW q \in Ranges' \ query'.todo,
               s.ts_uuid = query'.id, InRange(s.ts, q)
        PROVE  s \in query'.raw
    <3>1. q = r \/ q \in Ranges \ query.todo
      BY <1>4, <2>1
    <3> QED BY <1>2, <1>4, <1>9, <2>2, <2>5, <3>1 DEF RawBracketed
  <2> QED BY <2>4, <2>5 DEF RawBracketed
<1>11. RollupsRead'
  BY <1>4 DEF RollupsRead
<1>12. query'.todo \subseteq Ranges'
  BY <1>2, <1>4 DEF QueryInv, Observed, Ranges
<1>13. Observed'
  BY <1>2, <1>4, <1>6, <1>8, <1>9, <1>10, <1>11, <1>12 DEF Observed
<1> QED BY <1>5, <1>13 DEF QueryInv

(* The rollup rows are read as they are now, after all the samples.        *)
LEMMA ReadRollupsKeeps ==
    ASSUME QueryInv, ReadRollups
    PROVE  QueryInv'
<1> DEFINE got == GetTsRollupRange(query.id, query.precision, query.window)
<1>1. query' = [query EXCEPT !.pc = "done", !.rollups = got]
  BY DEF ReadRollups
<1>2. /\ query.pc = "raw" /\ query.todo = {}
      /\ always' = always /\ ever' = ever /\ tsdata' = tsdata
      /\ hourly' = hourly /\ daily' = daily /\ writes' = writes
  BY DEF ReadRollups, tables
<1>3. DOMAIN query = QueryFields
  BY DEF QueryInv, Observed
<1>4. /\ query'.pc = "done" /\ query'.id = query.id /\ query'.precision = query.precision
      /\ query'.window = query.window /\ query'.raw = query.raw
      /\ DOMAIN query' = QueryFields /\ query'.todo = query.todo /\ query'.rollups = got
  BY <1>1, <1>2, <1>3 DEF QueryFields
<1>5. Tables'
  BY <1>2 DEF QueryInv, Tables, UniqueSamples, HourlyExact, DaysCovered
<1>6. QueryShape'
  BY <1>2, <1>4 DEF QueryInv, Observed, QueryShape
<1>7. RawBracketed'
  BY <1>2, <1>4 DEF QueryInv, Observed, RawBracketed, Ranges
<1>8. RollupsRead'
  <2>1. GetTsRollupRange(query.id, query.precision, query.window)' = got
    BY <1>2, <1>4 DEF GetTsRollupRange, Rollups
  <2> QED BY <1>2, <1>4, <2>1 DEF RollupsRead
<1>9. Observed'
  BY <1>2, <1>4, <1>6, <1>7, <1>8 DEF QueryInv, Observed
<1> QED BY <1>5, <1>9 DEF QueryInv

(* Every step keeps the invariant.                                         *)
LEMMA QueryStep == QueryInv /\ [Next]_vars => QueryInv'
<1> SUFFICES ASSUME QueryInv, [Next]_vars PROVE QueryInv'
  OBVIOUS
<1>1. CASE Insert
  <2>1. PICK rows \in SUBSET Sample : IsFiniteSet(rows) /\ NewKeys(rows) /\ InsertStmt(rows)
    BY <1>1 DEF Insert, NewKeys
  <2>2. Tables'
    BY <2>1, InsertKeeps DEF QueryInv, Tables
  <2> QED BY <1>1, <2>2, ObserveKeeps DEF Insert, QueryInv
<1>2. CASE Delete
  <2>1. PICK rows \in {{r \in tsdata : r.ts_uuid = id /\ InRange(r.ts, w)} :
                          id \in Series, w \in Windows} \ {{}} : DeleteStmt(rows)
    BY <1>2 DEF Delete
  <2>2. rows \in SUBSET tsdata
    BY <2>1
  <2>3. Tables'
    BY <2>1, <2>2, DeleteKeeps DEF QueryInv, Tables
  <2> QED BY <1>2, <2>3, ObserveKeeps DEF Delete, QueryInv
<1>3. CASE UNCHANGED vars
  <2>1. /\ query' = query /\ always' = always /\ ever' = ever /\ tsdata' = tsdata
        /\ hourly' = hourly /\ daily' = daily /\ writes' = writes
    BY <1>3 DEF vars, tables
  <2>2. Tables'
    BY <2>1 DEF QueryInv, Tables, UniqueSamples, HourlyExact, DaysCovered
  <2>3. Observed'
    BY <2>1 DEF QueryInv, Observed, QueryShape, RawBracketed, Ranges, RollupsRead,
                GetTsRollupRange, Rollups
  <2> QED BY <2>2, <2>3 DEF QueryInv
<1> QED BY <1>1, <1>2, <1>3, BeginKeeps, ReadRawKeeps, ReadRollupsKeeps DEF Next

(* The invariant holds in every reachable state.                           *)
THEOREM QueryInvariant == Spec => []QueryInv
  BY QueryInit, QueryStep, PTL DEF Spec

(* Types, and at most one sample of a series at a time.                    *)
THEOREM TypeCorrect == Spec => []TypeOK
<1>1. QueryInv => TypeOK
  BY DEF QueryInv, Tables, Observed, TypeOK
<1> QED BY <1>1, QueryInvariant, PTL

(* Buckets are not empty.                                                  *)
LEMMA RollupLenType ==
    ASSUME NEW precision \in Precisions
    PROVE  RollupLen(precision) \in Nat \ {0}
<1>1. HourLen \in Nat /\ HourLen > 0 /\ HoursPerDay \in Nat /\ HoursPerDay > 0
  BY ConstantsAssumption
<1>2. HourLen * HoursPerDay \in Nat /\ HourLen * HoursPerDay > 0
  BY <1>1
<1> QED BY <1>1, <1>2 DEF RollupLen, DayLen

(* The ranges loadAggregateSources asks the database for cover the query's *)
(* range without overlap, in every reachable state.                        *)
THEOREM QueryRangeIsReadOnce == Spec => []QuerySplitExact
<1>1. QueryInv => QuerySplitExact
  <2> SUFFICES ASSUME QueryInv, query.pc # "idle", NEW t \in Times
               PROVE  SplitExact(t, query.window[1], query.window[2],
                                 RollupLen(query.precision))
    BY DEF QuerySplitExact
  <2>1. QueryShape
    BY DEF QueryInv, Observed
  <2>2. t \in Int
    BY ConstantsAssumption
  <2>3. query.window[1] \in Int /\ query.window[2] \in Int
    BY <2>1, QueryAssumption DEF QueryShape
  <2>4. RollupLen(query.precision) \in Nat \ {0}
    BY <2>1, RollupLenType DEF QueryShape
  <2> QED BY <2>2, <2>3, <2>4, SplitIsExact
<1> QED BY <1>1, QueryInvariant, PTL

-----------------------------------------------------------------------------
(***************************************************************************)
(* Aggregates by the hour.  A bucket of the answer either has a rollup row *)
(* and no sample read from tsdata, or only samples read from tsdata.       *)
(***************************************************************************)

(* A boundary is its own bucket.                                           *)
LEMMA TruncateOfMultiple ==
    ASSUME NEW x \in Int, NEW len \in Nat \ {0}, Multiple(x, len)
    PROVE  Truncate(x, len) = x
<1> DEFINE y == Truncate(x, len)
<1>1. y \in Int /\ y <= x /\ x < y + len /\ Multiple(y, len)
  BY TruncateFacts
<1>2. y < x => y + len <= x
  BY <1>1, MultipleStep
<1> HIDE DEF y
<1>3. y = x
  BY <1>1, <1>2
<1> QED BY <1>3 DEF y

(* The bucket of a time is a bucket.                                       *)
LEMMA HourOfHour ==
    ASSUME NEW t \in Times
    PROVE  /\ Hour(t) = Truncate(t, HourLen) /\ Hour(t) \in Int
           /\ Truncate(Hour(t), HourLen) = Hour(t)
<1>1. t \in Int /\ HourLen \in Nat \ {0}
  BY ConstantsAssumption
<1>2. Truncate(t, HourLen) \in Int /\ Multiple(Truncate(t, HourLen), HourLen)
  BY <1>1, TruncateFacts
<1>3. Hour(t) = Truncate(t, HourLen)
  BY DEF Hour, Truncate
<1> QED BY <1>1, <1>2, <1>3, TruncateOfMultiple

(* The least and the greatest of one value.                                *)
LEMMA MinOfOne ==
    ASSUME NEW x \in Values
    PROVE  Min({x}) = x /\ Max({x}) = x
<1>1. {x} \in SUBSET Values /\ {x} # {}
  OBVIOUS
<1> QED BY <1>1, MinFacts, MaxFacts

SamplesIn(b, raw, len) == {s \in raw : Truncate(s.ts, len) = b}
RowsIn(b, rollups, len) == {h \in rollups : Truncate(h.bucket_ts, len) = b}

(* The rows of the hourly table that an hour of the answer reads.          *)
LEMMA HourRowsIn ==
    ASSUME Tables, NEW id, NEW w, NEW b
    PROVE  LET k == <<id, b>>
           IN  RowsIn(b, GetTsRollupRange(id, "hour", w), HourLen)
                   = {HourRow(x, tsdata) :
                         x \in {y \in {k} \cap HourKeys(tsdata) :
                                   InRollupRange(b, w[1], w[2], HourLen)}}
<1> DEFINE k == <<id, b>>
           R == RowsIn(b, GetTsRollupRange(id, "hour", w), HourLen)
           Q == {HourRow(x, tsdata) :
                    x \in {y \in {k} \cap HourKeys(tsdata) :
                              InRollupRange(b, w[1], w[2], HourLen)}}
<1>1. \A x \in HourKeys(tsdata) :
         /\ x = <<HourRow(x, tsdata).ts_uuid, HourRow(x, tsdata).bucket_ts>>
         /\ Truncate(HourRow(x, tsdata).bucket_ts, HourLen) = HourRow(x, tsdata).bucket_ts
  <2> TAKE x \in HourKeys(tsdata)
  <2>1. PICK s \in tsdata : x = <<s.ts_uuid, Hour(s.ts)>>
    BY DEF HourKeys, HourKey
  <2>2. s.ts \in Times
    BY DEF Tables, Sample
  <2>3. HourRow(x, tsdata).ts_uuid = x[1] /\ HourRow(x, tsdata).bucket_ts = x[2]
    BY DEF HourRow
  <2> QED BY <2>1, <2>2, <2>3, HourOfHour
<1>2. \A h : h \in R <=> /\ h \in HourlyOf(tsdata) /\ h.ts_uuid = id
                         /\ InRollupRange(h.bucket_ts, w[1], w[2], HourLen)
                         /\ Truncate(h.bucket_ts, HourLen) = b
  BY DEF RowsIn, GetTsRollupRange, Rollups, RollupLen, Tables, HourlyExact
<1>3. ASSUME NEW h \in R PROVE h \in Q
  <2>1. PICK x \in HourKeys(tsdata) : h = HourRow(x, tsdata)
    BY <1>2 DEF HourlyOf
  <2>2. x = k /\ h.bucket_ts = b
    BY <1>1, <1>2, <2>1
  <2> QED BY <1>2, <2>1, <2>2
<1>4. ASSUME NEW h \in Q PROVE h \in R
  <2>1. k \in HourKeys(tsdata) /\ h = HourRow(k, tsdata) /\ InRollupRange(b, w[1], w[2], HourLen)
    OBVIOUS
  <2>2. h.ts_uuid = id /\ h.bucket_ts = b /\ Truncate(b, HourLen) = b
    BY <1>1, <2>1 DEF HourRow
  <2>3. h \in HourlyOf(tsdata)
    BY <2>1 DEF HourlyOf
  <2> QED BY <1>2, <2>1, <2>2, <2>3
<1> HIDE DEF R, Q
<1>5. R = Q
  BY <1>3, <1>4
<1> QED BY <1>5 DEF R, Q, k

(* What a query by the hour reads for an hour, against a scan.             *)
LEMMA HourSources ==
    ASSUME Tables, NEW id, NEW w \in Windows, NEW b
    PROVE  LET raw == UNION {GetTsDataRange(id, r) : r \in RawRanges(w[1], w[2], HourLen)}
               S == SamplesIn(b, raw, HourLen)
               R == RowsIn(b, GetTsRollupRange(id, "hour", w), HourLen)
               D == SamplesIn(b, GetTsDataRange(id, w), HourLen)
               k == <<id, b>>
           IN  \/ S = D /\ R = {}
               \/ /\ S = {} /\ R = {HourRow(k, tsdata)}
                  /\ D = InHour(k, tsdata) /\ k \in HourKeys(tsdata)
<1> DEFINE ranges == RawRanges(w[1], w[2], HourLen)
           raw == UNION {GetTsDataRange(id, r) : r \in ranges}
           S == SamplesIn(b, raw, HourLen)
           R == RowsIn(b, GetTsRollupRange(id, "hour", w), HourLen)
           D == SamplesIn(b, GetTsDataRange(id, w), HourLen)
           k == <<id, b>>
           full == InRollupRange(b, w[1], w[2], HourLen)
<1>1. w[1] \in Int /\ w[2] \in Int /\ HourLen \in Nat \ {0}
  BY QueryAssumption, ConstantsAssumption
<1>2. ASSUME NEW s \in tsdata
      PROVE  /\ s.ts \in Int
             /\ HourKey(s) = <<s.ts_uuid, Truncate(s.ts, HourLen)>>
  <2>1. s.ts \in Times
    BY DEF Tables, Sample
  <2>2. s.ts \in Int
    <3>1. \A t \in Times : t \in Int
      BY ConstantsAssumption
    <3> QED BY <2>1, <3>1
  <2> QED BY <2>1, <2>2, HourOfHour DEF HourKey
<1>3. ASSUME NEW s \in tsdata, Truncate(s.ts, HourLen) = b
      PROVE  /\ InRange(s.ts, w) <=> full \/ \E r \in ranges : InRange(s.ts, r)
             /\ \A r \in ranges : InRange(s.ts, r) => ~full
  <2>1. SplitExact(s.ts, w[1], w[2], HourLen)
    BY <1>1, <1>2, SplitIsExact
  <2>2. ReadByRollup(s.ts, w[1], w[2], HourLen) <=> full
    BY <1>3 DEF ReadByRollup
  <2>3. InRange(s.ts, w) <=> w[1] <= s.ts /\ s.ts <= w[2]
    BY DEF InRange
  <2> QED BY <2>1, <2>2, <2>3 DEF SplitExact
<1>4. R = {HourRow(x, tsdata) : x \in {y \in {k} \cap HourKeys(tsdata) : full}}
  BY HourRowsIn
<1>5. \A s : s \in S <=> /\ s \in tsdata /\ s.ts_uuid = id /\ Truncate(s.ts, HourLen) = b
                         /\ \E r \in ranges : InRange(s.ts, r)
  BY DEF SamplesIn, GetTsDataRange
<1>6. \A s : s \in D <=> /\ s \in tsdata /\ s.ts_uuid = id /\ Truncate(s.ts, HourLen) = b
                         /\ InRange(s.ts, w)
  BY DEF SamplesIn, GetTsDataRange
<1>7. \A s : s \in InHour(k, tsdata)
                <=> s \in tsdata /\ s.ts_uuid = id /\ Truncate(s.ts, HourLen) = b
  BY <1>2 DEF InHour
<1>8. k \in HourKeys(tsdata) <=> \E s : s \in InHour(k, tsdata)
  BY DEF HourKeys, InHour
<1> HIDE DEF raw, S, R, D, k, full, ranges
<1>9. CASE ~full
  <2>1. R = {}
    BY <1>4, <1>9
  <2>2. S = D
    BY <1>3, <1>5, <1>6, <1>9
  <2> QED BY <2>1, <2>2 DEF raw, S, R, D, ranges
<1>10. CASE full
  <2>1. D = InHour(k, tsdata) /\ S = {}
    BY <1>3, <1>5, <1>6, <1>7, <1>10
  <2>2. CASE k \in HourKeys(tsdata)
    <3>1. R = {HourRow(k, tsdata)}
      BY <1>4, <1>10, <2>2
    <3> QED BY <2>1, <2>2, <3>1 DEF raw, S, R, D, ranges, k
  <2>3. CASE k \notin HourKeys(tsdata)
    <3>1. R = {}
      BY <1>4, <2>3
    <3>2. S = D
      BY <1>8, <2>1, <2>3
    <3> QED BY <3>1, <3>2 DEF raw, S, R, D, ranges
  <2> QED BY <2>2, <2>3
<1> QED BY <1>9, <1>10

(* A bucket of an answer, from its sources.                                *)
Aggregate(b, S, R) ==
    [ts    |-> b,
     count |-> Cardinality(S) + SUM("sample_count", R),
     sum   |-> SUM("value", S) + SUM("sample_sum", R),
     min   |-> Min({s.value : s \in S} \cup {h.sample_min : h \in R}),
     max   |-> Max({s.value : s \in S} \cup {h.sample_max : h \in R})]

(* accumulateAggregateBucket, and which buckets there are.                 *)
LEMMA AggregateOf ==
    ASSUME NEW b, NEW raw, NEW rollups, NEW len
    PROVE  /\ accumulateAggregateBucket(b, raw, rollups, len)
                  = Aggregate(b, SamplesIn(b, raw, len), RowsIn(b, rollups, len))
           /\ b \in SourceBuckets(raw, rollups, len)
                  <=> SamplesIn(b, raw, len) # {} \/ RowsIn(b, rollups, len) # {}
  BY DEF accumulateAggregateBucket, Aggregate, SamplesIn, RowsIn, SourceBuckets

(* The rollup row of an hour stands for its samples.                       *)
LEMMA HourRowAggregate ==
    ASSUME Tables, NEW k \in HourKeys(tsdata), NEW b
    PROVE  Aggregate(b, {}, {HourRow(k, tsdata)}) = Aggregate(b, InHour(k, tsdata), {})
<1> DEFINE A == InHour(k, tsdata)
           h == HourRow(k, tsdata)
           a == {s.value : s \in A}
<1>1. tsdata \in SUBSET Sample /\ IsFiniteSet(tsdata)
  BY DEF Tables
<1>2. /\ h.sample_count \in Nat /\ h.sample_sum \in Int
      /\ h.sample_min \in Values /\ h.sample_max \in Values
  BY <1>1, HourRowType
<1>3. /\ h.sample_count = Cardinality(A) /\ h.sample_sum = SUM("value", A)
      /\ h.sample_min = Min(a) /\ h.sample_max = Max(a)
  BY DEF HourRow
<1> HIDE DEF A, h, a
<1>4. /\ {s.value : s \in {}} \cup {x.sample_min : x \in {h}} = {h.sample_min}
      /\ {s.value : s \in {}} \cup {x.sample_max : x \in {h}} = {h.sample_max}
  OBVIOUS
<1>5. /\ {s.value : s \in A} \cup {x.sample_min : x \in {}} = a
      /\ {s.value : s \in A} \cup {x.sample_max : x \in {}} = a
  BY DEF a
<1>6. /\ Min({h.sample_min}) = Min(a) /\ Max({h.sample_max}) = Max(a)
  BY <1>2, <1>3, MinOfOne
<1>7. /\ Cardinality({}) + SUM("sample_count", {h}) = Cardinality(A) + SUM("sample_count", {})
      /\ SUM("value", {}) + SUM("sample_sum", {h}) = SUM("value", A) + SUM("sample_sum", {})
  <2>1. /\ SUM("sample_count", {h}) = h["sample_count"] /\ SUM("sample_sum", {h}) = h["sample_sum"]
    BY <1>2, SumOfOne
  <2>2. /\ Cardinality({}) = 0 /\ SUM("value", {}) = 0
        /\ SUM("sample_count", {}) = 0 /\ SUM("sample_sum", {}) = 0
    BY FS_EmptySet, SumOfNone
  <2> QED BY <1>2, <1>3, <2>1, <2>2
<1>8. Aggregate(b, {}, {h}) = Aggregate(b, A, {})
  BY <1>4, <1>5, <1>6, <1>7 DEF Aggregate
<1> QED BY <1>8 DEF A, h

(* Exact hourly rollups give exact answers by the hour.                    *)
LEMMA HourlyScan == Tables => HourlyAnswerIsScan
<1> SUFFICES ASSUME Tables, NEW id \in Series, NEW w \in Windows
             PROVE  LET raw == UNION {GetTsDataRange(id, r) : r \in RawRanges(w[1], w[2], HourLen)}
                    IN  aggregateFromSources(raw, GetTsRollupRange(id, "hour", w), HourLen)
                            = aggregateRows(GetTsDataRange(id, w), HourLen)
  BY DEF HourlyAnswerIsScan
<1> DEFINE raw == UNION {GetTsDataRange(id, r) : r \in RawRanges(w[1], w[2], HourLen)}
           rolls == GetTsRollupRange(id, "hour", w)
           data == GetTsDataRange(id, w)
<1>1. ASSUME NEW b
      PROVE  LET S == SamplesIn(b, raw, HourLen)
                 R == RowsIn(b, rolls, HourLen)
                 D == SamplesIn(b, data, HourLen)
             IN  /\ S # {} \/ R # {} <=> D # {}
                 /\ Aggregate(b, S, R) = Aggregate(b, D, {})
  <2> DEFINE S == SamplesIn(b, raw, HourLen)
             R == RowsIn(b, rolls, HourLen)
             D == SamplesIn(b, data, HourLen)
             k == <<id, b>>
  <2>1. \/ S = D /\ R = {}
        \/ /\ S = {} /\ R = {HourRow(k, tsdata)}
           /\ D = InHour(k, tsdata) /\ k \in HourKeys(tsdata)
    BY HourSources
  <2>2. k \in HourKeys(tsdata) => InHour(k, tsdata) # {}
    BY KeyOfHourRow
  <2>3. k \in HourKeys(tsdata) =>
            Aggregate(b, {}, {HourRow(k, tsdata)}) = Aggregate(b, InHour(k, tsdata), {})
    BY HourRowAggregate
  <2> HIDE DEF S, R, D, k
  <2>4. (S # {} \/ R # {} <=> D # {}) /\ Aggregate(b, S, R) = Aggregate(b, D, {})
    BY <2>1, <2>2, <2>3
  <2> QED BY <2>4 DEF S, R, D
<1> HIDE DEF raw, rolls, data
<1>2. \A b : RowsIn(b, {}, HourLen) = {}
  BY DEF RowsIn
<1>3. SourceBuckets(raw, rolls, HourLen) = SourceBuckets(data, {}, HourLen)
  <2>1. \A b : b \in SourceBuckets(raw, rolls, HourLen) <=> b \in SourceBuckets(data, {}, HourLen)
    BY <1>1, <1>2, AggregateOf
  <2>2. /\ \A b \in SourceBuckets(raw, rolls, HourLen) : b \in SourceBuckets(data, {}, HourLen)
        /\ \A b \in SourceBuckets(data, {}, HourLen) : b \in SourceBuckets(raw, rolls, HourLen)
    BY <2>1
  <2> QED BY <2>2
<1>4. ASSUME NEW b
      PROVE  accumulateAggregateBucket(b, raw, rolls, HourLen)
                 = accumulateAggregateBucket(b, data, {}, HourLen)
  <2>1. accumulateAggregateBucket(b, raw, rolls, HourLen)
            = Aggregate(b, SamplesIn(b, raw, HourLen), RowsIn(b, rolls, HourLen))
    BY AggregateOf
  <2>2. accumulateAggregateBucket(b, data, {}, HourLen)
            = Aggregate(b, SamplesIn(b, data, HourLen), {})
    BY <1>2, AggregateOf
  <2> QED BY <1>1, <2>1, <2>2
<1>5. aggregateFromSources(raw, rolls, HourLen) = aggregateFromSources(data, {}, HourLen)
  BY <1>3, <1>4 DEF aggregateFromSources
<1> QED BY <1>5 DEF aggregateRows, raw, rolls, data

(* Every aggregate by the hour is the one a scan of the samples gives.     *)
THEOREM HourlyAnswersAreScans == Spec => []HourlyAnswerIsScan
<1>1. QueryInv => HourlyAnswerIsScan
  BY HourlyScan DEF QueryInv
<1> QED BY <1>1, QueryInvariant, PTL

-----------------------------------------------------------------------------
(***************************************************************************)
(* The answer of a query that ran while samples were written.              *)
(***************************************************************************)

(* The bucket of a bucket, when the longer ones are made of shorter ones.  *)
LEMMA NestedTruncate ==
    ASSUME NEW t \in Int, NEW m \in Nat \ {0}, NEW n \in Nat \ {0}
    PROVE  Truncate(Truncate(t, m), m * n) = Truncate(t, m * n)
<1> DEFINE x == Truncate(t, m)
           y == Truncate(t, m * n)
           z == Truncate(x, m * n)
<1>1. m * n \in Nat \ {0}
  <2>1. m * n \in Nat /\ m * n > 0
    OBVIOUS
  <2> QED BY <2>1
<1>2. x \in Int /\ x <= t /\ t < x + m /\ Multiple(x, m)
  BY TruncateFacts
<1>3. y \in Int /\ y <= t /\ t < y + m * n /\ Multiple(y, m * n)
  BY <1>1, TruncateFacts
<1> HIDE DEF x
<1>4. z \in Int /\ z <= x /\ x < z + m * n /\ Multiple(z, m * n)
  BY <1>1, <1>2, TruncateFacts
<1> HIDE DEF y, z
<1>5. Multiple(y, m)
  <2>1. PICK k \in Int : y = (m * n) * k
    BY <1>3 DEF Multiple
  <2>2. y = m * (n * k) /\ n * k \in Int
    BY <2>1
  <2> QED BY <2>2 DEF Multiple
<1>6. y <= x
  <2>1. x < y => x + m <= y
    BY <1>2, <1>3, <1>5, MultipleStep
  <2> QED BY <1>2, <1>3, <2>1
<1>7. /\ z < y => z + m * n <= y
      /\ y < z => y + m * n <= z
  BY <1>1, <1>3, <1>4, MultipleStep
<1> DEFINE d == m * n
<1>8. d \in Int
  BY <1>1
<1>9. /\ t < y + d /\ x < z + d
      /\ z < y => z + d <= y
      /\ y < z => y + d <= z
  BY <1>3, <1>4, <1>7
<1> HIDE DEF d
<1>10. z = y
  BY <1>2, <1>3, <1>4, <1>6, <1>8, <1>9
<1> QED BY <1>10 DEF x, y, z

(* The lengths of the buckets: an answer's are made of its table's.        *)
LEMMA Lengths ==
    ASSUME NEW precision \in Precisions, NEW t \in Int
    PROVE  /\ Truncate(Truncate(t, HourLen), DayLen) = Truncate(t, DayLen)
           /\ Truncate(Truncate(t, RollupLen(precision)), BucketLen(precision))
                  = Truncate(t, BucketLen(precision))
<1>1. HourLen \in Nat \ {0} /\ HoursPerDay \in Nat \ {0} /\ DaysPerWeek \in Nat \ {0}
  BY ConstantsAssumption, QueryAssumption
<1>2. DayLen \in Nat \ {0} /\ RollupLen(precision) \in Nat \ {0}
  <2>1. "day" \in Precisions /\ RollupLen("day") = DayLen
    BY DEF Precisions, RollupLen
  <2> QED BY <2>1, RollupLenType
<1>3. Truncate(Truncate(t, HourLen), DayLen) = Truncate(t, DayLen)
  BY <1>1, NestedTruncate DEF DayLen
<1>4. CASE precision = "hour"
  <2>1. RollupLen(precision) = HourLen /\ BucketLen(precision) = HourLen
    BY <1>4 DEF RollupLen, BucketLen
  <2>2. Truncate(t, HourLen) \in Int /\ Multiple(Truncate(t, HourLen), HourLen)
    BY <1>1, TruncateFacts
  <2>3. Truncate(Truncate(t, HourLen), HourLen) = Truncate(t, HourLen)
    BY <1>1, <2>2, TruncateOfMultiple
  <2> QED BY <1>3, <2>1, <2>3
<1>5. CASE precision = "day"
  <2>1. RollupLen(precision) = DayLen /\ BucketLen(precision) = DayLen
    BY <1>5 DEF RollupLen, BucketLen
  <2>2. Truncate(t, DayLen) \in Int /\ Multiple(Truncate(t, DayLen), DayLen)
    BY <1>2, TruncateFacts
  <2>3. Truncate(Truncate(t, DayLen), DayLen) = Truncate(t, DayLen)
    BY <1>2, <2>2, TruncateOfMultiple
  <2> QED BY <1>3, <2>1, <2>3
<1>6. CASE precision = "week"
  <2>1. RollupLen(precision) = DayLen /\ BucketLen(precision) = DayLen * DaysPerWeek
    BY <1>6 DEF RollupLen, BucketLen
  <2>2. Truncate(Truncate(t, DayLen), DayLen * DaysPerWeek) = Truncate(t, DayLen * DaysPerWeek)
    BY <1>1, <1>2, NestedTruncate
  <2> QED BY <1>3, <2>1, <2>2
<1> QED BY <1>4, <1>5, <1>6 DEF Precisions

(* Rows that each count at least their own samples together count at       *)
(* least the samples of all.                                               *)
LEMMA CountsCover ==
    ASSUME NEW R, IsFiniteSet(R), NEW P, DOMAIN P = R,
           \A q \in R : /\ IsFiniteSet(P[q]) /\ q["sample_count"] \in Nat
                        /\ Cardinality(P[q]) <= q["sample_count"]
    PROVE  LET all == UNION {P[q] : q \in R}
           IN  /\ IsFiniteSet(all) /\ SUM("sample_count", R) \in Nat
               /\ Cardinality(all) <= SUM("sample_count", R)
<1> DEFINE Of(A) == UNION {P[q] : q \in A}
           Good(A) == /\ IsFiniteSet(Of(A)) /\ SUM("sample_count", A) \in Nat
                      /\ Cardinality(Of(A)) <= SUM("sample_count", A)
           Bad == {A \in SUBSET R : ~Good(A)}
<1>1. Bad = {}
  <2> SUFFICES ASSUME Bad # {} PROVE FALSE
    OBVIOUS
  <2>1. PICK A \in Bad : \A B \in Bad : Cardinality(A) <= Cardinality(B)
    BY SmallestSet
  <2>2. A \in SUBSET R /\ IsFiniteSet(A)
    BY FS_Subset
  <2>3. A # {}
    <3>1. Of({}) = {}
      OBVIOUS
    <3>2. IsFiniteSet({}) /\ Cardinality({}) = 0 /\ SUM("sample_count", {}) = 0
      BY FS_EmptySet, SumOfNone
    <3> HIDE DEF Of
    <3>3. Good({})
      BY <3>1, <3>2
    <3> QED BY <2>1, <3>3
  <2>4. PICK q \in A : TRUE
    BY <2>3
  <2> DEFINE B == A \ {q}
  <2>5. B \in SUBSET R /\ ~(Cardinality(A) <= Cardinality(B))
    BY <2>2, OneLess
  <2>6. Good(B)
    BY <2>1, <2>5
  <2>7. SUM("sample_count", A) = q["sample_count"] + SUM("sample_count", B)
    <3>1. \A x \in A : x["sample_count"] \in Int
      BY <2>2
    <3> QED BY <2>2, <3>1, SumOfOther
  <2>8. Of(A) = P[q] \cup Of(B)
    OBVIOUS
  <2>9. q["sample_count"] \in Nat /\ IsFiniteSet(P[q]) /\ Cardinality(P[q]) <= q["sample_count"]
    BY <2>2
  <2> HIDE DEF B, Of
  <2>10. /\ IsFiniteSet(Of(A)) /\ Cardinality(Of(A)) \in Nat
         /\ Cardinality(P[q]) \in Nat /\ Cardinality(Of(B)) \in Nat
         /\ Cardinality(P[q] \cap Of(B)) \in Nat
         /\ Cardinality(Of(A)) = Cardinality(P[q]) + Cardinality(Of(B)) - Cardinality(P[q] \cap Of(B))
    <3>1. IsFiniteSet(Of(B)) /\ IsFiniteSet(P[q] \cap Of(B))
      BY <2>6, <2>9, FS_Subset
    <3> QED BY <2>8, <2>9, <3>1, FS_Union, FS_CardinalityType
  <2>11. Good(A)
    BY <2>6, <2>7, <2>9, <2>10
  <2> QED BY <2>1, <2>11
<1> QED BY <1>1

(* The samples a rollup row is about, and what the row says of them: its   *)
(* count is not too low, its minimum and maximum are exact.                *)
Period(q, len) == {s \in tsdata : s.ts_uuid = q.ts_uuid /\ Truncate(s.ts, len) = q.bucket_ts}

Stands(q, len) ==
    /\ IsFiniteSet(Period(q, len))
    /\ q.sample_count \in Nat /\ Cardinality(Period(q, len)) <= q.sample_count
    /\ q.sample_min \in Values /\ q.sample_max \in Values
    /\ \E s \in Period(q, len) : s.value = q.sample_min
    /\ \E s \in Period(q, len) : s.value = q.sample_max
    /\ \A s \in Period(q, len) : q.sample_min <= s.value /\ s.value <= q.sample_max

(* The types of a stored sample, and its hour.                             *)
LEMMA SampleFacts ==
    ASSUME Tables, NEW s \in tsdata
    PROVE  /\ s.ts \in Times /\ s.ts \in Int /\ s.value \in Values /\ s.value \in Int
           /\ HourKey(s) = <<s.ts_uuid, Truncate(s.ts, HourLen)>>
<1>1. s.ts \in Times /\ s.value \in Values
  BY DEF Tables, Sample
<1>2. (\A t \in Times : t \in Int) /\ (\A v \in Values : v \in Int)
  BY ConstantsAssumption DEF Values
<1> QED BY <1>1, <1>2, HourOfHour DEF HourKey

(* The period of an hourly row is the group it was computed from.          *)
LEMMA HourStands ==
    ASSUME Tables, NEW h \in hourly
    PROVE  /\ Stands(h, HourLen) /\ h.sample_count = Cardinality(Period(h, HourLen))
           /\ Period(h, HourLen) = InHour(RollupKey(h), tsdata)
           /\ RollupKey(h) \in HourKeys(tsdata) /\ h = HourRow(RollupKey(h), tsdata)
<1>1. PICK k \in HourKeys(tsdata) : h = HourRow(k, tsdata)
  BY DEF Tables, HourlyExact, HourlyOf
<1> DEFINE A == InHour(k, tsdata)
           a == {s.value : s \in A}
<1>2. RollupKey(h) = k /\ A # {}
  BY <1>1, KeyOfHourRow
<1>3. Period(h, HourLen) = A
  <2>1. k = <<h.ts_uuid, h.bucket_ts>>
    BY <1>2 DEF RollupKey
  <2>2. \A s \in tsdata : HourKey(s) = <<s.ts_uuid, Truncate(s.ts, HourLen)>>
    BY SampleFacts
  <2> QED BY <2>1, <2>2 DEF Period, InHour
<1>4. A \in SUBSET tsdata /\ IsFiniteSet(A) /\ Cardinality(A) \in Nat
  <2>1. A \in SUBSET tsdata
    BY DEF InHour
  <2> QED BY <2>1, FS_Subset, FS_CardinalityType DEF Tables
<1>5. a \in SUBSET Values /\ a # {}
  BY <1>2, <1>4, SampleFacts
<1>6. h.sample_count = Cardinality(A) /\ h.sample_min = Min(a) /\ h.sample_max = Max(a)
  BY <1>1 DEF HourRow
<1>7. /\ Min(a) \in a /\ Max(a) \in a
      /\ \A v \in a : Min(a) <= v /\ Max(a) >= v
  BY <1>5, MinFacts, MaxFacts
<1>8. \A v \in Values : v \in Int
  BY ConstantsAssumption DEF Values
<1>9. /\ \E s \in A : s.value = h.sample_min
      /\ \E s \in A : s.value = h.sample_max
      /\ \A s \in A : s.value \in a
  BY <1>6, <1>7
<1> HIDE DEF a
<1>10. \A s \in A : h.sample_min <= s.value /\ s.value <= h.sample_max
  BY <1>5, <1>6, <1>7, <1>8, <1>9
<1>11. h.sample_min \in Values /\ h.sample_max \in Values
  BY <1>5, <1>6, <1>7
<1>12. Cardinality(A) <= h.sample_count
  BY <1>4, <1>6
<1> HIDE DEF A
<1>13. Stands(h, HourLen)
  BY <1>3, <1>4, <1>6, <1>9, <1>10, <1>11, <1>12 DEF Stands
<1> QED BY <1>1, <1>2, <1>3, <1>6, <1>13 DEF A

(* Every sample has an hourly row.                                         *)
LEMMA SampleHasHour ==
    ASSUME Tables, NEW s \in tsdata
    PROVE  \E h \in hourly : s \in Period(h, HourLen)
<1> DEFINE x == <<s.ts_uuid, Truncate(s.ts, HourLen)>>
           h == HourRow(x, tsdata)
<1>1. x \in HourKeys(tsdata)
  BY SampleFacts DEF HourKeys
<1>2. h \in hourly
  BY <1>1 DEF Tables, HourlyExact, HourlyOf
<1>3. h.ts_uuid = x[1] /\ h.bucket_ts = x[2]
  BY DEF HourRow
<1>4. x[1] = s.ts_uuid /\ x[2] = Truncate(s.ts, HourLen)
  OBVIOUS
<1> HIDE DEF h
<1> QED BY <1>2, <1>3, <1>4 DEF Period

(* The period of a daily row is made of those of the hours of its day.     *)
LEMMA DayStands ==
    ASSUME Tables, NEW d \in daily
    PROVE  Stands(d, DayLen)
<1> DEFINE k == RollupKey(d)
           D == InDay(k, hourly)
           mins == {h.sample_min : h \in D}
           maxs == {h.sample_max : h \in D}
           P == [h \in D |-> Period(h, HourLen)]
           all == UNION {P[h] : h \in D}
<1>1. HourlyRows(hourly) /\ hourly = HourlyOf(tsdata)
  BY HourlyRowsOf DEF Tables, HourlyExact
<1>2. k \in DayKeys(hourly) /\ Covers(d, k, hourly)
  BY <1>1 DEF Tables, DaysCovered, Covering, RollupKeys
<1>3. /\ D \in SUBSET hourly /\ IsFiniteSet(D) /\ D # {}
      /\ mins \in SUBSET Values /\ maxs \in SUBSET Values
      /\ SUM("sample_count", D) \in Nat
  BY <1>1, <1>2, InDayFacts
<1>4. /\ d.sample_count \in Nat /\ d.sample_count >= SUM("sample_count", D)
      /\ d.sample_min = Min(mins) /\ d.sample_max = Max(maxs)
  BY <1>2 DEF Covers
<1>5. mins # {} /\ maxs # {}
  BY <1>3
<1>6. /\ Min(mins) \in mins /\ Max(maxs) \in maxs
      /\ \A v \in mins : Min(mins) <= v
      /\ \A v \in maxs : Max(maxs) >= v
  BY <1>3, <1>5, MinFacts, MaxFacts
<1>7. \A v \in Values : v \in Int
  BY ConstantsAssumption DEF Values
<1>8. \A h \in D : Stands(h, HourLen) /\ P[h] = Period(h, HourLen)
  BY <1>3, HourStands
<1>9. Period(d, DayLen) = all
  <2>1. k = <<d.ts_uuid, d.bucket_ts>>
    BY DEF RollupKey
  <2>2. \A t \in Int : Truncate(Truncate(t, HourLen), DayLen) = Truncate(t, DayLen)
    <3>1. "day" \in Precisions
      BY DEF Precisions
    <3> QED BY <3>1, Lengths
  <2>3. \A h : h \in D <=> /\ h \in hourly /\ h.ts_uuid = d.ts_uuid
                           /\ Truncate(h.bucket_ts, DayLen) = d.bucket_ts
    BY <2>1 DEF InDay, DayKey, Day, Truncate
  <2>4. ASSUME NEW s \in all PROVE s \in Period(d, DayLen)
    <3>1. PICK h \in D : s \in Period(h, HourLen)
      OBVIOUS
    <3>2. s \in tsdata /\ s.ts_uuid = h.ts_uuid /\ Truncate(s.ts, HourLen) = h.bucket_ts
      BY <3>1 DEF Period
    <3>3. h.ts_uuid = d.ts_uuid /\ Truncate(h.bucket_ts, DayLen) = d.bucket_ts
      BY <2>3
    <3>4. Truncate(s.ts, DayLen) = d.bucket_ts
      BY <2>2, <3>2, <3>3, SampleFacts
    <3> QED BY <3>2, <3>3, <3>4 DEF Period
  <2>5. ASSUME NEW s \in Period(d, DayLen) PROVE s \in all
    <3>1. s \in tsdata /\ s.ts_uuid = d.ts_uuid /\ Truncate(s.ts, DayLen) = d.bucket_ts
      BY DEF Period
    <3>2. PICK h \in hourly : s \in Period(h, HourLen)
      BY <3>1, SampleHasHour
    <3>3. h.ts_uuid = s.ts_uuid /\ h.bucket_ts = Truncate(s.ts, HourLen)
      BY <3>2 DEF Period
    <3>4. h \in D
      BY <2>2, <2>3, <3>1, <3>3, SampleFacts
    <3> QED BY <3>2, <3>4
  <2> HIDE DEF all
  <2> QED BY <2>4, <2>5
<1>10. /\ \A h \in D : \A s \in Period(h, HourLen) : s \in all
       /\ \A s \in all : \E h \in D : s \in Period(h, HourLen)
  OBVIOUS
<1>11. /\ \A h \in D : h.sample_min \in mins /\ h.sample_max \in maxs
       /\ \E h \in D : h.sample_min = d.sample_min
       /\ \E h \in D : h.sample_max = d.sample_max
  BY <1>4, <1>6
<1>12. IsFiniteSet(all) /\ Cardinality(all) \in Nat /\ Cardinality(all) <= SUM("sample_count", D)
  <2>1. DOMAIN P = D
    OBVIOUS
  <2>2. \A h \in D : /\ IsFiniteSet(P[h]) /\ h["sample_count"] \in Nat
                     /\ Cardinality(P[h]) <= h["sample_count"]
    BY <1>8 DEF Stands
  <2> HIDE DEF P, D
  <2>3. IsFiniteSet(all) /\ Cardinality(all) <= SUM("sample_count", D)
    BY <1>3, <2>1, <2>2, CountsCover
  <2> QED BY <2>3, FS_CardinalityType
<1> HIDE DEF k, D, mins, maxs, P, all
<1>13. Cardinality(all) <= d.sample_count
  BY <1>3, <1>4, <1>12
<1>14. /\ \E s \in all : s.value = d.sample_min
       /\ \E s \in all : s.value = d.sample_max
  BY <1>8, <1>10, <1>11 DEF Stands
<1>15. ASSUME NEW s \in all PROVE d.sample_min <= s.value /\ s.value <= d.sample_max
  <2>1. PICK h \in D : s \in Period(h, HourLen)
    BY <1>10
  <2>2. h.sample_min <= s.value /\ s.value <= h.sample_max
    BY <1>8, <2>1 DEF Stands
  <2>3. d.sample_min <= h.sample_min /\ h.sample_max <= d.sample_max
    BY <1>3, <1>4, <1>6, <1>7, <1>11
  <2>4. h.sample_min \in Int /\ h.sample_max \in Int /\ d.sample_min \in Int /\ d.sample_max \in Int
    BY <1>3, <1>4, <1>6, <1>7, <1>11
  <2>5. s.value \in Int
    BY <2>1, SampleFacts DEF Period
  <2> QED BY <2>2, <2>3, <2>4, <2>5
<1>16. d.sample_min \in Values /\ d.sample_max \in Values
  BY <1>3, <1>4, <1>6
<1> QED BY <1>4, <1>9, <1>12, <1>13, <1>14, <1>15, <1>16 DEF Stands

(* The rows of either table, and that every sample has one.                *)
LEMMA RowsStand ==
    ASSUME Tables, NEW precision \in Precisions
    PROVE  /\ IsFiniteSet(Rollups(precision))
           /\ \A q \in Rollups(precision) : Stands(q, RollupLen(precision))
           /\ \A s \in tsdata : \E q \in Rollups(precision) : s \in Period(q, RollupLen(precision))
<1>1. hourly = HourlyOf(tsdata) /\ IsFiniteSet(hourly)
  BY HourlyRowsOf DEF Tables, HourlyExact, HourlyRows
<1>2. IsFiniteSet(daily) /\ RollupKeys(daily) = DayKeys(hourly)
  BY <1>1 DEF Tables, DaysCovered, Covering
<1>3. ASSUME NEW s \in tsdata PROVE \E h \in hourly : s \in Period(h, HourLen)
  BY SampleHasHour
<1>4. ASSUME NEW s \in tsdata PROVE \E d \in daily : s \in Period(d, DayLen)
  <2>1. PICK h \in hourly : s \in Period(h, HourLen)
    BY <1>3
  <2>2. DayKey(h) \in RollupKeys(daily)
    BY <1>2 DEF DayKeys
  <2>3. PICK d \in daily : RollupKey(d) = DayKey(h)
    BY <2>2 DEF RollupKeys
  <2>4. d.ts_uuid = h.ts_uuid /\ d.bucket_ts = Truncate(h.bucket_ts, DayLen)
    BY <2>3 DEF RollupKey, DayKey, Day, Truncate
  <2>5. s.ts_uuid = h.ts_uuid /\ Truncate(s.ts, HourLen) = h.bucket_ts
    BY <2>1 DEF Period
  <2>6. Truncate(Truncate(s.ts, HourLen), DayLen) = Truncate(s.ts, DayLen)
    BY SampleFacts, Lengths
  <2> QED BY <2>4, <2>5, <2>6 DEF Period
<1>5. CASE precision = "hour"
  <2>1. Rollups(precision) = hourly /\ RollupLen(precision) = HourLen
    BY <1>5 DEF Rollups, RollupLen
  <2> QED BY <1>1, <1>3, <2>1, HourStands
<1>6. CASE precision # "hour"
  <2>1. Rollups(precision) = daily /\ RollupLen(precision) = DayLen
    BY <1>6 DEF Rollups, RollupLen
  <2> QED BY <1>2, <1>4, <2>1, DayStands
<1> QED BY <1>5, <1>6

Asked(s) == s.ts_uuid = query.id /\ InRange(s.ts, query.window)

Covered(q) == Period(q, RollupLen(query.precision))

BucketOf(t) == Truncate(t, BucketLen(query.precision))

(* The types of a sample, stored or not.                                   *)
LEMMA SampleType ==
    ASSUME NEW s \in Sample
    PROVE  s.ts \in Int /\ s.value \in Values /\ s.value \in Int
<1>1. s.ts \in Times /\ s.value \in Values
  BY DEF Sample
<1>2. (\A t \in Times : t \in Int) /\ (\A v \in Values : v \in Int)
  BY ConstantsAssumption DEF Values
<1> QED BY <1>1, <1>2

(* What a finished query has read: rows of its range only, every sample    *)
(* that stayed, and no sample both as a row of tsdata and in a rollup row. *)
LEMMA FinishedSources ==
    ASSUME QueryInv, query.pc = "done"
    PROVE  /\ query.raw \in SUBSET ever /\ query.rollups \in SUBSET Rollups(query.precision)
           /\ \A s \in query.raw :
                 Asked(s) /\ ~\E q \in query.rollups :
                                Truncate(s.ts, RollupLen(query.precision)) = q.bucket_ts
           /\ \A q \in query.rollups : \A s \in Covered(q) :
                 Asked(s) /\ s \in ever /\ BucketOf(s.ts) = BucketOf(q.bucket_ts)
           /\ \A s \in always :
                 Asked(s) => s \in query.raw \/ \E q \in query.rollups : s \in Covered(q)
<1> DEFINE id == query.id
           p == query.precision
           w == query.window
           len == RollupLen(p)
<1>1. /\ QueryShape /\ RawBracketed /\ RollupsRead
      /\ always \subseteq tsdata /\ tsdata \subseteq ever /\ ever \in SUBSET Sample
  BY DEF QueryInv, Observed
<1>2. /\ w[1] \in Int /\ w[2] \in Int /\ len \in Nat \ {0} /\ p \in Precisions
  BY <1>1, QueryAssumption, RollupLenType DEF QueryShape
<1>3. Tables
  BY DEF QueryInv
<1>4. ASSUME NEW s \in ever
      PROVE  /\ s.ts \in Int
             /\ InRange(s.ts, w) <=> \/ InRollupRange(Truncate(s.ts, len), w[1], w[2], len)
                                     \/ \E r \in Ranges : InRange(s.ts, r)
             /\ \A r \in Ranges :
                   InRange(s.ts, r) => ~InRollupRange(Truncate(s.ts, len), w[1], w[2], len)
  <2>1. s.ts \in Int
    BY <1>1, SampleType
  <2>2. SplitExact(s.ts, w[1], w[2], len)
    BY <1>2, <2>1, SplitIsExact
  <2>3. Ranges = RawRanges(w[1], w[2], len)
    BY DEF Ranges
  <2>4. InRange(s.ts, w) <=> w[1] <= s.ts /\ s.ts <= w[2]
    BY DEF InRange
  <2> QED BY <2>1, <2>2, <2>3, <2>4 DEF SplitExact, ReadByRollup
<1>5. \A q : q \in query.rollups <=> /\ q \in Rollups(p) /\ q.ts_uuid = id
                                     /\ InRollupRange(q.bucket_ts, w[1], w[2], len)
  BY <1>1 DEF RollupsRead, GetTsRollupRange
<1>6. query.todo = {}
  BY <1>1 DEF RollupsRead
<1>7. \A q : \A s : s \in Covered(q) <=> /\ s \in tsdata /\ s.ts_uuid = q.ts_uuid
                                        /\ Truncate(s.ts, len) = q.bucket_ts
  BY DEF Covered, Period
<1>8. ASSUME NEW s \in query.raw
      PROVE  /\ s \in ever /\ Asked(s)
             /\ ~\E q \in query.rollups : Truncate(s.ts, len) = q.bucket_ts
  <2>1. s \in ever /\ s.ts_uuid = id /\ \E r \in Ranges : InRange(s.ts, r)
    BY <1>1 DEF RawBracketed
  <2>2. InRange(s.ts, w) /\ ~InRollupRange(Truncate(s.ts, len), w[1], w[2], len)
    BY <1>4, <2>1
  <2>3. ~\E q \in query.rollups : Truncate(s.ts, len) = q.bucket_ts
    BY <1>5, <2>2
  <2> QED BY <2>1, <2>2, <2>3 DEF Asked
<1>9. ASSUME NEW q \in query.rollups, NEW s \in Covered(q)
      PROVE  Asked(s) /\ s \in ever /\ BucketOf(s.ts) = BucketOf(q.bucket_ts)
  <2>1. s \in tsdata /\ s \in ever /\ s.ts_uuid = id /\ Truncate(s.ts, len) = q.bucket_ts
    BY <1>1, <1>5, <1>7
  <2>2. InRange(s.ts, w)
    BY <1>4, <1>5, <2>1
  <2>3. Truncate(Truncate(s.ts, len), BucketLen(p)) = Truncate(s.ts, BucketLen(p))
    BY <1>2, <1>4, <2>1, Lengths
  <2> QED BY <2>1, <2>2, <2>3 DEF Asked, BucketOf
<1>10. ASSUME NEW s \in always, Asked(s)
       PROVE  s \in query.raw \/ \E q \in query.rollups : s \in Covered(q)
  <2>1. s \in tsdata /\ s \in ever /\ s.ts_uuid = id /\ InRange(s.ts, w)
    BY <1>1, <1>10 DEF Asked
  <2>2. CASE \E r \in Ranges : InRange(s.ts, r)
    <3>1. PICK r \in Ranges \ query.todo : InRange(s.ts, r)
      BY <1>6, <2>2
    <3> QED BY <1>1, <2>1, <3>1 DEF RawBracketed
  <2>3. CASE InRollupRange(Truncate(s.ts, len), w[1], w[2], len)
    <3>1. PICK q \in Rollups(p) : s \in Covered(q)
      BY <1>2, <1>3, <2>1, RowsStand DEF Covered
    <3>2. q.ts_uuid = id /\ Truncate(s.ts, len) = q.bucket_ts
      BY <1>7, <2>1, <3>1
    <3> QED BY <1>5, <2>3, <3>1, <3>2
  <2> QED BY <1>4, <2>1, <2>2, <2>3
<1>11. query.rollups \in SUBSET Rollups(query.precision)
  BY <1>5
<1> QED BY <1>8, <1>9, <1>10, <1>11

(* What QueryBracketed says of a bucket of the answer.                     *)
Between(a, b) ==
    /\ a.count >= Cardinality(InBucket(b, always))
    /\ query.precision = "hour" => a.count <= Cardinality(InBucket(b, ever))
    /\ \A r \in InBucket(b, always) : a.min <= r.value /\ r.value <= a.max
    /\ {a.min, a.max} \subseteq {r.value : r \in InBucket(b, ever)}

(* Each bucket of a finished query is between the two.                     *)
LEMMA BucketBracketed ==
    ASSUME QueryInv, query.pc = "done", NEW b,
           NEW S, S = {s \in query.raw : BucketOf(s.ts) = b},
           NEW R, R = {q \in query.rollups : BucketOf(q.bucket_ts) = b},
           S # {} \/ R # {}
    PROVE  Between(Aggregate(b, S, R), b)
<1> DEFINE a == Aggregate(b, S, R)
           stayed == InBucket(b, always)
           seen == InBucket(b, ever)
           p == query.precision
           P == [q \in R |-> Covered(q)]
           all == UNION {P[q] : q \in R}
           mins == {s.value : s \in S} \cup {q.sample_min : q \in R}
           maxs == {s.value : s \in S} \cup {q.sample_max : q \in R}
<1>1. /\ QueryShape /\ Tables /\ p \in Precisions
      /\ always \subseteq tsdata /\ tsdata \subseteq ever /\ ever \in SUBSET Sample
      /\ IsFiniteSet(ever) /\ IsFiniteSet(query.raw)
  BY DEF QueryInv, Observed, QueryShape
<1>2. /\ query.raw \in SUBSET ever /\ query.rollups \in SUBSET Rollups(p)
      /\ \A s \in query.raw :
            Asked(s) /\ ~\E q \in query.rollups : Truncate(s.ts, RollupLen(p)) = q.bucket_ts
      /\ \A q \in query.rollups : \A s \in Covered(q) :
            Asked(s) /\ s \in ever /\ BucketOf(s.ts) = BucketOf(q.bucket_ts)
      /\ \A s \in always :
            Asked(s) => s \in query.raw \/ \E q \in query.rollups : s \in Covered(q)
  BY FinishedSources
<1>3. /\ IsFiniteSet(Rollups(p))
      /\ \A q \in Rollups(p) : Stands(q, RollupLen(p))
  BY <1>1, RowsStand
<1>4. /\ \A r : r \in stayed <=> r \in always /\ Asked(r) /\ BucketOf(r.ts) = b
      /\ \A r : r \in seen <=> r \in ever /\ Asked(r) /\ BucketOf(r.ts) = b
  BY DEF InBucket, Asked, BucketOf
<1>5. /\ IsFiniteSet(S) /\ IsFiniteSet(R) /\ S \in SUBSET Sample
      /\ IsFiniteSet(seen) /\ IsFiniteSet(stayed)
  <2>1. S \in SUBSET query.raw /\ R \in SUBSET Rollups(p) /\ seen \in SUBSET ever
        /\ stayed \in SUBSET ever
    BY <1>1, <1>2, <1>4
  <2>2. S \in SUBSET Sample
    BY <1>1, <1>2, <2>1
  <2> HIDE DEF seen, stayed
  <2> QED BY <1>1, <1>3, <2>1, <2>2, FS_Subset
<1>6. ASSUME NEW q \in R
      PROVE  /\ q.sample_count \in Nat /\ IsFiniteSet(Covered(q))
             /\ Cardinality(Covered(q)) <= q.sample_count
             /\ q.sample_min \in Values /\ q.sample_max \in Values
             /\ \E s \in Covered(q) : s.value = q.sample_min
             /\ \E s \in Covered(q) : s.value = q.sample_max
             /\ \A s \in Covered(q) : q.sample_min <= s.value /\ s.value <= q.sample_max
             /\ Covered(q) \subseteq seen
  <2>1. Stands(q, RollupLen(p))
    BY <1>2, <1>3
  <2>2. q \in query.rollups /\ BucketOf(q.bucket_ts) = b
    OBVIOUS
  <2>3. Covered(q) \subseteq seen
    BY <1>2, <1>4, <2>2
  <2> QED BY <2>1, <2>3 DEF Stands, Covered
<1>7. S \subseteq seen
  BY <1>2, <1>4
<1>8. \A r \in stayed : r \in S \/ \E q \in R : r \in Covered(q)
  <2> TAKE r \in stayed
  <2>1. r \in always /\ Asked(r) /\ BucketOf(r.ts) = b
    BY <1>4
  <2>2. r \in query.raw => r \in S
    BY <2>1
  <2>3. \A q \in query.rollups : r \in Covered(q) => q \in R
    BY <1>2, <2>1
  <2> QED BY <1>2, <2>1, <2>2, <2>3
<1>9. /\ a.count = Cardinality(S) + SUM("sample_count", R)
      /\ a.min = Min(mins) /\ a.max = Max(maxs)
  BY DEF Aggregate
<1>10. a.count >= Cardinality(stayed)
  <2>1. DOMAIN P = R
    OBVIOUS
  <2>2. \A q \in R : /\ IsFiniteSet(P[q]) /\ q["sample_count"] \in Nat
                     /\ Cardinality(P[q]) <= q["sample_count"]
    BY <1>6
  <2>3. stayed \subseteq S \cup all
    BY <1>8
  <2> HIDE DEF P, stayed
  <2>4. /\ IsFiniteSet(all) /\ SUM("sample_count", R) \in Nat
        /\ Cardinality(all) <= SUM("sample_count", R)
    BY <1>5, <2>1, <2>2, CountsCover
  <2> HIDE DEF all
  <2>5. /\ IsFiniteSet(S \cup all) /\ Cardinality(S) \in Nat /\ Cardinality(all) \in Nat
        /\ Cardinality(stayed) \in Nat /\ Cardinality(S \cup all) \in Nat
        /\ Cardinality(S \cap all) \in Nat
        /\ Cardinality(S \cup all) = Cardinality(S) + Cardinality(all) - Cardinality(S \cap all)
    <3>1. IsFiniteSet(S \cap all) /\ IsFiniteSet(S \cup all)
      BY <1>5, <2>4, FS_Subset, FS_Union
    <3> QED BY <1>5, <2>4, <3>1, FS_Union, FS_CardinalityType
  <2>6. Cardinality(stayed) <= Cardinality(S \cup all)
    BY <2>3, <2>5, FS_Subset
  <2> HIDE DEF a
  <2> QED BY <1>9, <2>4, <2>5, <2>6
<1>11. ASSUME p = "hour" PROVE a.count <= Cardinality(seen)
  <2>1. RollupLen(p) = HourLen /\ BucketLen(p) = HourLen /\ Rollups(p) = hourly
    BY <1>11 DEF RollupLen, BucketLen, Rollups
  <2>2. Cardinality(S) \in Nat /\ Cardinality(seen) \in Nat
    BY <1>5, FS_CardinalityType
  <2>3. CASE R = {}
    <3>1. SUM("sample_count", R) = 0
      BY <2>3, SumOfNone
    <3>2. Cardinality(S) <= Cardinality(seen)
      BY <1>5, <1>7, FS_Subset
    <3> QED BY <1>9, <2>2, <3>1, <3>2
  <2>4. CASE R # {}
    <3>1. PICK q \in R : TRUE
      BY <2>4
    <3>2. ASSUME NEW h \in R
          PROVE  /\ h = HourRow(<<query.id, b>>, tsdata) /\ h.bucket_ts = b
                 /\ h.sample_count = Cardinality(Covered(h))
      <4>1. h \in hourly /\ h \in query.rollups /\ Truncate(h.bucket_ts, HourLen) = b
        BY <1>2, <2>1 DEF BucketOf
      <4>2. /\ h.sample_count = Cardinality(Covered(h))
            /\ RollupKey(h) \in HourKeys(tsdata) /\ h = HourRow(RollupKey(h), tsdata)
        BY <1>1, <2>1, <4>1, HourStands DEF Covered
      <4>3. PICK s \in tsdata : RollupKey(h) = HourKey(s)
        BY <4>2 DEF HourKeys
      <4>4. h.bucket_ts = Hour(s.ts) /\ s.ts \in Times
        BY <1>1, <4>3, SampleFacts DEF RollupKey, HourKey
      <4>5. h.bucket_ts = b
        BY <4>1, <4>4, HourOfHour
      <4>6. h.ts_uuid = query.id
        BY <4>1 DEF QueryInv, Observed, RollupsRead, GetTsRollupRange
      <4>7. RollupKey(h) = <<query.id, b>>
        BY <4>5, <4>6 DEF RollupKey
      <4> QED BY <4>2, <4>5, <4>7
    <3>3. R = {q}
      BY <3>2
    <3>4. S = {}
      <4> SUFFICES ASSUME NEW s \in S PROVE FALSE
        OBVIOUS
      <4>1. s \in query.raw /\ Truncate(s.ts, HourLen) = b
        BY <2>1 DEF BucketOf
      <4>2. q \in query.rollups /\ q.bucket_ts = b
        BY <3>2
      <4> QED BY <1>2, <2>1, <4>1, <4>2
    <3>5. q.sample_count = Cardinality(Covered(q)) /\ q["sample_count"] \in Int
      BY <1>6, <3>2
    <3>6. SUM("sample_count", R) = q["sample_count"]
      BY <3>3, <3>5, SumOfOne
    <3>7. Cardinality(S) = 0
      BY <3>4, FS_EmptySet
    <3>8. Cardinality(Covered(q)) <= Cardinality(seen)
      BY <1>5, <1>6, FS_Subset
    <3> QED BY <1>9, <2>2, <3>5, <3>6, <3>7, <3>8
  <2> QED BY <2>3, <2>4
<1>12. /\ mins \in SUBSET Values /\ mins # {}
       /\ maxs \in SUBSET Values /\ maxs # {}
  <2>1. \A s \in S : s.value \in Values
    BY <1>5, SampleType
  <2>2. \A q \in R : q.sample_min \in Values /\ q.sample_max \in Values
    BY <1>6
  <2> QED BY <2>1, <2>2
<1>13. /\ Min(mins) \in mins /\ \A v \in mins : Min(mins) <= v
       /\ Max(maxs) \in maxs /\ \A v \in maxs : Max(maxs) >= v
  BY <1>12, MinFacts, MaxFacts
<1>14. /\ \A s \in S : s.value \in mins /\ s.value \in maxs
       /\ \A q \in R : q.sample_min \in mins /\ q.sample_max \in maxs
       /\ \A v \in mins : (\E s \in S : v = s.value) \/ (\E q \in R : v = q.sample_min)
       /\ \A v \in maxs : (\E s \in S : v = s.value) \/ (\E q \in R : v = q.sample_max)
  OBVIOUS
<1>15. \A v \in Values : v \in Int
  BY ConstantsAssumption DEF Values
<1> HIDE DEF a, mins, maxs, seen, stayed, P, all
<1>16. ASSUME NEW r \in stayed PROVE a.min <= r.value /\ r.value <= a.max
  <2>1. r.value \in Int
    <3>1. r \in Sample
      BY <1>1, <1>4
    <3> QED BY <3>1, SampleType
  <2>2. CASE r \in S
    BY <1>9, <1>12, <1>13, <1>14, <1>15, <2>1, <2>2
  <2>3. CASE \E q \in R : r \in Covered(q)
    <3>1. PICK q \in R : r \in Covered(q)
      BY <2>3
    <3>2. q.sample_min <= r.value /\ r.value <= q.sample_max
      BY <1>6, <3>1
    <3>3. a.min <= q.sample_min /\ q.sample_max <= a.max
      BY <1>9, <1>12, <1>13, <1>14, <1>15
    <3>4. a.min \in Int /\ a.max \in Int /\ q.sample_min \in Int /\ q.sample_max \in Int
      BY <1>9, <1>12, <1>13, <1>14, <1>15
    <3> QED BY <2>1, <3>2, <3>3, <3>4
  <2> QED BY <1>8, <2>2, <2>3
<1>17. {a.min, a.max} \subseteq {r.value : r \in seen}
  <2>1. \A s \in S : s.value \in {r.value : r \in seen}
    BY <1>7
  <2>2. \A q \in R : /\ q.sample_min \in {r.value : r \in seen}
                     /\ q.sample_max \in {r.value : r \in seen}
    BY <1>6
  <2> QED BY <1>9, <1>13, <1>14, <2>1, <2>2
<1>18. Between(a, b)
  BY <1>10, <1>11, <1>16, <1>17 DEF Between, seen, stayed
<1> QED BY <1>18 DEF a

(* The invariant gives the answer's bounds.                                *)
LEMMA Bracketed == QueryInv => QueryBracketed
<1> SUFFICES ASSUME QueryInv, query.pc = "done"
             PROVE  /\ \A r \in always :
                          r.ts_uuid = query.id /\ InRange(r.ts, query.window) =>
                              \E a \in Answer : a.ts = BucketOf(r.ts)
                    /\ \A a \in Answer : Between(a, a.ts)
  BY DEF QueryBracketed, BucketOf, Between
<1> DEFINE S(b) == {s \in query.raw : BucketOf(s.ts) = b}
           R(b) == {q \in query.rollups : BucketOf(q.bucket_ts) = b}
<1>1. \A b : Aggregate(b, S(b), R(b)).ts = b
  BY DEF Aggregate
<1>2. \A a : a \in Answer <=> \E b : (S(b) # {} \/ R(b) # {}) /\ a = Aggregate(b, S(b), R(b))
  <2> DEFINE len == BucketLen(query.precision)
             B == SourceBuckets(query.raw, query.rollups, len)
  <2>1. \A b : /\ S(b) = SamplesIn(b, query.raw, len)
               /\ R(b) = RowsIn(b, query.rollups, len)
    BY DEF SamplesIn, RowsIn, BucketOf
  <2>2. ASSUME NEW b
        PROVE  /\ b \in B <=> S(b) # {} \/ R(b) # {}
               /\ accumulateAggregateBucket(b, query.raw, query.rollups, len)
                      = Aggregate(b, S(b), R(b))
    <3>1. /\ accumulateAggregateBucket(b, query.raw, query.rollups, len)
                 = Aggregate(b, SamplesIn(b, query.raw, len), RowsIn(b, query.rollups, len))
          /\ b \in B <=> \/ SamplesIn(b, query.raw, len) # {}
                         \/ RowsIn(b, query.rollups, len) # {}
      BY AggregateOf
    <3> HIDE DEF S, R, B, len
    <3> QED BY <2>1, <3>1
  <2>3. Answer = {accumulateAggregateBucket(b, query.raw, query.rollups, len) : b \in B}
    BY DEF Answer, aggregateFromSources
  <2> HIDE DEF S, R, B
  <2> QED BY <2>2, <2>3
<1>3. ASSUME NEW r \in always, r.ts_uuid = query.id, InRange(r.ts, query.window)
      PROVE  \E a \in Answer : a.ts = BucketOf(r.ts)
  <2> DEFINE b == BucketOf(r.ts)
  <2>1. r \in query.raw \/ \E q \in query.rollups : r \in Covered(q)
    BY <1>3, FinishedSources DEF Asked
  <2>2. \A q \in query.rollups : r \in Covered(q) => BucketOf(q.bucket_ts) = b
    BY FinishedSources
  <2>3. S(b) # {} \/ R(b) # {}
    BY <2>1, <2>2
  <2> HIDE DEF S, R, b
  <2>4. Aggregate(b, S(b), R(b)) \in Answer
    BY <1>2, <2>3
  <2> QED BY <1>1, <2>4 DEF b
<1>4. ASSUME NEW a \in Answer PROVE Between(a, a.ts)
  <2>1. PICK b : (S(b) # {} \/ R(b) # {}) /\ a = Aggregate(b, S(b), R(b))
    BY <1>2
  <2>2. a.ts = b
    BY <1>1, <2>1
  <2>3. Between(Aggregate(b, S(b), R(b)), b)
    BY <2>1, BucketBracketed
  <2> QED BY <2>1, <2>2, <2>3
<1> QED BY <1>3, <1>4

(* A query that runs while samples are written answers with every sample   *)
(* that stayed, and by the hour with none that was never there.            *)
THEOREM AnswersAreBracketed == Spec => []QueryBracketed
  BY Bracketed, QueryInvariant, PTL
=============================================================================
