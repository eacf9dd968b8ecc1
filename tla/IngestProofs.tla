---------------------------- MODULE IngestProofs -----------------------------
(***************************************************************************)
(* Proofs about the MQTT ingester.                                         *)
(*                                                                         *)
(* The safety of the pipeline rests on two facts.  A point is in one place *)
(* (Apart): no two callbacks, channels, workers or batches share one, so a *)
(* step that hands points on takes them from where they were.  And every   *)
(* step either accepts points or settles some (StepEffect): what leaves    *)
(* the pipeline is stored, is a repetition of a row, or is excused.  The   *)
(* contract, the invariant on losses and the counters follow.              *)
(*                                                                         *)
(* The agreement of the matchers is a fact about the patterns alone: both  *)
(* matchers are compared position by position.                             *)
(***************************************************************************)
EXTENDS Ingest, FiniteSetTheorems, WellFoundedInduction, TLAPS

-----------------------------------------------------------------------------
(***************************************************************************)
(* Sequences.                                                              *)
(***************************************************************************)

(* The last place of a sequence that is not empty.                         *)
LEMMA LastInRange == \A k \in Nat : k > 0 => k \in 1 .. k
  OBVIOUS

(* The shape of a sequence.                                                *)
LEMMA SeqFacts ==
    ASSUME NEW S, NEW s \in Seq(S)
    PROVE  Len(s) \in Nat /\ DOMAIN s = 1 .. Len(s) /\ \A i \in 1 .. Len(s) : s[i] \in S
  OBVIOUS

(* What lies in a queue before and after it takes another element.         *)
LEMMA AppendFacts ==
    ASSUME NEW S, NEW s \in Seq(S), NEW e \in S
    PROVE  /\ Append(s, e) \in Seq(S)
           /\ Len(Append(s, e)) = Len(s) + 1
           /\ ToSet(Append(s, e)) = ToSet(s) \cup {e}
<1>1. /\ Append(s, e) \in Seq(S)
      /\ Len(Append(s, e)) = Len(s) + 1
  OBVIOUS
<1>2. ASSUME NEW x \in ToSet(Append(s, e)) PROVE x \in ToSet(s) \cup {e}
  BY DEF ToSet
<1>3. ASSUME NEW x \in ToSet(s) PROVE x \in ToSet(Append(s, e))
  BY DEF ToSet
<1>4. e \in ToSet(Append(s, e))
  <2>1. Len(s) + 1 \in DOMAIN Append(s, e) /\ Append(s, e)[Len(s) + 1] = e
    OBVIOUS
  <2> QED BY <2>1 DEF ToSet
<1> QED BY <1>1, <1>2, <1>3, <1>4

\* No element twice.
Once(s) == \A i, j \in DOMAIN s : s[i] = s[j] => i = j

(* What lies in a queue before and after its head is taken.                *)
LEMMA TailFacts ==
    ASSUME NEW S, NEW s \in Seq(S), s # <<>>
    PROVE  /\ Head(s) \in S /\ Tail(s) \in Seq(S)
           /\ Len(Tail(s)) = Len(s) - 1
           /\ ToSet(s) = ToSet(Tail(s)) \cup {Head(s)}
<1>1. /\ Head(s) \in S /\ Tail(s) \in Seq(S)
      /\ Len(Tail(s)) = Len(s) - 1
      /\ Head(s) = s[1]
      /\ \A i \in 1 .. Len(s) - 1 : Tail(s)[i] = s[i+1]
      /\ DOMAIN s = 1 .. Len(s) /\ DOMAIN Tail(s) = 1 .. Len(s) - 1
      /\ Len(s) \in Nat /\ Len(s) > 0
  OBVIOUS
<1>2. ASSUME NEW x \in ToSet(s) PROVE x \in ToSet(Tail(s)) \cup {Head(s)}
  <2>1. PICK i \in 1 .. Len(s) : x = s[i]
    BY <1>1 DEF ToSet
  <2>2. CASE i # 1
    <3>1. i - 1 \in 1 .. Len(s) - 1 /\ (i - 1) + 1 = i
      BY <1>1, <2>2
    <3>2. Tail(s)[i-1] = x
      BY <1>1, <2>1, <3>1
    <3> QED BY <1>1, <3>1, <3>2 DEF ToSet
  <2> QED BY <1>1, <2>1, <2>2
<1>3. ASSUME NEW x \in ToSet(Tail(s)) PROVE x \in ToSet(s)
  <2>1. PICK i \in 1 .. Len(s) - 1 : x = s[i + 1]
    BY <1>1 DEF ToSet
  <2>2. i + 1 \in 1 .. Len(s)
    BY <1>1
  <2> QED BY <1>1, <2>1, <2>2 DEF ToSet
<1>4. Head(s) \in ToSet(s)
  BY <1>1 DEF ToSet
<1> QED BY <1>1, <1>2, <1>3, <1>4

(* A queue stays free of repetitions.                                      *)
LEMMA OnceFacts ==
    ASSUME NEW S, NEW s \in Seq(S), Once(s)
    PROVE  /\ s # <<>> => Once(Tail(s)) /\ Head(s) \notin ToSet(Tail(s))
           /\ \A e \in S : e \notin ToSet(s) => Once(Append(s, e))
<1>1. ASSUME s # <<>> PROVE Once(Tail(s)) /\ Head(s) \notin ToSet(Tail(s))
  <2>1. /\ Head(s) = s[1] /\ 1 \in DOMAIN s
        /\ \A i \in DOMAIN Tail(s) : Tail(s)[i] = s[i+1] /\ i + 1 \in DOMAIN s /\ i \in Nat /\ i > 0
    BY <1>1
  <2> QED BY <2>1 DEF Once, ToSet
<1>2. ASSUME NEW e \in S, e \notin ToSet(s) PROVE Once(Append(s, e))
  <2>1. /\ DOMAIN Append(s, e) = DOMAIN s \cup {Len(s) + 1}
        /\ Append(s, e)[Len(s) + 1] = e
        /\ \A i \in DOMAIN s : Append(s, e)[i] = s[i] /\ s[i] # e
    BY <1>2 DEF ToSet
  <2> QED BY <2>1 DEF Once
<1> QED BY <1>1, <1>2

-----------------------------------------------------------------------------
(***************************************************************************)
(* Matchers.                                                               *)
(***************************************************************************)

(* Among some positions there is a first one.                              *)
LEMMA FirstPosition ==
    ASSUME NEW S \in SUBSET Nat, S # {}
    PROVE  \E x \in S : \A y \in S : x <= y
<1> DEFINE R == OpToRel(<, Nat)
<1>1. IsWellFoundedOn(R, Nat)
  BY NatLessThanWellFounded
<1>2. \A x, y \in Nat : <<y, x>> \in R <=> y < x
  BY DEF OpToRel
<1> HIDE DEF R
<1>3. PICK x \in S : \A y \in S : ~(<<y, x>> \in R)
  BY <1>1, WFMin
<1>4. ASSUME NEW y \in S PROVE x <= y
  <2>1. x \in Nat /\ y \in Nat /\ ~(y < x)
    BY <1>2, <1>3
  <2> QED BY <2>1
<1> QED BY <1>4

(* The same by the positions of a pattern of n segments and a topic of m:  *)
(* Hash are those of "#", Fits those whose segment the topic fits.         *)
ByLoop(n, m, Hash, stops) ==
    IF stops = {} THEN m = n
                  ELSE \E i \in stops : (\A j \in stops : i <= j) /\ i \in Hash

ByFilter(n, m, Hash, Fits) ==
    IF n \in Hash THEN m >= n - 1 /\ \A i \in 1 .. n - 1 : i \in Fits
                  ELSE m = n /\ \A i \in 1 .. n : i \in Fits

(* The first position at which the loop returns decides as the rule for    *)
(* filters does.                                                           *)
LEMMA MatcherByPositions ==
    ASSUME NEW n \in Nat, NEW m \in Nat, NEW Hash, NEW Fits, NEW stops,
           Hash \subseteq {n} \cap 1 .. n,
           stops = {i \in 1 .. n : i \in Hash \/ i > m \/ i \notin Fits}
    PROVE  ByLoop(n, m, Hash, stops) <=> ByFilter(n, m, Hash, Fits)
<1>1. CASE stops = {}
  <2>1. n \notin Hash /\ \A i \in 1 .. n : i \in Fits
    BY <1>1
  <2> QED BY <1>1, <2>1 DEF ByLoop, ByFilter
<1>2. CASE stops # {}
  <2>1. PICK k \in stops : \A j \in stops : k <= j
    <3>1. stops \in SUBSET Nat
      OBVIOUS
    <3> QED BY <1>2, <3>1, FirstPosition
  <2>2. k \in 1 .. n /\ (k \in Hash \/ k > m \/ k \notin Fits)
    OBVIOUS
  <2>3. (\E i \in stops : (\A j \in stops : i <= j) /\ i \in Hash) <=> k \in Hash
    <3>1. ASSUME NEW i \in stops, \A j \in stops : i <= j PROVE i = k
      <4>1. i <= k /\ k <= i /\ i \in Nat /\ k \in Nat
        BY <2>1, <3>1
      <4> QED BY <4>1
    <3> QED BY <2>1, <3>1
  <2>4. ASSUME k \in Hash
        PROVE  n \in Hash /\ m >= n - 1 /\ \A i \in 1 .. n - 1 : i \in Fits
    <3>1. k = n /\ n > 0
      BY <2>2, <2>4
    <3>2. ASSUME NEW i \in 1 .. n - 1 PROVE i <= m /\ i \in Fits
      <4>1. i \in 1 .. n /\ ~(k <= i)
        BY <3>1
      <4>2. i \notin stops
        BY <2>1, <4>1
      <4> QED BY <4>1, <4>2
    <3>3. m >= n - 1
      <4>1. CASE n - 1 \in 1 .. n - 1
        BY <3>2, <4>1
      <4>2. CASE n - 1 \notin 1 .. n - 1
        BY <3>1, <4>2
      <4> QED BY <4>1, <4>2
    <3> QED BY <2>4, <3>1, <3>2, <3>3
  <2>5. ASSUME k \notin Hash
        PROVE  ~ByFilter(n, m, Hash, Fits)
    <3>1. CASE n \in Hash
      <4>1. k \in 1 .. n - 1
        BY <2>2, <2>5, <3>1
      <4> QED BY <2>2, <2>5, <3>1, <4>1 DEF ByFilter
    <3>2. CASE n \notin Hash
      BY <2>2, <2>5, <3>2 DEF ByFilter
    <3> QED BY <3>1, <3>2
  <2> QED BY <1>2, <2>3, <2>4, <2>5 DEF ByLoop, ByFilter
<1> QED BY <1>1, <1>2

(* The loop of wildcardMatcher accepts just the topics whose levels fit.   *)
LEMMA FilterMatcherAgrees ==
    ASSUME NEW p \in Seq(STRING), NEW t \in Seq(STRING), ValidFilter(p)
    PROVE  WildcardMatch(p, t) <=> LevelsAccept(p, t)
<1> DEFINE n    == Len(p)
           m    == Len(t)
           Hash == {i \in 1 .. n : p[i] = "#"}
           Fits == {i \in 1 .. n : p[i] \in {"+", t[i]}}
           stops == Returns(p, t)
<1>1. /\ n \in Nat /\ m \in Nat /\ DOMAIN p = 1 .. n
      /\ Hash \subseteq {n} \cap 1 .. n
  BY DEF ValidFilter
<1>2. stops = {i \in 1 .. n : i \in Hash \/ i > m \/ i \notin Fits}
  BY <1>1 DEF Returns
<1>3. WildcardMatch(p, t) <=> ByLoop(n, m, Hash, stops)
  <2>1. \A i \in stops : p[i] = "#" <=> i \in Hash
    BY <1>1, <1>2
  <2> HIDE DEF Hash
  <2> QED BY <2>1 DEF WildcardMatch, ByLoop
<1>4. LevelsAccept(p, t) <=> ByFilter(n, m, Hash, Fits)
  <2>1. n > 0 /\ p[n] = "#" <=> n \in Hash
    BY <1>1
  <2>2. \A i \in 1 .. n : p[i] \in {"+", t[i]} <=> i \in Fits
    OBVIOUS
  <2>3. \A i \in 1 .. n - 1 : i \in 1 .. n
    BY <1>1
  <2> HIDE DEF Hash, Fits
  <2> QED BY <2>1, <2>2, <2>3 DEF LevelsAccept, ByFilter
<1> HIDE DEF n, m, Hash, Fits, stops
<1>5. ByLoop(n, m, Hash, stops) <=> ByFilter(n, m, Hash, Fits)
  BY <1>1, <1>2, MatcherByPositions
<1> QED BY <1>3, <1>4, <1>5, Zenon

(* The filter of an expression has a "+" for every class.                  *)
LEMMA DerivedFilter ==
    ASSUME NEW p \in Seq(STRING)
    PROVE  /\ Len(deriveSubscriptionTopicFromRegex(p)) = Len(p)
           /\ \A i \in 1 .. Len(p) :
                deriveSubscriptionTopicFromRegex(p)[i]
                  = IF p[i] \in {AnyWord, AnyText} THEN "+" ELSE p[i]
<1> DEFINE n == Len(p)
           f == deriveSubscriptionTopicFromRegex(p)
           S == {f[i] : i \in 1 .. n}
<1>1. n \in Nat
  OBVIOUS
<1>2. f = [i \in 1 .. n |-> IF p[i] \in {AnyWord, AnyText} THEN "+" ELSE p[i]]
  BY DEF deriveSubscriptionTopicFromRegex
<1>3. \A i \in 1 .. n : f[i] = IF p[i] \in {AnyWord, AnyText} THEN "+" ELSE p[i]
  BY <1>2, Zenon
<1>4. f = [i \in 1 .. n |-> f[i]]
  BY <1>2, Zenon
<1> HIDE DEF n, f
<1>5. f \in [1 .. n -> S]
  BY <1>4
<1> HIDE DEF S
<1>6. Len(f) = n
  BY <1>1, <1>5
<1> QED BY <1>3, <1>6 DEF n, f

(* What an expression matches fits its subscription.                       *)
LEMMA ExpressionIsSubscribed ==
    ASSUME NEW p \in Seq(STRING), NEW t \in Seq(STRING), RegexMatch(p, t)
    PROVE  LevelsAccept(deriveSubscriptionTopicFromRegex(p), t)
<1> DEFINE f == deriveSubscriptionTopicFromRegex(p)
           n == Len(p)
<1>1. n \in Nat /\ Len(f) = n /\ DOMAIN p = 1 .. n
  BY DerivedFilter
<1>2. Len(t) = n
  BY Zenon DEF RegexMatch
<1>3. \A i \in 1 .. n : f[i] \in {"+", t[i]}
  <2> SUFFICES ASSUME NEW i \in 1 .. n PROVE f[i] \in {"+", t[i]}
    OBVIOUS
  <2>1. f[i] = IF p[i] \in {AnyWord, AnyText} THEN "+" ELSE p[i]
    BY DerivedFilter
  <2>2. p[i] \in {AnyWord, AnyText} \/ p[i] = t[i]
    BY <1>1, Zenon DEF RegexMatch
  <2> HIDE DEF f
  <2> QED BY <2>1, <2>2, Zenon
<1>4. \A i \in 1 .. n - 1 : i \in 1 .. n
  BY <1>1
<1>5. \A k \in {n, n - 1} : \A i \in 1 .. k : f[i] \in {"+", t[i]}
  BY <1>3, <1>4, Zenon
<1> HIDE DEF f, n
<1> QED BY <1>1, <1>2, <1>5 DEF LevelsAccept, f, n

(* What fits the subscription of an expression, the expression matches,    *)
(* but for empty levels and a literal "#".                                 *)
LEMMA SubscriptionIsMatched ==
    ASSUME NEW p \in Seq(STRING), NEW t \in Seq(STRING),
           \A i \in DOMAIN p : p[i] # "+" /\ p[i] # "#",
           \A i \in DOMAIN t : t[i] # "",
           LevelsAccept(deriveSubscriptionTopicFromRegex(p), t)
    PROVE  RegexMatch(p, t)
<1> DEFINE f == deriveSubscriptionTopicFromRegex(p)
           n == Len(p)
<1>1. n \in Nat /\ Len(f) = n /\ DOMAIN p = 1 .. n /\ DOMAIN t = 1 .. Len(t)
  BY DerivedFilter, SeqFacts, Zenon
<1>2. \A i \in 1 .. n : f[i] = IF p[i] \in {AnyWord, AnyText} THEN "+" ELSE p[i]
  BY DerivedFilter
<1>3. n \in 1 .. n => f[n] # "#"
  <2> SUFFICES ASSUME n \in 1 .. n PROVE f[n] # "#"
    OBVIOUS
  <2>1. f[n] = "+" \/ f[n] = p[n]
    BY <1>2, Zenon
  <2>2. p[n] # "#"
    <3>1. n \in DOMAIN p
      BY <1>1, Zenon
    <3> QED BY <3>1, Zenon
  <2>3. "+" # "#"
    OBVIOUS
  <2> HIDE DEF f
  <2> QED BY <2>1, <2>2, <2>3, Zenon
<1>4. ~(n > 0 /\ f[n] = "#")
  <2>1. n > 0 => n \in 1 .. n
    BY <1>1, LastInRange, Zenon
  <2> QED BY <1>3, <2>1, Zenon
<1> HIDE DEF f, n
<1>5. Len(t) = n /\ \A i \in 1 .. n : f[i] \in {"+", t[i]}
  BY <1>1, <1>4 DEF LevelsAccept, f
<1>6. ASSUME NEW i \in 1 .. n
      PROVE  p[i] = AnyText \/ (p[i] = AnyWord /\ t[i] # "") \/ p[i] = t[i]
  <2>1. i \in DOMAIN p /\ i \in DOMAIN t
    BY <1>1, <1>5, Zenon
  <2>2. f[i] = (IF p[i] \in {AnyWord, AnyText} THEN "+" ELSE p[i]) /\ f[i] \in {"+", t[i]}
    BY <1>2, <1>5, Zenon
  <2>3. t[i] # "" /\ p[i] # "+"
    BY <2>1, Zenon
  <2> QED BY <2>2, <2>3, Zenon
<1> QED BY <1>1, <1>5, <1>6, Zenon DEF RegexMatch, n

-----------------------------------------------------------------------------
(***************************************************************************)
(* Points.                                                                 *)
(***************************************************************************)

(* The points of a message, one by one.                                    *)
LEMMA TransformPoints ==
    ASSUME NEW m \in Messages, NEW r \in DOMAIN Routes, NEW d
    PROVE  /\ DOMAIN Target[m][r] = DOMAIN Transform(m, d, r)
           /\ \E n \in Nat : Transform(m, d, r) = [k \in 1 .. n |-> Transform(m, d, r)[k]]
           /\ \A k \in DOMAIN Transform(m, d, r) :
                /\ Transform(m, d, r)[k].src = <<d, r, k>>
                /\ Key(Transform(m, d, r)[k]) = <<Target[m][r][k], Timestamp(r, m, d, k)>>
<1> DEFINE n == IF Transforms(r, m) THEN Len(m.samples) ELSE 0
           P(k) == [series |-> Target[m][r][k],
                    ts     |-> Timestamp(r, m, d, k),
                    value  |-> m.samples[k].value,
                    src    |-> <<d, r, k>>]
<1>1. n \in Nat
  <2>1. Len(m.samples) \in Nat
    BY IngestAssumption, SeqFacts, Zenon
  <2> QED BY <2>1
<1>2. Target[m][r] = [k \in 1 .. n |-> SeriesAt(r, m, k)]
  BY Zenon DEF Target
<1>3. DOMAIN Target[m][r] = 1 .. n
  BY <1>2, Zenon
<1>4. Transform(m, d, r) = [k \in 1 .. n |-> P(k)]
  BY <1>3, Zenon DEF Transform
<1>5. \A k : P(k).src = <<d, r, k>> /\ Key(P(k)) = <<Target[m][r][k], Timestamp(r, m, d, k)>>
  BY Zenon DEF Key
<1> HIDE DEF n, P
<1>6. /\ DOMAIN Transform(m, d, r) = 1 .. n
      /\ \A k \in 1 .. n : Transform(m, d, r)[k] = P(k)
  BY <1>4, Zenon
<1>7. Transform(m, d, r) = [k \in 1 .. n |-> Transform(m, d, r)[k]]
  BY <1>4, <1>6, Zenon
<1> QED BY <1>1, <1>3, <1>5, <1>6, <1>7, Zenon

(* Every point a message is transformed to tells where it comes from.      *)
LEMMA TransformFacts ==
    ASSUME NEW m \in Messages, NEW d, NEW r \in DOMAIN Routes
    PROVE  /\ Transform(m, d, r) \in Seq(ToSet(Transform(m, d, r)))
           /\ \A k \in DOMAIN Transform(m, d, r) : Transform(m, d, r)[k].src = <<d, r, k>>
           /\ Once(Transform(m, d, r))
<1> DEFINE f == Transform(m, d, r)
<1>1. PICK n \in Nat : f = [k \in 1 .. n |-> f[k]]
  BY TransformPoints, Zenon
<1>2. \A k \in DOMAIN f : f[k].src = <<d, r, k>>
  BY TransformPoints, Zenon
<1> HIDE DEF f
<1>3. DOMAIN f = 1 .. n
  BY <1>1
<1>4. f \in [1 .. n -> ToSet(f)]
  BY <1>1, <1>3 DEF ToSet
<1>5. f \in Seq(ToSet(f))
  BY <1>4
<1>6. Once(f)
  BY <1>2, <1>3 DEF Once
<1> QED BY <1>2, <1>5, <1>6 DEF f

LogType == log \in Seq([msg : Messages, routes : SUBSET DOMAIN Routes])

(* An entry of the log.                                                    *)
LEMMA LogEntry ==
    ASSUME LogType, NEW d \in DOMAIN log
    PROVE  /\ d \in Nat /\ d <= Len(log)
           /\ log[d].msg \in Messages /\ log[d].routes \subseteq DOMAIN Routes
<1> DEFINE R == [msg : Messages, routes : SUBSET DOMAIN Routes]
<1>1. Len(log) \in Nat /\ DOMAIN log = 1 .. Len(log) /\ \A i \in 1 .. Len(log) : log[i] \in R
  BY SeqFacts, Zenon DEF LogType
<1>2. log[d] \in R /\ d \in 1 .. Len(log)
  BY <1>1, Zenon
<1>3. \A e \in R : e.msg \in Messages /\ e.routes \subseteq DOMAIN Routes
  OBVIOUS
<1> HIDE DEF R
<1>4. log[d].msg \in Messages /\ log[d].routes \subseteq DOMAIN Routes
  BY <1>2, <1>3, Zenon
<1> QED BY <1>1, <1>2, <1>4

(* The points of a callback.                                               *)
LEMMA PointsFromFacts ==
    ASSUME LogType, NEW i \in Called
    PROVE  /\ i = <<i[1], i[2]>> /\ i[1] \in DOMAIN log /\ i[2] \in DOMAIN Routes
           /\ PointsFrom(i) \in Seq(Accepted)
           /\ ToSet(PointsFrom(i)) \subseteq Accepted
           /\ Once(PointsFrom(i))
           /\ \A p \in ToSet(PointsFrom(i)) : p.src[1] = i[1] /\ p.src[2] = i[2]
<1>1. i = <<i[1], i[2]>> /\ i[1] \in DOMAIN log /\ i[2] \in DOMAIN Routes
  BY DEF Called, Delivered
<1>2. log[i[1]].msg \in Messages
  BY <1>1, LogEntry
<1> DEFINE f == PointsFrom(i)
<1>3. /\ f \in Seq(ToSet(f)) /\ Once(f)
      /\ \A k \in DOMAIN f : f[k].src = <<i[1], i[2], k>>
  BY <1>1, <1>2, TransformFacts DEF PointsFrom
<1>4. ToSet(f) \subseteq Accepted
  BY DEF Accepted, PointsOf
<1> HIDE DEF f
<1>5. f \in Seq(Accepted)
  BY <1>3, <1>4
<1>6. \A p \in ToSet(f) : p.src[1] = i[1] /\ p.src[2] = i[2]
  BY <1>3 DEF ToSet
<1> QED BY <1>1, <1>3, <1>4, <1>5, <1>6 DEF f

(* Two callbacks have no point in common.                                  *)
LEMMA CallbacksApart ==
    ASSUME LogType, NEW i \in Called, NEW j \in Called, i # j
    PROVE  ToSet(PointsFrom(i)) \cap ToSet(PointsFrom(j)) = {}
<1> SUFFICES ASSUME NEW p, p \in ToSet(PointsFrom(i)), p \in ToSet(PointsFrom(j))
             PROVE  FALSE
  OBVIOUS
<1>1. p.src[1] = i[1] /\ p.src[2] = i[2] /\ p.src[1] = j[1] /\ p.src[2] = j[2]
  BY PointsFromFacts
<1>2. i = <<i[1], i[2]>> /\ j = <<j[1], j[2]>>
  BY PointsFromFacts
<1> QED BY <1>1, <1>2, Zenon

(* While nothing is delivered, what was accepted stays the same.           *)
LEMMA LogKept ==
    ASSUME UNCHANGED log
    PROVE  /\ Called' = Called /\ Accepted' = Accepted
           /\ \A i : PointsFrom(i)' = PointsFrom(i)
<1>1. \A i : PointsFrom(i)' = PointsFrom(i)
  BY DEF PointsFrom
<1>2. Called' = Called
  BY DEF Called, Delivered
<1> QED BY <1>1, <1>2, Zenon DEF Accepted, PointsOf, PointsFrom

(* A delivery leaves the earlier ones as they are.                         *)
LEMMA LogGrows ==
    ASSUME LogType, NEW m \in Messages, NEW R \in SUBSET DOMAIN Routes,
           NEW new, new = {<<Len(log) + 1, r>> : r \in R},
           log' = Append(log, [msg |-> m, routes |-> R])
    PROVE  /\ LogType'
           /\ Called' = Called \cup new
           /\ \A d \in DOMAIN log : log'[d] = log[d]
           /\ \A i \in Called : PointsFrom(i)' = PointsFrom(i)
           /\ Accepted' = Accepted \cup PointsOf(new)'
           /\ Accepted \subseteq Accepted'
           /\ \A p \in PointsOf(new)' : p.src[1] = Len(log) + 1
<1> DEFINE e == [msg |-> m, routes |-> R]
           E == [msg : Messages, routes : SUBSET DOMAIN Routes]
           n == Len(log)
<1>1. e \in E /\ e.routes = R
  OBVIOUS
<1> HIDE DEF e, E
<1>2. log \in Seq(E) /\ log' = Append(log, e)
  BY DEF LogType, E, e
<1>3. /\ log' \in Seq(E) /\ n \in Nat /\ DOMAIN log = 1 .. n
      /\ DOMAIN log' = DOMAIN log \cup {n + 1} /\ n + 1 \notin DOMAIN log
      /\ log'[n + 1] = e
      /\ \A d \in DOMAIN log : log'[d] = log[d]
  BY <1>1, <1>2
<1>4. \A d \in DOMAIN log : log'[d].routes = log[d].routes
  BY <1>3, Zenon
<1>5. log'[n + 1].routes = R
  BY <1>1, <1>3
<1>6. Called' = Called \cup new
  <2>1. ASSUME NEW i \in Called' PROVE i \in Called \cup new
    <3>1. PICK d \in DOMAIN log', r \in DOMAIN Routes : i = <<d, r>> /\ r \in log'[d].routes
      BY DEF Called, Delivered
    <3>2. CASE d = n + 1
      BY <1>5, <3>1, <3>2
    <3>3. CASE d \in DOMAIN log
      BY <1>4, <3>1, <3>3 DEF Called, Delivered
    <3> QED BY <1>3, <3>1, <3>2, <3>3
  <2>2. ASSUME NEW i \in Called PROVE i \in Called'
    BY <1>3, <1>4 DEF Called, Delivered
  <2>3. ASSUME NEW r \in R PROVE <<n + 1, r>> \in Called'
    BY <1>3, <1>5 DEF Called, Delivered
  <2> QED BY <2>1, <2>2, <2>3
<1>7. \A i \in Called : PointsFrom(i)' = PointsFrom(i)
  <2> SUFFICES ASSUME NEW i \in Called PROVE PointsFrom(i)' = PointsFrom(i)
    BY Zenon
  <2>1. i[1] \in DOMAIN log
    BY DEF Called, Delivered
  <2>2. log'[i[1]] = log[i[1]]
    BY <1>3, <2>1
  <2> QED BY <2>2, Zenon DEF PointsFrom
<1>8. Accepted' = Accepted \cup PointsOf(new)'
  <2>1. PointsOf(Called)' = UNION {ToSet(PointsFrom(i)') : i \in Called \cup new}
    BY <1>6, Zenon DEF PointsOf
  <2>2. PointsOf(new)' = UNION {ToSet(PointsFrom(i)') : i \in new}
    BY Zenon DEF PointsOf
  <2>3. Accepted = UNION {ToSet(PointsFrom(i)') : i \in Called}
    BY <1>7, Zenon DEF Accepted, PointsOf
  <2> QED BY <2>1, <2>2, <2>3, Zenon DEF Accepted
<1>9. ASSUME NEW p \in PointsOf(new)' PROVE p.src[1] = n + 1
  <2>1. PointsOf(new)' = UNION {ToSet(PointsFrom(i)') : i \in new}
    BY Zenon DEF PointsOf
  <2>2. PICK i \in new : p \in ToSet(PointsFrom(i)')
    BY <2>1
  <2>3. log'[i[1]].msg = m /\ i[1] = n + 1
    BY <1>3, <2>2 DEF e
  <2>4. PointsFrom(i)' = Transform(m, i[1], i[2])
    BY <2>3, Zenon DEF PointsFrom
  <2>5. PICK k \in DOMAIN Transform(m, i[1], i[2]) : p = Transform(m, i[1], i[2])[k]
    BY <2>2, <2>4 DEF ToSet
  <2>6. p.src = <<i[1], i[2], k>>
    <3>1. \A j \in DOMAIN Transform(m, i[1], i[2]) :
            Transform(m, i[1], i[2])[j].src = <<i[1], i[2], j>>
      BY TransformFacts
    <3> QED BY <2>5, <3>1, Zenon
  <2> QED BY <2>3, <2>6
<1> QED BY <1>3, <1>6, <1>7, <1>8, <1>9 DEF LogType, E

(* An accepted point is of a callback that was called.                     *)
LEMMA AcceptedFacts ==
    ASSUME LogType, NEW p \in Accepted
    PROVE  /\ <<p.src[1], p.src[2]>> \in Called /\ p.src[1] \in DOMAIN log
           /\ p \in ToSet(PointsFrom(<<p.src[1], p.src[2]>>))
<1>1. PICK i \in Called : p \in ToSet(PointsFrom(i))
  BY DEF Accepted, PointsOf
<1>2. i = <<i[1], i[2]>> /\ i[1] \in DOMAIN log /\ p.src[1] = i[1] /\ p.src[2] = i[2]
  BY <1>1, PointsFromFacts
<1> QED BY <1>1, <1>2, Zenon

-----------------------------------------------------------------------------
(***************************************************************************)
(* The types.  A batch that is not being flushed has room for a point.     *)
(***************************************************************************)
Room == writer.pc = "loop" => Len(buffer) < BatchSize

Typed == TypeOK /\ Room

(* A sequence over a set is one over every larger set.                     *)
LEMMA SeqLarger ==
    ASSUME NEW S, NEW T, S \subseteq T
    PROVE  Seq(S) \subseteq Seq(T)
  OBVIOUS

(* The memory of a new process has its type.                               *)
LEMMA FreshTyped ==
    ASSUME Typed, UNCHANGED outside, Fresh, run' = "down",
           excused' \subseteq Accepted
    PROVE  Typed'
<1>1. Called' = Called /\ Accepted' = Accepted
  BY LogKept DEF outside
<1>2. IdleWorker \in [pc : {"idle", "enqueue", "count", "stopped"}, rest : Seq(Accepted)]
  BY DEF IdleWorker
<1>3. worker' \in [Workers -> [pc : {"idle", "enqueue", "count", "stopped"}, rest : Seq(Accepted)]]
  BY <1>2 DEF Fresh
<1>4. \A w \in Workers : worker'[w].pc = "idle" /\ worker'[w].rest = <<>>
  BY DEF Fresh, IdleWorker
<1>5. /\ writer' \in [pc : {"loop", "flush", "stopped"}, last : BOOLEAN,
                       todo : SUBSET {p.series : p \in ToSet(buffer')}]
      /\ buffer' = <<>>
  BY DEF Fresh
<1>6. stats' \in [transformed : Nat, enqueued : Nat, inserted : Nat, failed : Nat]
  BY DEF Fresh, ZeroStats
<1>7. msgCh' = <<>> /\ queue' = <<>> /\ callbacks' = {} /\ subscribed' = 0
      /\ connected' = TRUE /\ cancelled' = FALSE
  BY DEF Fresh
<1>8. QueueSize \in Nat /\ BatchSize \in Nat /\ BatchSize > 0 /\ Len(Routes) \in Nat
  BY IngestAssumption
<1>9. UNCHANGED <<log, tsdata, failures, restarts>>
  BY DEF outside
<1>10. /\ msgCh' \in Seq(Called) /\ Len(msgCh') <= QueueSize
       /\ queue' \in Seq(Accepted) /\ Len(queue') <= QueueSize
       /\ buffer' \in Seq(Accepted) /\ Len(buffer') <= BatchSize /\ Len(buffer') < BatchSize
       /\ subscribed' \in 0 .. Len(Routes)
  BY <1>5, <1>7, <1>8
<1>11. TypeOK'
  BY <1>1, <1>3, <1>4, <1>5, <1>6, <1>7, <1>9, <1>10 DEF Typed, TypeOK
<1> QED BY <1>10, <1>11 DEF Typed, Room

(* The steps of Runtime.Run change nothing but where it is.                *)
LEMMA RunTyped ==
    ASSUME Typed, Subscribe \/ SubscribeFails \/ Cancel \/ Stop \/ Return \/ Restart
    PROVE  Typed'
<1>1. UNCHANGED <<pipeline, log, tsdata, excused, failures>>
  BY DEF Subscribe, SubscribeFails, Cancel, Stop, Return, Restart, outside
<1>2. /\ run' \in {"connect", "run", "wait", "returned", "down"}
      /\ subscribed' \in 0 .. Len(Routes)
      /\ connected' \in BOOLEAN /\ cancelled' \in BOOLEAN
      /\ restarts' \in 0 .. MaxRestarts
  <2>1. Len(Routes) \in Nat /\ MaxRestarts \in Nat
    BY IngestAssumption
  <2>2. /\ run \in {"connect", "run", "wait", "returned", "down"}
        /\ subscribed \in 0 .. Len(Routes)
        /\ connected \in BOOLEAN /\ cancelled \in BOOLEAN
        /\ restarts \in 0 .. MaxRestarts
    BY DEF Typed, TypeOK
  <2>3. CASE Subscribe
    BY <2>1, <2>2, <2>3 DEF Subscribe, outside
  <2>4. CASE SubscribeFails \/ Cancel \/ Stop \/ Return
    BY <2>2, <2>4 DEF SubscribeFails, Cancel, Stop, Return, outside
  <2>5. CASE Restart
    BY <2>1, <2>2, <2>5 DEF Restart
  <2> QED BY <2>3, <2>4, <2>5
<1>3. Called' = Called /\ Accepted' = Accepted
  BY <1>1, LogKept
<1> QED BY <1>1, <1>2, <1>3 DEF Typed, TypeOK, Room, pipeline

(* As many elements as places, at the most.                                *)
LEMMA ImageFacts ==
    ASSUME NEW s, NEW D, IsFiniteSet(D)
    PROVE  /\ IsFiniteSet({s[i] : i \in D})
           /\ Cardinality({s[i] : i \in D}) <= Cardinality(D)
           /\ (\A i, j \in D : s[i] = s[j] => i = j)
                => Cardinality({s[i] : i \in D}) = Cardinality(D)
<1> DEFINE T == {s[i] : i \in D}
           f == [i \in D |-> s[i]]
<1>1. f \in [D -> T] /\ \A x \in T : \E i \in D : f[i] = x
  OBVIOUS
<1>2. \A i \in D : f[i] = s[i]
  OBVIOUS
<1> HIDE DEF f, T
<1>3. f \in Surjection(D, T)
  BY <1>1 DEF Surjection
<1>4. (\A i, j \in D : s[i] = s[j] => i = j) => f \in Injection(D, T)
  BY <1>1, <1>2, Zenon DEF Injection, IsInjective
<1>5. /\ IsFiniteSet(T) /\ Cardinality(T) <= Cardinality(D)
      /\ Cardinality(T) = Cardinality(D) <=> f \in Injection(D, T)
  BY <1>3, FS_Surjection
<1> QED BY <1>4, <1>5 DEF T

(* What is in flight has been accepted.                                    *)
LEMMA InFlightAccepted ==
    ASSUME Typed
    PROVE  InFlight \subseteq Accepted
<1>1. callbacks \cup ToSet(msgCh) \subseteq Called
  BY DEF Typed, TypeOK, ToSet
<1>2. Early \subseteq Accepted
  BY <1>1, Zenon DEF Accepted, PointsOf, Early
<1>3. \A w \in Workers : ToSet(worker[w].rest) \subseteq Accepted
  BY DEF Typed, TypeOK, ToSet
<1>4. ToSet(queue) \subseteq Accepted /\ ToSet(buffer) \subseteq Accepted
  BY DEF Typed, TypeOK, ToSet
<1>5. Unflushed \subseteq ToSet(buffer)
  BY Zenon DEF Unflushed
<1>6. Held \subseteq Accepted
  BY <1>3 DEF Held
<1> QED BY <1>2, <1>4, <1>5, <1>6 DEF InFlight

(* The end of the process.                                                 *)
LEMMA DieTyped ==
    ASSUME Typed, Die
    PROVE  Typed'
<1>1. excused' \subseteq Accepted
  BY InFlightAccepted DEF Typed, TypeOK, Die
<1> QED BY <1>1, FreshTyped DEF Die

(* Who is sent a message.                                                  *)
LEMMA ReceiversFacts ==
    ASSUME Typed, NEW topic \in Topics
    PROVE  Receivers(topic) =
             {r \in 1 .. subscribed :
                /\ \E q \in 1 .. subscribed : FilterAccepts(SubscriptionTopic(q), topic)
                /\ LevelsAccept(SubscriptionTopic(r), topic)
                /\ ~Superseded(r, subscribed)}
<1>1. subscribed \in 0 .. Len(Routes)
  BY DEF Typed, TypeOK
<1> QED BY <1>1, Zenon DEF Receivers, Audience

(* They are routes.                                                        *)
LEMMA ReceiversAreRoutes ==
    ASSUME Typed, NEW m \in Messages
    PROVE  Receivers(m.topic) \in SUBSET DOMAIN Routes
<1>1. subscribed \in 0 .. Len(Routes) /\ Len(Routes) \in Nat /\ DOMAIN Routes = 1 .. Len(Routes)
  BY IngestAssumption DEF Typed, TypeOK
<1>2. m.topic \in Topics
  BY IngestAssumption, Zenon
<1>3. Receivers(m.topic) \subseteq 1 .. subscribed
  BY <1>2, ReceiversFacts, Zenon
<1> QED BY <1>1, <1>3

(* A delivery extends what may be in the pipeline.                         *)
LEMMA DeliverTyped ==
    ASSUME Typed, NEW m \in Messages, Deliver(m)
    PROVE  Typed'
<1>0. PICK new : new = {<<Len(log) + 1, r>> : r \in Receivers(m.topic)}
  OBVIOUS
<1>1. LogType
  BY DEF Typed, TypeOK, LogType
<1>2. log' = Append(log, [msg |-> m, routes |-> Receivers(m.topic)])
  BY DEF Deliver
<1>3. LogType' /\ Called' = Called \cup new /\ Accepted \subseteq Accepted'
  BY <1>0, <1>1, <1>2, ReceiversAreRoutes, LogGrows
<1>4. Seq(Called) \subseteq Seq(Called') /\ Seq(Accepted) \subseteq Seq(Accepted')
  BY <1>3, SeqLarger
<1>5. callbacks' = callbacks \cup new
  BY <1>0 DEF Deliver
<1>6. UNCHANGED <<run, subscribed, connected, cancelled, msgCh, worker, queue, writer, buffer,
                   stats, tsdata, failures, restarts, excused>>
  BY DEF Deliver, process
<1>7. worker \in [Workers -> [pc : {"idle", "enqueue", "count", "stopped"}, rest : Seq(Accepted')]]
  BY <1>4 DEF Typed, TypeOK
<1> QED BY <1>3, <1>4, <1>5, <1>6, <1>7 DEF Typed, TypeOK, Room, LogType

(* A callback that sends, and one that gives up.                           *)
LEMMA CallbackTyped ==
    ASSUME Typed, NEW c \in callbacks, CallbackSends(c) \/ CallbackGivesUp(c)
    PROVE  Typed'
<1>1. UNCHANGED <<log, run, subscribed, connected, cancelled, worker, queue, writer, buffer,
                   stats, tsdata, failures, restarts>>
  BY DEF CallbackSends, CallbackGivesUp, process
<1>2. Called' = Called /\ Accepted' = Accepted
  BY <1>1, LogKept
<1>3. c \in Called /\ callbacks' \subseteq Called
  BY DEF Typed, TypeOK, CallbackSends, CallbackGivesUp
<1>4. PointsOf({c}) \subseteq Accepted
  BY <1>3, Zenon DEF Accepted, PointsOf
<1>5. excused' \subseteq Accepted
  BY <1>4 DEF Typed, TypeOK, CallbackSends, CallbackGivesUp
<1>6. msgCh' \in Seq(Called) /\ Len(msgCh') <= QueueSize
  <2>1. QueueSize \in Nat /\ msgCh \in Seq(Called) /\ Len(msgCh) <= QueueSize
    BY IngestAssumption DEF Typed, TypeOK
  <2> QED BY <1>3, <2>1 DEF CallbackSends, CallbackGivesUp
<1> QED BY <1>1, <1>2, <1>3, <1>5, <1>6 DEF Typed, TypeOK, Room

WorkerStates == [pc : {"idle", "enqueue", "count", "stopped"}, rest : Seq(Accepted)]

(* What a worker may be after a step.                                      *)
WorkerFits(s) ==
    /\ s \in WorkerStates
    /\ s.pc \in {"idle", "stopped"} => s.rest = <<>>
    /\ s.pc = "enqueue" => s.rest # <<>>

(* A worker with points to enqueue, or without.                            *)
LEMMA ReadyFits ==
    ASSUME NEW rest \in Seq(Accepted)
    PROVE  WorkerFits(Ready(rest)) /\ Ready(rest).rest = rest /\ Ready(rest).pc # "count"
  BY DEF Ready, WorkerFits, WorkerStates

(* A worker that has returned.                                             *)
LEMMA StoppedFits ==
    WorkerFits([pc |-> "stopped", rest |-> <<>>])
  BY DEF WorkerFits, WorkerStates

(* A step of one worker leaves the others in place.                        *)
LEMMA OneWorkerSteps ==
    ASSUME Typed, NEW w \in Workers, NEW s, WorkerFits(s),
           worker' = [worker EXCEPT ![w] = s]
    PROVE  /\ worker' \in [Workers -> WorkerStates]
           /\ \A v \in Workers : WorkerFits(worker'[v])
<1>1. worker \in [Workers -> WorkerStates] /\ \A v \in Workers : WorkerFits(worker[v])
  BY DEF Typed, TypeOK, WorkerFits, WorkerStates
<1>2. s \in WorkerStates
  BY DEF WorkerFits
<1> HIDE DEF WorkerStates, WorkerFits
<1>3. worker' \in [Workers -> WorkerStates]
  BY <1>1, <1>2
<1>4. \A v \in Workers : worker'[v] = IF v = w THEN s ELSE worker[v]
  BY <1>1
<1>5. \A v \in Workers : WorkerFits(worker'[v])
  BY <1>1, <1>4, Zenon
<1> QED BY <1>3, <1>5

(* The steps of the workers.                                               *)
LEMMA WorkerTyped ==
    ASSUME Typed, NEW w \in Workers, TransformLoop(w)
    PROVE  Typed'
<1>1. /\ UNCHANGED <<log, run, subscribed, connected, cancelled, callbacks, writer, buffer,
                      tsdata, failures, restarts>>
  BY DEF TransformLoop, Receive, Enqueue, CountEnqueued, WorkerCancelled, WorkerDrained,
         process, outside
<1>2. Called' = Called /\ Accepted' = Accepted
  BY <1>1, LogKept
<1>3. LogType
  BY DEF Typed, TypeOK, LogType
<1>4. /\ worker[w].rest \in Seq(Accepted)
      /\ ToSet(worker[w].rest) \subseteq Accepted
      /\ worker[w].pc = "enqueue" => worker[w].rest # <<>>
      /\ worker = [worker EXCEPT ![w] = worker[w]]
      /\ msgCh \in Seq(Called) /\ Len(msgCh) <= QueueSize
      /\ queue \in Seq(Accepted) /\ Len(queue) <= QueueSize
      /\ QueueSize \in Nat
  BY IngestAssumption, SMTT(30) DEF Typed, TypeOK, ToSet
<1> DEFINE Effect == /\ \E s : WorkerFits(s) /\ worker' = [worker EXCEPT ![w] = s]
                     /\ msgCh' \in Seq(Called) /\ Len(msgCh') <= QueueSize
                     /\ queue' \in Seq(Accepted) /\ Len(queue') <= QueueSize
                     /\ stats' \in [transformed : Nat, enqueued : Nat, inserted : Nat,
                                    failed : Nat]
                     /\ excused' \subseteq Accepted
<1>5. stats \in [transformed : Nat, enqueued : Nat, inserted : Nat, failed : Nat]
      /\ excused \subseteq Accepted
  BY DEF Typed, TypeOK
<1>6. ASSUME Receive(w) PROVE Effect
  <2> DEFINE points == PointsFrom(Head(msgCh))
  <2>1. Head(msgCh) \in Called /\ Tail(msgCh) \in Seq(Called) /\ Len(Tail(msgCh)) <= QueueSize
    BY <1>4, <1>6 DEF Receive
  <2>2. points \in Seq(Accepted)
    BY <1>3, <2>1, PointsFromFacts
  <2>3. worker' = [worker EXCEPT ![w] = Ready(points)] /\ WorkerFits(Ready(points))
    BY <1>6, <2>2, ReadyFits DEF Receive
  <2>4. stats' = [stats EXCEPT !.transformed = @ + Len(points)] /\ Len(points) \in Nat
    BY <1>6, <2>2 DEF Receive
  <2>5. queue' = queue /\ excused' = excused /\ msgCh' = Tail(msgCh)
    BY <1>6 DEF Receive
  <2> HIDE DEF points
  <2>6. stats' \in [transformed : Nat, enqueued : Nat, inserted : Nat, failed : Nat]
    BY <1>5, <2>4
  <2> QED BY <1>4, <1>5, <2>1, <2>3, <2>5, <2>6
<1>7. ASSUME Enqueue(w) PROVE Effect
  <2> DEFINE s == [pc |-> "count", rest |-> Tail(worker[w].rest)]
  <2>1. /\ worker[w].rest # <<>> /\ queue' = Append(queue, Head(worker[w].rest))
        /\ Len(queue) < QueueSize
        /\ worker' = [worker EXCEPT ![w] = s]
        /\ UNCHANGED <<msgCh, stats, excused>>
    BY <1>4, <1>7 DEF Enqueue
  <2>2. Head(worker[w].rest) \in Accepted /\ Tail(worker[w].rest) \in Seq(Accepted)
    BY <1>4, <2>1
  <2>3. WorkerFits(s)
    BY <2>2 DEF WorkerFits, WorkerStates
  <2> HIDE DEF s
  <2>4. queue' \in Seq(Accepted) /\ Len(queue') <= QueueSize
    BY <1>4, <2>1, <2>2
  <2> QED BY <1>4, <1>5, <2>1, <2>3, <2>4
<1>8. ASSUME CountEnqueued(w) PROVE Effect
  <2>1. worker' = [worker EXCEPT ![w] = Ready(worker[w].rest)] /\ WorkerFits(Ready(worker[w].rest))
    BY <1>4, <1>8, ReadyFits DEF CountEnqueued
  <2>2. stats' = [stats EXCEPT !.enqueued = @ + 1] /\ UNCHANGED <<msgCh, queue, excused>>
    BY <1>8 DEF CountEnqueued
  <2>3. stats' \in [transformed : Nat, enqueued : Nat, inserted : Nat, failed : Nat]
    BY <1>5, <2>2
  <2> QED BY <1>4, <1>5, <2>1, <2>2, <2>3
<1>9. ASSUME WorkerCancelled(w) \/ WorkerDrained(w) PROVE Effect
  <2>1. worker' = [worker EXCEPT ![w] = [pc |-> "stopped", rest |-> <<>>]]
    BY <1>9 DEF WorkerCancelled, WorkerDrained
  <2>2. UNCHANGED <<msgCh, queue, stats>> /\ excused' \subseteq Accepted
    BY <1>4, <1>5, <1>9 DEF WorkerCancelled, WorkerDrained
  <2> QED BY <1>4, <1>5, <2>1, <2>2, StoppedFits
<1>10. Effect
  BY <1>6, <1>7, <1>8, <1>9 DEF TransformLoop
<1>11. /\ worker' \in [Workers -> WorkerStates]
       /\ \A v \in Workers : WorkerFits(worker'[v])
  BY <1>10, OneWorkerSteps
<1>12. \A v \in Workers :
         /\ worker'[v].pc \in {"idle", "stopped"} => worker'[v].rest = <<>>
         /\ worker'[v].pc = "enqueue" => worker'[v].rest # <<>>
  BY <1>11 DEF WorkerFits
<1> QED BY <1>1, <1>2, <1>10, <1>11, <1>12 DEF Typed, TypeOK, Room, WorkerStates

(* The steps of the writer.                                                *)
LEMMA WriterTyped ==
    ASSUME Typed, WriterStep
    PROVE  Typed'
<1> DEFINE States(b) == [pc : {"loop", "flush", "stopped"}, last : BOOLEAN,
                         todo : SUBSET {p.series : p \in ToSet(b)}]
           Stats == [transformed : Nat, enqueued : Nat, inserted : Nat, failed : Nat]
<1>1. /\ UNCHANGED <<log, run, subscribed, connected, cancelled, callbacks, msgCh, worker,
                      restarts>>
  BY DEF WriterStep, TakePoint, Tick, WriterCancelled, Flush, FlushSeries, FlushFails,
         FlushDone, process, outside
<1>2. Called' = Called /\ Accepted' = Accepted
  BY <1>1, LogKept
<1>3. /\ queue \in Seq(Accepted) /\ Len(queue) <= QueueSize
      /\ buffer \in Seq(Accepted) /\ Len(buffer) <= BatchSize
      /\ writer.pc = "loop" => Len(buffer) < BatchSize
      /\ QueueSize \in Nat /\ BatchSize \in Nat /\ BatchSize > 0
      /\ writer \in States(buffer)
      /\ stats \in Stats /\ tsdata \subseteq Accepted /\ excused \subseteq Accepted
      /\ failures \in 0 .. MaxFailures /\ MaxFailures \in Nat
  BY IngestAssumption DEF Typed, TypeOK, Room
<1> DEFINE Effect == /\ queue' \in Seq(Accepted) /\ Len(queue') <= QueueSize
                     /\ buffer' \in Seq(Accepted) /\ Len(buffer') <= BatchSize
                     /\ writer'.pc = "loop" => Len(buffer') < BatchSize
                     /\ writer' \in States(buffer')
                     /\ stats' \in Stats /\ tsdata' \subseteq Accepted
                     /\ excused' \subseteq Accepted /\ failures' \in 0 .. MaxFailures
<1>4. ASSUME NEW b, NEW l \in BOOLEAN
      PROVE  Flushing(b, l) \in States(b) /\ Flushing(b, l).pc = "flush"
  BY DEF Flushing
<1>5. ASSUME TakePoint PROVE Effect
  <2>1. /\ Tail(queue) \in Seq(Accepted) /\ Len(Tail(queue)) <= QueueSize
        /\ Head(queue) \in Accepted
    BY <1>3, <1>5 DEF TakePoint
  <2>2. /\ buffer' = Append(buffer, Head(queue)) /\ queue' = Tail(queue)
        /\ UNCHANGED <<stats, tsdata, excused, failures>> /\ writer.pc = "loop"
    BY <1>5 DEF TakePoint, outside
  <2>3. /\ buffer' \in Seq(Accepted) /\ Len(buffer') <= BatchSize
        /\ ToSet(buffer) \subseteq ToSet(buffer')
    BY <1>3, <2>1, <2>2, AppendFacts
  <2>4. writer \in States(buffer')
    BY <1>3, <2>3
  <2>5. \/ Len(buffer') >= BatchSize /\ writer' = Flushing(buffer', FALSE)
        \/ ~(Len(buffer') >= BatchSize) /\ writer' = writer
    BY <1>5 DEF TakePoint
  <2>6. writer' \in States(buffer') /\ (writer'.pc = "loop" => Len(buffer') < BatchSize)
    <3> HIDE DEF States
    <3>1. Len(buffer') \in Nat
      BY <2>3
    <3>2. CASE Len(buffer') >= BatchSize /\ writer' = Flushing(buffer', FALSE)
      BY <1>4, <3>2
    <3>3. CASE ~(Len(buffer') >= BatchSize) /\ writer' = writer
      BY <1>3, <2>4, <3>1, <3>3
    <3> QED BY <2>5, <3>2, <3>3
  <2> HIDE DEF States
  <2> QED BY <1>3, <2>1, <2>2, <2>3, <2>6
<1>6. ASSUME Tick \/ WriterCancelled PROVE Effect
  <2>1. UNCHANGED <<queue, buffer, stats, tsdata, excused, failures>>
    BY <1>6 DEF Tick, WriterCancelled, outside
  <2>2. \/ \E l \in BOOLEAN : writer' = Flushing(buffer, l)
        \/ writer' = [pc |-> "stopped", todo |-> {}, last |-> FALSE]
    BY <1>6 DEF Tick, WriterCancelled
  <2>3. writer' \in States(buffer) /\ writer'.pc # "loop"
    <3>1. CASE writer' = [pc |-> "stopped", todo |-> {}, last |-> FALSE]
      BY <3>1
    <3>2. CASE \E l \in BOOLEAN : writer' = Flushing(buffer, l)
      <4> HIDE DEF States
      <4> QED BY <1>4, <3>2
    <3> QED BY <2>2, <3>1, <3>2
  <2> HIDE DEF States
  <2> QED BY <1>3, <2>1, <2>3
<1>7. ASSUME NEW s, s \in writer.todo
      PROVE  /\ NewRows(s) \subseteq ToSet(buffer) /\ NewRows(s) \subseteq Accepted
             /\ Cardinality(NewRows(s)) \in Nat /\ Cardinality(PlacesOf(s)) \in Nat
  <2>1. IsFiniteSet(DOMAIN buffer)
    <3>1. DOMAIN buffer = 1 .. Len(buffer) /\ Len(buffer) \in Nat
      BY <1>3
    <3> QED BY <3>1, FS_Interval
  <2>2. IsFiniteSet(PlacesOf(s)) /\ PlacesOf(s) \subseteq DOMAIN buffer
    BY <2>1, FS_Subset DEF PlacesOf
  <2>3. PICK D : D \subseteq PlacesOf(s) /\ NewRows(s) = {buffer[i] : i \in D}
    BY DEF NewRows
  <2>4. IsFiniteSet(D)
    BY <2>2, <2>3, FS_Subset
  <2>5. IsFiniteSet(NewRows(s))
    BY <2>3, <2>4, ImageFacts
  <2>6. NewRows(s) \subseteq ToSet(buffer)
    BY <2>2, <2>3 DEF ToSet
  <2>7. ToSet(buffer) \subseteq Accepted
    BY <1>3 DEF ToSet
  <2> QED BY <2>2, <2>5, <2>6, <2>7, FS_CardinalityType
<1>8. ASSUME \E s \in writer.todo : FlushSeries(s) PROVE Effect
  <2>1. PICK s \in writer.todo : FlushSeries(s)
    BY <1>8
  <2>2. /\ tsdata' = tsdata \cup NewRows(s)
        /\ stats' = [stats EXCEPT !.inserted = @ + Cardinality(NewRows(s))]
        /\ writer' = [writer EXCEPT !.todo = @ \ {s}]
        /\ UNCHANGED <<queue, buffer, excused, failures>>
    BY <2>1 DEF FlushSeries
  <2>3. writer' \in States(buffer) /\ writer'.pc = writer.pc
    BY <1>3, <2>2
  <2>4. stats' \in Stats
    <3>1. stats \in Stats /\ Cardinality(NewRows(s)) \in Nat
      BY <1>3, <1>7
    <3> QED BY <2>2, <3>1
  <2>5. tsdata' \subseteq Accepted
    BY <1>3, <1>7, <2>2
  <2> HIDE DEF States, Stats
  <2> QED BY <1>3, <2>2, <2>3, <2>4, <2>5
<1>9. BackToLoop => writer' \in States(<<>>)
  BY <1>3 DEF BackToLoop
<1>10. ASSUME \E s \in writer.todo : FlushFails(s) PROVE Effect
  <2>1. PICK s \in writer.todo : FlushFails(s)
    BY <1>10
  <2>2. /\ stats' = [stats EXCEPT !.failed = @ + Cardinality(PlacesOf(s))]
        /\ excused' = excused \cup Unflushed
        /\ buffer' = <<>> /\ BackToLoop
        /\ UNCHANGED queue
    BY <2>1 DEF FlushFails
  <2>3. /\ tsdata' \in {tsdata, tsdata \cup NewRows(s)}
        /\ failures' \in 0 .. MaxFailures
    BY <1>3, <2>1 DEF FlushFails
  <2>4. stats' \in Stats
    <3>1. Cardinality(PlacesOf(s)) \in Nat
      BY <1>7
    <3>2. stats \in Stats
      BY <1>3
    <3> QED BY <2>2, <3>1, <3>2
  <2>5. tsdata' \subseteq Accepted
    BY <1>3, <1>7, <2>3
  <2>6. excused' \subseteq Accepted
    <3>1. Unflushed \subseteq Accepted
      BY InFlightAccepted, Zenon DEF InFlight
    <3> QED BY <1>3, <2>2, <3>1
  <2> HIDE DEF States, Stats
  <2> QED BY <1>3, <1>9, <2>2, <2>3, <2>4, <2>5, <2>6
<1>11. ASSUME FlushDone PROVE Effect
  <2>1. /\ buffer' = <<>> /\ BackToLoop
        /\ UNCHANGED <<queue, stats, tsdata, failures, excused>>
    BY <1>11 DEF FlushDone, outside
  <2> HIDE DEF States, Stats
  <2> QED BY <1>3, <1>9, <2>1
<1>12. Effect
  BY <1>5, <1>6, <1>8, <1>10, <1>11 DEF WriterStep, Flush
<1> HIDE DEF Stats
<1> QED BY <1>1, <1>2, <1>12 DEF Typed, TypeOK, Room, Stats

(* The first state.                                                        *)
LEMMA InitTyped == Init => Typed
<1> SUFFICES ASSUME Init PROVE Typed
  OBVIOUS
<1>1. IdleWorker \in [pc : {"idle", "enqueue", "count", "stopped"}, rest : Seq(Accepted)]
  BY DEF IdleWorker
<1>2. worker \in [Workers -> [pc : {"idle", "enqueue", "count", "stopped"}, rest : Seq(Accepted)]]
  BY <1>1 DEF Init
<1>3. \A w \in Workers : worker[w].pc = "idle" /\ worker[w].rest = <<>>
  BY DEF Init, IdleWorker
<1>4. /\ writer \in [pc : {"loop", "flush", "stopped"}, last : BOOLEAN,
                      todo : SUBSET {p.series : p \in ToSet(buffer)}]
      /\ stats \in [transformed : Nat, enqueued : Nat, inserted : Nat, failed : Nat]
  BY DEF Init, ZeroStats
<1>5. /\ QueueSize \in Nat /\ BatchSize \in Nat /\ BatchSize > 0 /\ Len(Routes) \in Nat
      /\ MaxFailures \in Nat /\ MaxRestarts \in Nat
  BY IngestAssumption
<1>6. /\ msgCh \in Seq(Called) /\ Len(msgCh) <= QueueSize
      /\ queue \in Seq(Accepted) /\ Len(queue) <= QueueSize
      /\ buffer \in Seq(Accepted) /\ Len(buffer) <= BatchSize /\ Len(buffer) < BatchSize
      /\ subscribed \in 0 .. Len(Routes)
      /\ failures \in 0 .. MaxFailures /\ restarts \in 0 .. MaxRestarts
  BY <1>5 DEF Init
<1>7. /\ log \in Seq([msg : Messages, routes : SUBSET DOMAIN Routes])
      /\ run \in {"connect", "run", "wait", "returned", "down"}
      /\ connected \in BOOLEAN /\ cancelled \in BOOLEAN
      /\ callbacks = {} /\ tsdata = {} /\ excused = {}
  <2>1. log = <<>> /\ run = "connect" /\ connected = TRUE /\ cancelled = FALSE
        /\ callbacks = {} /\ tsdata = {} /\ excused = {}
    BY DEF Init
  <2>2. <<>> \in Seq([msg : Messages, routes : SUBSET DOMAIN Routes])
    OBVIOUS
  <2> QED BY <2>1, <2>2
<1>8. TypeOK
  BY <1>2, <1>3, <1>4, <1>6, <1>7 DEF TypeOK
<1> QED BY <1>6, <1>8 DEF Typed, Room

(* Every step of the ingester leads to a typed state.                      *)
LEMMA NextTyped ==
    ASSUME Typed, [Next]_vars
    PROVE  Typed'
<1>1. CASE Subscribe \/ SubscribeFails \/ Cancel \/ Stop \/ Return \/ Restart
  BY <1>1, RunTyped
<1>2. CASE Exit \/ Kill \/ \E c \in callbacks : CallbackPanics(c)
  BY <1>2, DieTyped DEF Exit, Kill, CallbackPanics
<1>3. CASE \E m \in Messages : Deliver(m)
  BY <1>3, DeliverTyped
<1>4. CASE \E c \in callbacks : CallbackSends(c) \/ CallbackGivesUp(c)
  BY <1>4, CallbackTyped
<1>5. CASE \E w \in Workers : TransformLoop(w)
  BY <1>5, WorkerTyped
<1>6. CASE WriterStep
  BY <1>6, WriterTyped
<1>7. CASE UNCHANGED vars
  <2>1. Called' = Called /\ Accepted' = Accepted
    BY <1>7, LogKept DEF vars
  <2> QED BY <1>7, <2>1 DEF Typed, TypeOK, Room, vars
<1> QED BY <1>1, <1>2, <1>3, <1>4, <1>5, <1>6, <1>7 DEF Next, Callback

(***************************************************************************)
(* Every variable keeps its type: no channel, queue or batch grows past    *)
(* its limit, whatever the number of workers, and nothing but points of    *)
(* callbacks that were called is in the pipeline, in the table or lost.    *)
(***************************************************************************)
THEOREM IngestTypeCorrect == Spec => []TypeOK
<1>1. Init => Typed
  BY InitTyped
<1>2. Typed /\ [Next]_vars => Typed'
  BY NextTyped
<1>3. Typed => TypeOK
  BY DEF Typed
<1> QED BY <1>1, <1>2, <1>3, PTL DEF Spec

-----------------------------------------------------------------------------
(***************************************************************************)
(* A point is in one place.                                                *)
(***************************************************************************)
RestsApart ==
    /\ \A w \in Workers : Once(worker[w].rest)
    /\ \A v, w \in Workers :
         v # w => ToSet(worker[v].rest) \cap ToSet(worker[w].rest) = {}

Apart ==
    /\ callbacks \cap ToSet(msgCh) = {} /\ Once(msgCh)
    /\ RestsApart
    /\ Once(queue) /\ Once(buffer)
    /\ Early \cap Held = {} /\ Early \cap ToSet(queue) = {} /\ Early \cap ToSet(buffer) = {}
    /\ Held \cap ToSet(queue) = {} /\ Held \cap ToSet(buffer) = {}
    /\ ToSet(queue) \cap ToSet(buffer) = {}

Others(w) == UNION {ToSet(worker[v].rest) : v \in Workers \ {w}}

(* The points of the workers, before and after one of them takes a step.   *)
LEMMA HeldFacts ==
    ASSUME Typed, RestsApart, NEW w \in Workers, NEW s, WorkerFits(s),
           worker' = [worker EXCEPT ![w] = s]
    PROVE  /\ Held = Others(w) \cup ToSet(worker[w].rest)
           /\ Held' = Others(w) \cup ToSet(s.rest)
           /\ Others(w) \cap ToSet(worker[w].rest) = {}
           /\ Once(worker[w].rest)
           /\ Once(s.rest) /\ Others(w) \cap ToSet(s.rest) = {} => RestsApart'
<1>1. worker \in [Workers -> WorkerStates]
  BY DEF Typed, TypeOK, WorkerStates
<1>2. worker'[w] = s /\ \A v \in Workers \ {w} : worker'[v] = worker[v]
  BY <1>1
<1>3. \A v \in Workers \ {w} : worker'[v].rest = worker[v].rest
  BY <1>2, Zenon
<1>4. worker'[w].rest = s.rest
  BY <1>2, Zenon
<1> DEFINE R(v) == worker[v].rest
           N(v) == worker'[v].rest
<1>5. \A v \in Workers \ {w} : N(v) = R(v)
  BY <1>3
<1>6. Held = UNION {ToSet(R(v)) : v \in Workers} /\ Held' = UNION {ToSet(N(v)) : v \in Workers}
      /\ Others(w) = UNION {ToSet(R(v)) : v \in Workers \ {w}}
  BY Zenon DEF Held, Others
<1>7. /\ \A v \in Workers : Once(R(v))
      /\ \A v, u \in Workers : v # u => ToSet(R(v)) \cap ToSet(R(u)) = {}
  BY Zenon DEF RestsApart
<1>8. RestsApart' <=> /\ \A v \in Workers : Once(N(v))
                      /\ \A v, u \in Workers : v # u => ToSet(N(v)) \cap ToSet(N(u)) = {}
  BY Zenon DEF RestsApart, Once
<1>9. N(w) = s.rest
  BY <1>4
<1> HIDE DEF R, N
<1>10. Held = Others(w) \cup ToSet(R(w)) /\ Others(w) \cap ToSet(R(w)) = {}
  BY <1>6, <1>7
<1>11. Held' = Others(w) \cup ToSet(N(w))
  BY <1>5, <1>6
<1>12. ASSUME Once(N(w)), Others(w) \cap ToSet(N(w)) = {}
       PROVE  RestsApart'
  <2>1. \A v \in Workers : Once(N(v))
    BY <1>5, <1>7, <1>12
  <2>2. ASSUME NEW v \in Workers, NEW u \in Workers, v # u
        PROVE  ToSet(N(v)) \cap ToSet(N(u)) = {}
    <3>1. \A x \in Workers \ {w} : ToSet(N(x)) \subseteq Others(w) /\ N(x) = R(x)
      BY <1>5, <1>6
    <3> QED BY <1>7, <1>12, <2>2, <3>1
  <2> QED BY <1>8, <2>1, <2>2
<1> QED BY <1>7, <1>9, <1>10, <1>11, <1>12 DEF R

-----------------------------------------------------------------------------
(***************************************************************************)
(* What a step does to the points: it accepts some, or it settles some.    *)
(***************************************************************************)
OneRow(rows) == \A p, q \in rows : Key(p) = Key(q) => p = q

Accepts ==
    /\ Accepted \subseteq Accepted'
    /\ InFlight' = InFlight \cup (Accepted' \ Accepted)
    /\ UNCHANGED <<tsdata, excused>>

Settles ==
    /\ Accepted' = Accepted
    /\ InFlight' \subseteq InFlight
    /\ tsdata \subseteq tsdata' /\ excused \subseteq excused'
    /\ tsdata' \ tsdata \subseteq InFlight \ InFlight'
    /\ OneRow(tsdata) => OneRow(tsdata')
    /\ \A p \in InFlight \ InFlight' :
         p \in excused' \/ \E q \in tsdata' : Key(q) = Key(p)

(* A step that stores nothing settles what it is excused for.              *)
LEMMA QuietSettles ==
    ASSUME Accepted' = Accepted, tsdata' = tsdata, InFlight' \subseteq InFlight,
           excused \subseteq excused', InFlight \ InFlight' \subseteq excused'
    PROVE  Settles
  BY DEF Settles

(* Steps outside the pipeline.                                             *)
LEMMA RunApart ==
    ASSUME Apart, UNCHANGED <<pipeline, log, tsdata, excused>>
    PROVE  Apart' /\ Settles
<1>1. UNCHANGED <<callbacks, msgCh, worker, queue, writer, buffer>>
  BY DEF pipeline
<1>2. Accepted' = Accepted /\ \A i : PointsFrom(i)' = PointsFrom(i)
  BY LogKept
<1>3. Early' = Early
  BY <1>1, <1>2, Zenon DEF Early, PointsOf
<1>4. Held' = Held /\ Unflushed' = Unflushed /\ RestsApart' = RestsApart
  BY <1>1 DEF Held, Unflushed, RestsApart, Once
<1>5. Apart'
  BY <1>1, <1>3, <1>4 DEF Apart, Once
<1>6. InFlight' = InFlight
  BY <1>1, <1>3, <1>4 DEF InFlight
<1> QED BY <1>2, <1>5, <1>6, QuietSettles

(* The end of the process.                                                 *)
LEMMA DieApart ==
    ASSUME Typed, Apart, Die
    PROVE  Apart' /\ Settles
<1>1. /\ callbacks' = {} /\ msgCh' = <<>> /\ queue' = <<>> /\ buffer' = <<>>
      /\ worker' = [w \in Workers |-> IdleWorker]
      /\ UNCHANGED <<log, tsdata>> /\ excused' = excused \cup InFlight
  BY DEF Die, Fresh, outside
<1>2. ToSet(<<>>) = {} /\ Once(<<>>)
  BY DEF ToSet, Once
<1>3. \A w \in Workers : worker'[w].rest = <<>>
  BY <1>1 DEF IdleWorker
<1>4. Early' = {}
  BY <1>1, <1>2 DEF Early, PointsOf
<1>5. Held' = {}
  BY <1>2, <1>3 DEF Held
<1>6. RestsApart'
  BY <1>2, <1>3 DEF RestsApart, Once
<1>7. Apart'
  BY <1>1, <1>2, <1>4, <1>5, <1>6 DEF Apart, Once
<1>8. InFlight' = {}
  <2>1. Unflushed' = {}
    BY <1>1, <1>2 DEF Unflushed
  <2> QED BY <1>1, <1>2, <1>4, <1>5, <2>1 DEF InFlight
<1>9. Accepted' = Accepted
  BY <1>1, LogKept
<1> QED BY <1>1, <1>7, <1>8, <1>9, QuietSettles

(* What a set of callbacks has to say is what its members have.            *)
LEMMA PointsOfUnion ==
    ASSUME NEW X, NEW Y
    PROVE  PointsOf(X \cup Y) = PointsOf(X) \cup PointsOf(Y)
  BY DEF PointsOf

(* Callbacks that are not the same have no point in common.                *)
LEMMA PointsOfApart ==
    ASSUME LogType, NEW X \in SUBSET Called, NEW Y \in SUBSET Called, X \cap Y = {}
    PROVE  PointsOf(X) \cap PointsOf(Y) = {}
<1> SUFFICES ASSUME NEW p \in PointsOf(X), p \in PointsOf(Y) PROVE FALSE
  OBVIOUS
<1>1. PICK i \in X : p \in ToSet(PointsFrom(i))
  BY DEF PointsOf
<1>2. PICK j \in Y : p \in ToSet(PointsFrom(j))
  BY DEF PointsOf
<1>3. i # j /\ i \in Called /\ j \in Called
  OBVIOUS
<1>4. ToSet(PointsFrom(i)) \cap ToSet(PointsFrom(j)) = {}
  BY <1>3, CallbacksApart
<1> QED BY <1>1, <1>2, <1>4

(* The points of a delivery are new.                                       *)
LEMMA DeliverApart ==
    ASSUME Typed, Apart, NEW m \in Messages, Deliver(m)
    PROVE  Apart' /\ Accepts
<1>0. PICK new : new = {<<Len(log) + 1, r>> : r \in Receivers(m.topic)}
  OBVIOUS
<1>1. LogType
  BY DEF Typed, TypeOK, LogType
<1>2. log' = Append(log, [msg |-> m, routes |-> Receivers(m.topic)])
  BY DEF Deliver
<1>3. /\ LogType' /\ Called' = Called \cup new /\ Accepted \subseteq Accepted'
      /\ \A i \in Called : PointsFrom(i)' = PointsFrom(i)
      /\ Accepted' = Accepted \cup PointsOf(new)'
  BY <1>0, <1>1, <1>2, ReceiversAreRoutes, LogGrows
<1>4. Called \cap new = {}
  <2>1. Len(log) \in Nat /\ DOMAIN log = 1 .. Len(log)
    BY <1>1 DEF LogType
  <2>2. Len(log) + 1 \notin DOMAIN log
    BY <2>1
  <2> QED BY <1>0, <2>2 DEF Called, Delivered
<1>5. callbacks' = callbacks \cup new
  BY <1>0 DEF Deliver
<1>6. UNCHANGED <<msgCh, worker, queue, writer, buffer, tsdata, excused>>
  BY DEF Deliver
<1>7. callbacks \subseteq Called /\ ToSet(msgCh) \subseteq Called
  BY DEF Typed, TypeOK, ToSet
<1>8. ASSUME NEW X \in SUBSET Called PROVE PointsOf(X)' = PointsOf(X)
  BY <1>3, Zenon DEF PointsOf
<1>9. Early' = Early \cup PointsOf(new)'
  <2>1. PICK X : X = callbacks \cup ToSet(msgCh)
    OBVIOUS
  <2>2. callbacks' \cup ToSet(msgCh') = X \cup new
    BY <1>5, <1>6, <2>1
  <2>3. X \in SUBSET Called
    BY <1>7, <2>1
  <2>4. PointsOf(X \cup new)' = PointsOf(X)' \cup PointsOf(new)'
    BY Zenon DEF PointsOf
  <2>5. PointsOf(X)' = Early
    BY <1>8, <2>1, <2>3 DEF Early
  <2>6. Early' = PointsOf(X \cup new)'
    BY <2>2, Zenon DEF Early, PointsOf
  <2> QED BY <2>4, <2>5, <2>6
<1>10. Accepted \cap PointsOf(new)' = {}
  <2>1. \A p \in PointsOf(new)' : p.src[1] = Len(log) + 1
    BY <1>0, <1>1, <1>2, ReceiversAreRoutes, LogGrows
  <2>2. \A p \in Accepted : p.src[1] \in DOMAIN log
    BY <1>1, AcceptedFacts
  <2>3. Len(log) + 1 \notin DOMAIN log
    BY <1>1 DEF LogType
  <2> QED BY <2>1, <2>2, <2>3
<1>11. Held' = Held /\ Unflushed' = Unflushed /\ RestsApart' = RestsApart
  BY <1>6 DEF Held, Unflushed, RestsApart, Once
<1>12. /\ Early \subseteq Accepted /\ Held \subseteq Accepted /\ ToSet(queue) \subseteq Accepted
       /\ InFlight \subseteq Accepted
  BY InFlightAccepted DEF InFlight
<1>13. ToSet(buffer) \subseteq Accepted
  BY DEF Typed, TypeOK, ToSet
<1>14. callbacks' \cap ToSet(msgCh') = {}
  BY <1>4, <1>5, <1>6, <1>7 DEF Apart
<1>15. Apart'
  BY <1>6, <1>9, <1>10, <1>11, <1>12, <1>13, <1>14 DEF Apart, Once
<1>16. InFlight' = InFlight \cup PointsOf(new)'
  BY <1>6, <1>9, <1>11 DEF InFlight
<1> QED BY <1>3, <1>6, <1>10, <1>12, <1>15, <1>16 DEF Accepts

(* What the callbacks do.                                                  *)
LEMMA CallbackApart ==
    ASSUME Typed, Apart, NEW c \in callbacks, CallbackSends(c) \/ CallbackGivesUp(c)
    PROVE  Apart' /\ Settles
<1>1. UNCHANGED <<log, worker, queue, writer, buffer, tsdata>> /\ callbacks' = callbacks \ {c}
  BY DEF CallbackSends, CallbackGivesUp
<1>2. Accepted' = Accepted /\ \A i : PointsFrom(i)' = PointsFrom(i)
  BY <1>1, LogKept
<1>3. Held' = Held /\ Unflushed' = Unflushed /\ RestsApart' = RestsApart
  BY <1>1 DEF Held, Unflushed, RestsApart, Once
<1>4. Early' = PointsOf(callbacks' \cup ToSet(msgCh'))
  BY <1>2, Zenon DEF Early, PointsOf
<1>5. msgCh \in Seq(Called) /\ c \in Called /\ Once(msgCh) /\ c \notin ToSet(msgCh)
      /\ callbacks \cap ToSet(msgCh) = {}
  BY DEF Typed, TypeOK, Apart
<1>6. CASE CallbackSends(c)
  <2>1. msgCh' = Append(msgCh, c) /\ excused' = excused
    BY <1>6 DEF CallbackSends
  <2>2. ToSet(msgCh') = ToSet(msgCh) \cup {c}
    BY <1>5, <2>1, AppendFacts
  <2>3. Once(msgCh')
    BY <1>5, <2>1, OnceFacts
  <2>4. callbacks' \cup ToSet(msgCh') = callbacks \cup ToSet(msgCh)
    BY <1>1, <2>2
  <2>5. Early' = Early
    BY <1>4, <2>4 DEF Early
  <2>6. callbacks' \cap ToSet(msgCh') = {}
    BY <1>1, <1>5, <2>2
  <2>7. Apart'
    BY <1>1, <1>3, <2>3, <2>5, <2>6 DEF Apart, Once
  <2>8. InFlight' = InFlight
    BY <1>1, <1>3, <2>5 DEF InFlight
  <2> QED BY <1>1, <1>2, <2>1, <2>7, <2>8, QuietSettles
<1>7. CASE CallbackGivesUp(c)
  <2>1. msgCh' = msgCh /\ excused' = excused \cup PointsOf({c})
    BY <1>7 DEF CallbackGivesUp
  <2>2. callbacks \cup ToSet(msgCh) = (callbacks' \cup ToSet(msgCh')) \cup {c}
    BY <1>1, <2>1
  <2>3. Early = Early' \cup PointsOf({c})
    BY <1>4, <2>2, PointsOfUnion DEF Early
  <2>4. Apart'
    BY <1>1, <1>3, <2>1, <2>3 DEF Apart, Once
  <2>5. InFlight' \subseteq InFlight /\ InFlight \ InFlight' \subseteq excused'
    BY <1>1, <1>3, <2>1, <2>3 DEF InFlight
  <2> QED BY <1>1, <1>2, <2>1, <2>4, <2>5, QuietSettles
<1> QED BY <1>6, <1>7

(* What the workers do.                                                    *)
LEMMA WorkerApart ==
    ASSUME Typed, Apart, NEW w \in Workers, TransformLoop(w)
    PROVE  Apart' /\ Settles
<1>1. UNCHANGED <<log, callbacks, writer, buffer, tsdata>>
  BY DEF TransformLoop, Receive, Enqueue, CountEnqueued, WorkerCancelled, WorkerDrained,
         process, outside
<1>2. Accepted' = Accepted /\ \A i : PointsFrom(i)' = PointsFrom(i)
  BY <1>1, LogKept
<1>3. Unflushed' = Unflushed
  BY <1>1 DEF Unflushed
<1>4. Early' = PointsOf(callbacks \cup ToSet(msgCh'))
  BY <1>1, <1>2, Zenon DEF Early, PointsOf
<1>5. LogType
  BY DEF Typed, TypeOK, LogType
<1>6. /\ worker[w].rest \in Seq(Accepted)
      /\ worker[w].pc = "enqueue" => worker[w].rest # <<>>
      /\ worker[w].pc \in {"idle", "stopped"} => worker[w].rest = <<>>
      /\ msgCh \in Seq(Called) /\ queue \in Seq(Accepted)
  BY DEF Typed, TypeOK
<1>7. RestsApart /\ Once(queue) /\ Once(msgCh)
  BY DEF Apart
<1>8. ToSet(<<>>) = {} /\ Once(<<>>)
  BY DEF ToSet, Once
<1> DEFINE H == Others(w)
<1>9. ASSUME Receive(w) PROVE Apart' /\ Settles
  <2> DEFINE c == Head(msgCh)
             points == PointsFrom(c)
             s == Ready(points)
             X == callbacks \cup ToSet(msgCh')
  <2>1. /\ worker' = [worker EXCEPT ![w] = s] /\ msgCh' = Tail(msgCh) /\ msgCh # <<>>
        /\ worker[w].rest = <<>> /\ UNCHANGED <<queue, excused>>
    BY <1>6, <1>9 DEF Receive
  <2>2. /\ c \in Called /\ ToSet(msgCh) = ToSet(msgCh') \cup {c}
        /\ Once(msgCh') /\ c \notin ToSet(msgCh')
    BY <1>6, <1>7, <2>1, TailFacts, OnceFacts
  <2>3. points \in Seq(Accepted) /\ Once(points)
    BY <1>5, <2>2, PointsFromFacts
  <2>4. WorkerFits(s) /\ s.rest = points
    BY <2>3, ReadyFits
  <2>5. callbacks \cap ToSet(msgCh) = {} /\ callbacks \subseteq Called /\ ToSet(msgCh) \subseteq Called
    BY DEF Typed, TypeOK, Apart, ToSet
  <2>6. X \in SUBSET Called /\ {c} \in SUBSET Called /\ X \cap {c} = {}
        /\ callbacks \cup ToSet(msgCh) = X \cup {c}
        /\ callbacks \cap ToSet(msgCh') = {}
    BY <2>2, <2>5
  <2>7. Early = Early' \cup PointsOf({c}) /\ Early' \cap PointsOf({c}) = {}
    <3> HIDE DEF X, c
    <3>1. Early' = PointsOf(X)
      BY <1>4 DEF X
    <3>2. Early = PointsOf(X \cup {c})
      BY <2>6 DEF Early
    <3> QED BY <1>5, <2>6, <3>1, <3>2, PointsOfUnion, PointsOfApart
  <2>8. PointsOf({c}) = ToSet(points)
    BY DEF PointsOf
  <2> HIDE DEF c, points, s, X
  <2>9. /\ Held = H \cup ToSet(worker[w].rest) /\ Held' = H \cup ToSet(points)
        /\ Once(points) /\ H \cap ToSet(points) = {} => RestsApart'
    BY <1>7, <2>1, <2>4, HeldFacts
  <2>10. Held = H /\ Held' = Held \cup ToSet(points)
    BY <1>8, <2>1, <2>9
  <2>11. RestsApart'
    BY <2>3, <2>7, <2>8, <2>9, <2>10 DEF Apart
  <2>12. callbacks' \cap ToSet(msgCh') = {}
    BY <1>1, <2>6
  <2> HIDE DEF H
  <2>13. Apart'
    <3>1. /\ Early' \cap Held' = {} /\ Early' \cap ToSet(queue') = {}
          /\ Early' \cap ToSet(buffer') = {}
          /\ Held' \cap ToSet(queue') = {} /\ Held' \cap ToSet(buffer') = {}
          /\ ToSet(queue') \cap ToSet(buffer') = {}
      BY <1>1, <2>1, <2>7, <2>8, <2>10 DEF Apart
    <3>2. Once(msgCh') /\ Once(queue') /\ Once(buffer')
      BY <1>1, <2>1, <2>2 DEF Apart
    <3> QED BY <2>11, <2>12, <3>1, <3>2 DEF Apart, Once
  <2>14. InFlight' = InFlight
    BY <1>3, <2>1, <2>7, <2>8, <2>10 DEF InFlight
  <2> QED BY <1>1, <1>2, <2>1, <2>13, <2>14, QuietSettles
<1>10. ASSUME Enqueue(w) PROVE Apart' /\ Settles
  <2> DEFINE p == Head(worker[w].rest)
             s == [pc |-> "count", rest |-> Tail(worker[w].rest)]
  <2>1. /\ worker' = [worker EXCEPT ![w] = s] /\ queue' = Append(queue, p)
        /\ worker[w].rest # <<>> /\ UNCHANGED <<msgCh, excused>>
    BY <1>6, <1>10 DEF Enqueue
  <2>2. /\ p \in Accepted /\ s.rest \in Seq(Accepted)
        /\ ToSet(worker[w].rest) = ToSet(s.rest) \cup {p}
    BY <1>6, <2>1, TailFacts
  <2>3. WorkerFits(s)
    BY <2>2 DEF WorkerFits, WorkerStates
  <2>4. Once(worker[w].rest)
    BY <1>7 DEF RestsApart
  <2>5. Once(s.rest) /\ p \notin ToSet(s.rest)
    BY <1>6, <2>1, <2>4, OnceFacts
  <2> HIDE DEF s, p
  <2>6. /\ Held = H \cup ToSet(worker[w].rest) /\ Held' = H \cup ToSet(s.rest)
        /\ H \cap ToSet(worker[w].rest) = {}
        /\ Once(s.rest) /\ H \cap ToSet(s.rest) = {} => RestsApart'
    BY <1>7, <2>1, <2>3, HeldFacts
  <2> HIDE DEF H
  <2>7. RestsApart' /\ Held = Held' \cup {p} /\ p \notin Held'
    BY <2>2, <2>5, <2>6
  <2>8. p \notin ToSet(queue)
    BY <2>7 DEF Apart
  <2>9. ToSet(queue') = ToSet(queue) \cup {p} /\ Once(queue')
    BY <1>6, <1>7, <2>1, <2>2, <2>8, AppendFacts, OnceFacts
  <2>10. Early' = Early
    BY <1>4, <2>1 DEF Early
  <2>11. Apart'
    BY <1>1, <2>1, <2>7, <2>9, <2>10 DEF Apart, Once
  <2>12. InFlight' = InFlight
    BY <1>3, <2>7, <2>9, <2>10 DEF InFlight
  <2> QED BY <1>1, <1>2, <2>1, <2>11, <2>12, QuietSettles
<1>11. ASSUME NEW s, WorkerFits(s), worker' = [worker EXCEPT ![w] = s],
              s.rest \in {<<>>, worker[w].rest},
              UNCHANGED <<msgCh, queue>>, excused \subseteq excused',
              s.rest = <<>> => ToSet(worker[w].rest) \subseteq excused'
       PROVE  Apart' /\ Settles
  <2>1. /\ Held = H \cup ToSet(worker[w].rest) /\ Held' = H \cup ToSet(s.rest)
        /\ H \cap ToSet(worker[w].rest) = {} /\ Once(worker[w].rest)
        /\ Once(s.rest) /\ H \cap ToSet(s.rest) = {} => RestsApart'
    BY <1>7, <1>11, HeldFacts
  <2> HIDE DEF H
  <2>2. Once(s.rest) /\ ToSet(s.rest) \in {{}, ToSet(worker[w].rest)}
    BY <1>8, <1>11, <2>1
  <2>3. RestsApart' /\ Held' \subseteq Held /\ Held \ Held' \subseteq excused'
    BY <1>11, <2>1, <2>2
  <2>4. Early' = Early
    BY <1>4, <1>11 DEF Early
  <2>5. Apart'
    BY <1>1, <1>11, <2>3, <2>4 DEF Apart, Once
  <2>6. InFlight' \subseteq InFlight /\ InFlight \ InFlight' \subseteq excused'
    BY <1>3, <1>11, <2>3, <2>4 DEF InFlight
  <2> QED BY <1>1, <1>2, <1>11, <2>5, <2>6, QuietSettles
<1>12. ASSUME CountEnqueued(w) PROVE Apart' /\ Settles
  <2>1. /\ worker' = [worker EXCEPT ![w] = Ready(worker[w].rest)]
        /\ UNCHANGED <<msgCh, queue, excused>>
    BY <1>12 DEF CountEnqueued
  <2>2. WorkerFits(Ready(worker[w].rest)) /\ Ready(worker[w].rest).rest = worker[w].rest
    BY <1>6, ReadyFits
  <2> QED BY <1>8, <1>11, <2>1, <2>2
<1>13. ASSUME WorkerCancelled(w) \/ WorkerDrained(w) PROVE Apart' /\ Settles
  <2> DEFINE s == [pc |-> "stopped", rest |-> <<>>]
  <2>1. /\ worker' = [worker EXCEPT ![w] = s]
        /\ UNCHANGED <<msgCh, queue>> /\ excused \subseteq excused'
        /\ ToSet(worker[w].rest) \subseteq excused'
    BY <1>6, <1>8, <1>13 DEF WorkerCancelled, WorkerDrained
  <2>2. WorkerFits(s) /\ s.rest = <<>>
    BY StoppedFits
  <2> HIDE DEF s
  <2> QED BY <1>11, <2>1, <2>2
<1> QED BY <1>9, <1>10, <1>12, <1>13 DEF TransformLoop

(* Some point of the statement has every key it names: the table has, or   *)
(* the first place of the batch with that key becomes a row.               *)
LEMMA NewRowsFacts ==
    ASSUME Typed, NEW s
    PROVE  /\ NewRows(s) \subseteq {p \in ToSet(buffer) : p.series = s}
           /\ OneRow(tsdata) => OneRow(tsdata \cup NewRows(s))
           /\ \A p \in ToSet(buffer) :
                p.series = s => \E q \in tsdata \cup NewRows(s) : Key(q) = Key(p)
<1>1. DOMAIN buffer \subseteq Nat
  BY DEF Typed, TypeOK
<1>2. \A i : i \in PlacesOf(s) <=> i \in DOMAIN buffer /\ buffer[i].series = s
  BY DEF PlacesOf
<1> DEFINE b(i) == buffer[i]
           New == {i \in PlacesOf(s) :
                     /\ \A q \in tsdata : Key(q) # Key(b(i))
                     /\ \A j \in PlacesOf(s) : j < i => Key(b(j)) # Key(b(i))}
<1>3. NewRows(s) = {b(i) : i \in New}
  BY Zenon DEF NewRows
<1>4. NewRows(s) \subseteq {p \in ToSet(buffer) : p.series = s}
  BY <1>2, <1>3 DEF ToSet
<1>5. ASSUME OneRow(tsdata) PROVE OneRow(tsdata \cup NewRows(s))
  <2> SUFFICES ASSUME NEW p \in tsdata \cup NewRows(s), NEW q \in tsdata \cup NewRows(s),
                      Key(p) = Key(q)
               PROVE  p = q
    BY Zenon DEF OneRow
  <2>1. CASE p \in tsdata /\ q \in tsdata
    BY <1>5, <2>1, Zenon DEF OneRow
  <2>2. CASE p \in NewRows(s) /\ q \in NewRows(s)
    <3>1. PICK i \in New : p = b(i)
      BY <1>3, <2>2
    <3>2. PICK j \in New : q = b(j)
      BY <1>3, <2>2
    <3>3. i \in Nat /\ j \in Nat /\ i \in PlacesOf(s) /\ j \in PlacesOf(s)
      BY <1>1, <1>2
    <3>4. ~(i < j) /\ ~(j < i)
      BY <3>1, <3>2, <3>3, Zenon
    <3>5. i = j
      BY <3>3, <3>4
    <3> QED BY <3>1, <3>2, <3>5
  <2>3. CASE p \in tsdata /\ q \in NewRows(s)
    BY <1>3, <2>3, Zenon
  <2>4. CASE p \in NewRows(s) /\ q \in tsdata
    BY <1>3, <2>4, Zenon
  <2> QED BY <2>1, <2>2, <2>3, <2>4
<1>6. ASSUME NEW p \in ToSet(buffer), p.series = s,
             \A q \in tsdata : Key(q) # Key(p)
      PROVE  \E q \in NewRows(s) : Key(q) = Key(p)
  <2> DEFINE Same == {i \in PlacesOf(s) : Key(b(i)) = Key(p)}
  <2>1. PICK k \in DOMAIN buffer : p = buffer[k]
    BY DEF ToSet
  <2>2. k \in Same
    BY <1>2, <1>6, <2>1
  <2>3. Same \in SUBSET Nat
    BY <1>1, <1>2
  <2>4. PICK i \in Same : \A j \in Same : i <= j
    <3> HIDE DEF Same
    <3> QED BY <2>2, <2>3, FirstPosition
  <2>5. \A j \in PlacesOf(s) : j < i => Key(b(j)) # Key(b(i))
    <3> SUFFICES ASSUME NEW j \in PlacesOf(s), j < i, Key(b(j)) = Key(b(i)) PROVE FALSE
      BY Zenon
    <3>1. j \in Same
      BY Zenon
    <3>2. i \in Nat /\ j \in Nat /\ i <= j
      BY <1>1, <1>2, <2>3, <2>4, <3>1
    <3> QED BY <3>2
  <2>6. i \in New
    BY <1>6, <2>5, Zenon
  <2> QED BY <1>3, <2>6
<1> QED BY <1>4, <1>5, <1>6

(* What the writer does.                                                   *)
LEMMA WriterApart ==
    ASSUME Typed, Apart, WriterStep
    PROVE  Apart' /\ Settles
<1>1. UNCHANGED <<log, callbacks, msgCh, worker>>
  BY DEF WriterStep, TakePoint, Tick, WriterCancelled, Flush, FlushSeries, FlushFails,
         FlushDone, process, outside
<1>2. Accepted' = Accepted /\ \A i : PointsFrom(i)' = PointsFrom(i)
  BY <1>1, LogKept
<1>3. Early' = Early
  BY <1>1, <1>2, Zenon DEF Early, PointsOf
<1>4. Held' = Held /\ RestsApart' = RestsApart
  BY <1>1 DEF Held, RestsApart, Once
<1>5. queue \in Seq(Accepted) /\ buffer \in Seq(Accepted) /\ Once(queue) /\ Once(buffer)
  BY DEF Typed, TypeOK, Apart
<1>6. ToSet(<<>>) = {} /\ Once(<<>>)
  BY DEF ToSet, Once
<1>7. ASSUME UNCHANGED queue, buffer' \in {<<>>, buffer} PROVE Apart'
  <2>1. Once(queue') /\ Once(buffer') /\ ToSet(buffer') \subseteq ToSet(buffer)
    BY <1>5, <1>6, <1>7
  <2>2. /\ Early' \cap Held' = {} /\ Early' \cap ToSet(queue') = {}
        /\ Early' \cap ToSet(buffer') = {}
        /\ Held' \cap ToSet(queue') = {} /\ Held' \cap ToSet(buffer') = {}
        /\ ToSet(queue') \cap ToSet(buffer') = {}
        /\ RestsApart' /\ callbacks' \cap ToSet(msgCh') = {} /\ Once(msgCh')
    BY <1>1, <1>3, <1>4, <1>7, <2>1 DEF Apart
  <2> QED BY <2>1, <2>2 DEF Apart, Once
<1>8. ASSUME NEW f, writer' = f, f.pc = "flush" => f.todo = {p.series : p \in ToSet(buffer')}
      PROVE  Unflushed' = ToSet(buffer')
  BY <1>8 DEF Unflushed
<1>9. \A x, l : Flushing(x, l).pc = "flush" /\ Flushing(x, l).todo = {p.series : p \in ToSet(x)}
  BY DEF Flushing
<1>10. ASSUME TakePoint PROVE Apart' /\ Settles
  <2> DEFINE p == Head(queue)
  <2>1. /\ buffer' = Append(buffer, p) /\ queue' = Tail(queue) /\ queue # <<>>
        /\ writer' \in {writer, Flushing(buffer', FALSE)} /\ writer.pc = "loop"
        /\ UNCHANGED <<tsdata, excused>>
    BY <1>10 DEF TakePoint, outside
  <2>2. /\ p \in Accepted /\ ToSet(queue) = ToSet(queue') \cup {p}
        /\ p \notin ToSet(queue') /\ Once(queue')
    BY <1>5, <2>1, TailFacts, OnceFacts
  <2>3. p \notin ToSet(buffer)
    BY <2>2 DEF Apart
  <2>4. ToSet(buffer') = ToSet(buffer) \cup {p} /\ Once(buffer')
    BY <1>5, <2>1, <2>2, <2>3, AppendFacts, OnceFacts
  <2> HIDE DEF p
  <2>5. /\ Early' \cap Held' = {} /\ Early' \cap ToSet(queue') = {}
        /\ Early' \cap ToSet(buffer') = {}
        /\ Held' \cap ToSet(queue') = {} /\ Held' \cap ToSet(buffer') = {}
        /\ ToSet(queue') \cap ToSet(buffer') = {}
        /\ RestsApart' /\ callbacks' \cap ToSet(msgCh') = {} /\ Once(msgCh')
    BY <1>1, <1>3, <1>4, <2>2, <2>4 DEF Apart
  <2>6. Apart'
    BY <2>2, <2>4, <2>5 DEF Apart, Once
  <2>7. Unflushed = ToSet(buffer)
    BY <2>1 DEF Unflushed
  <2>8. Unflushed' = ToSet(buffer')
    BY <1>8, <1>9, <2>1
  <2>9. InFlight' = InFlight
    BY <1>3, <1>4, <2>2, <2>4, <2>7, <2>8 DEF InFlight
  <2> QED BY <1>2, <2>1, <2>6, <2>9, QuietSettles
<1>11. ASSUME Tick \/ WriterCancelled PROVE Apart' /\ Settles
  <2>1. UNCHANGED <<queue, buffer, tsdata, excused>> /\ writer.pc = "loop"
    BY <1>11 DEF Tick, WriterCancelled, outside
  <2>2. \/ \E l : writer' = Flushing(buffer', l)
        \/ writer' = [pc |-> "stopped", todo |-> {}, last |-> FALSE]
    BY <1>11, <2>1 DEF Tick, WriterCancelled
  <2>3. Unflushed' = ToSet(buffer')
    <3>1. CASE \E l : writer' = Flushing(buffer', l)
      BY <1>8, <1>9, <3>1
    <3>2. CASE writer' = [pc |-> "stopped", todo |-> {}, last |-> FALSE]
      BY <3>2 DEF Unflushed
    <3> QED BY <2>2, <3>1, <3>2
  <2>4. Unflushed = ToSet(buffer)
    BY <2>1 DEF Unflushed
  <2>5. InFlight' = InFlight
    BY <1>3, <1>4, <2>1, <2>3, <2>4 DEF InFlight
  <2>6. Apart'
    BY <1>7, <2>1
  <2> QED BY <1>2, <2>1, <2>5, <2>6, QuietSettles
<1>12. ASSUME writer.pc = "flush", NEW s \in writer.todo, FlushSeries(s) PROVE Apart' /\ Settles
  <2>1. /\ tsdata' = tsdata \cup NewRows(s)
        /\ writer' = [writer EXCEPT !.todo = @ \ {s}]
        /\ UNCHANGED <<queue, buffer, excused>>
    BY <1>12 DEF FlushSeries
  <2>2. writer'.pc = "flush" /\ writer'.todo = writer.todo \ {s}
    BY <1>12, <2>1 DEF Typed, TypeOK
  <2>3. Unflushed = {p \in ToSet(buffer) : p.series \in writer.todo}
    BY <1>12 DEF Unflushed
  <2>4. Unflushed' = {p \in ToSet(buffer) : p.series \in writer.todo \ {s}}
    BY <2>1, <2>2 DEF Unflushed
  <2>5. Apart'
    BY <1>7, <2>1
  <2>6. Unflushed' \subseteq Unflushed /\ Unflushed \ Unflushed' = {p \in ToSet(buffer) : p.series = s}
    BY <1>12, <2>3, <2>4
  <2>7. /\ Early \cap ToSet(buffer) = {} /\ Held \cap ToSet(buffer) = {}
        /\ ToSet(queue) \cap ToSet(buffer) = {} /\ Unflushed \subseteq ToSet(buffer)
    BY <2>3 DEF Apart
  <2>8. /\ InFlight' \subseteq InFlight
        /\ InFlight \ InFlight' = {p \in ToSet(buffer) : p.series = s}
    BY <1>3, <1>4, <2>1, <2>6, <2>7 DEF InFlight
  <2>9. Settles
    BY <1>2, <2>1, <2>8, NewRowsFacts DEF Settles
  <2> QED BY <2>5, <2>9
<1>13. BackToLoop => writer'.pc # "flush"
  BY DEF BackToLoop
<1>14. ASSUME writer.pc = "flush", NEW s \in writer.todo, FlushFails(s) PROVE Apart' /\ Settles
  <2>1. /\ tsdata' \in {tsdata, tsdata \cup NewRows(s)}
        /\ excused' = excused \cup Unflushed /\ buffer' = <<>> /\ writer'.pc # "flush"
        /\ UNCHANGED queue
    BY <1>13, <1>14 DEF FlushFails
  <2>2. Apart'
    BY <1>7, <2>1
  <2>3. Unflushed' = {}
    BY <1>6, <2>1 DEF Unflushed
  <2>4. Unflushed = {p \in ToSet(buffer) : p.series \in writer.todo}
    BY <1>14 DEF Unflushed
  <2>5. /\ Early \cap ToSet(buffer) = {} /\ Held \cap ToSet(buffer) = {}
        /\ ToSet(queue) \cap ToSet(buffer) = {} /\ Unflushed \subseteq ToSet(buffer)
    BY <2>4 DEF Apart
  <2>6. InFlight' \subseteq InFlight /\ InFlight \ InFlight' = Unflushed
    BY <1>3, <1>4, <2>1, <2>3, <2>5 DEF InFlight
  <2>7. NewRows(s) \subseteq Unflushed /\ (OneRow(tsdata) => OneRow(tsdata \cup NewRows(s)))
    BY <1>14, <2>4, NewRowsFacts
  <2>8. Settles
    BY <1>2, <2>1, <2>6, <2>7 DEF Settles
  <2> QED BY <2>2, <2>8
<1>15. ASSUME writer.pc = "flush", FlushDone PROVE Apart' /\ Settles
  <2>1. /\ buffer' = <<>> /\ writer'.pc # "flush" /\ writer.todo = {}
        /\ UNCHANGED <<queue, tsdata, excused>>
    BY <1>13, <1>15 DEF FlushDone, outside
  <2>2. Apart'
    BY <1>7, <2>1
  <2>3. Unflushed' = {} /\ Unflushed = {}
    BY <1>6, <1>15, <2>1 DEF Unflushed
  <2>4. InFlight' = InFlight
    BY <1>3, <1>4, <2>1, <2>3 DEF InFlight
  <2> QED BY <1>2, <2>1, <2>2, <2>4, QuietSettles
<1> QED BY <1>10, <1>11, <1>12, <1>14, <1>15 DEF WriterStep, Flush

-----------------------------------------------------------------------------
(* Every step keeps the points apart, and accepts some or settles some.    *)
LEMMA StepEffect ==
    ASSUME Typed, Apart, [Next]_vars
    PROVE  Apart' /\ (Settles \/ Accepts)
<1>1. CASE Subscribe \/ SubscribeFails \/ Cancel \/ Stop \/ Return \/ Restart
  <2>1. UNCHANGED <<pipeline, log, tsdata, excused>>
    BY <1>1 DEF Subscribe, SubscribeFails, Cancel, Stop, Return, Restart, outside
  <2> QED BY <2>1, RunApart
<1>2. CASE Exit \/ Kill \/ \E c \in callbacks : CallbackPanics(c)
  BY <1>2, DieApart DEF Exit, Kill, CallbackPanics
<1>3. CASE \E m \in Messages : Deliver(m)
  BY <1>3, DeliverApart
<1>4. CASE \E c \in callbacks : CallbackSends(c) \/ CallbackGivesUp(c)
  BY <1>4, CallbackApart
<1>5. CASE \E w \in Workers : TransformLoop(w)
  BY <1>5, WorkerApart
<1>6. CASE WriterStep
  BY <1>6, WriterApart
<1>7. CASE UNCHANGED vars
  <2>1. UNCHANGED <<pipeline, log, tsdata, excused>>
    BY <1>7 DEF vars, pipeline
  <2> QED BY <2>1, RunApart
<1> QED BY <1>1, <1>2, <1>3, <1>4, <1>5, <1>6, <1>7 DEF Next, Callback

(* In the first state there are no points.                                 *)
LEMMA InitEmpty ==
    ASSUME Init
    PROVE  Apart /\ Accepted = {} /\ InFlight = {} /\ tsdata = {}
<1>1. ToSet(<<>>) = {} /\ Once(<<>>)
  BY DEF ToSet, Once
<1>2. /\ callbacks = {} /\ msgCh = <<>> /\ queue = <<>> /\ buffer = <<>> /\ log = <<>>
      /\ worker = [w \in Workers |-> IdleWorker] /\ tsdata = {}
  BY DEF Init
<1>3. \A w \in Workers : worker[w].rest = <<>>
  BY <1>2 DEF IdleWorker
<1>4. Early = {} /\ Held = {} /\ RestsApart /\ Unflushed = {}
  BY <1>1, <1>2, <1>3 DEF Early, PointsOf, Held, RestsApart, Unflushed
<1>5. Called = {}
  BY <1>2 DEF Called, Delivered
<1>6. Accepted = {}
  BY <1>5 DEF Accepted, PointsOf
<1>7. Apart
  BY <1>1, <1>2, <1>4 DEF Apart
<1>8. InFlight = {}
  BY <1>1, <1>2, <1>4 DEF InFlight
<1> QED BY <1>2, <1>6, <1>7, <1>8

Inv == Typed /\ Apart /\ OneRow(tsdata) /\ LossNeedsCause

(* The inductive invariant.                                                *)
LEMMA Invariance ==
    /\ Init => Inv
    /\ Inv /\ [Next]_vars => Inv'
<1>1. ASSUME Init PROVE Inv
  BY <1>1, InitTyped, InitEmpty DEF Inv, OneRow, LossNeedsCause
<1>2. ASSUME Inv, [Next]_vars PROVE Inv'
  <2>1. Typed' /\ Apart' /\ (Settles \/ Accepts)
    BY <1>2, NextTyped, StepEffect DEF Inv
  <2>2. OneRow(tsdata) /\ LossNeedsCause
    BY <1>2 DEF Inv
  <2>3. CASE Settles
    <3>1. OneRow(tsdata)'
      BY <2>2, <2>3 DEF Settles, OneRow
    <3>2. LossNeedsCause'
      <4> SUFFICES ASSUME NEW p \in Accepted', p \notin InFlight', p \notin excused'
                   PROVE  \E q \in tsdata' : Key(q) = Key(p)
        BY Zenon DEF LossNeedsCause
      <4>1. p \in Accepted /\ p \notin excused
        BY <2>3 DEF Settles
      <4>2. CASE p \in InFlight
        BY <2>3, <4>2, Zenon DEF Settles
      <4>3. CASE \E q \in tsdata : Key(q) = Key(p)
        BY <2>3, <4>3 DEF Settles
      <4> QED BY <2>2, <4>1, <4>2, <4>3 DEF LossNeedsCause
    <3> QED BY <2>1, <3>1, <3>2 DEF Inv
  <2>4. CASE Accepts
    <3>1. OneRow(tsdata)'
      BY <2>2, <2>4 DEF Accepts, OneRow
    <3>2. LossNeedsCause'
      <4> SUFFICES ASSUME NEW p \in Accepted', p \notin InFlight', p \notin excused'
                   PROVE  \E q \in tsdata' : Key(q) = Key(p)
        BY Zenon DEF LossNeedsCause
      <4>1. p \in Accepted /\ p \notin InFlight /\ p \notin excused /\ tsdata' = tsdata
        BY <2>4 DEF Accepts
      <4> QED BY <2>2, <4>1 DEF LossNeedsCause
    <3> QED BY <2>1, <3>1, <3>2 DEF Inv
  <2> QED BY <2>1, <2>3, <2>4
<1> QED BY <1>1, <1>2

(***************************************************************************)
(* No point is lost without a cause, however many workers, deliveries,     *)
(* restarts and failing statements there are: from the callback through    *)
(* transformLoop and the queue to Writer.flush, a point is handed on by    *)
(* every step or excused by it.                                            *)
(***************************************************************************)
THEOREM NothingLostSilently == Spec => []LossNeedsCause
<1>1. Inv => LossNeedsCause
  BY DEF Inv
<1> QED BY <1>1, Invariance, PTL DEF Spec

(***************************************************************************)
(* The pipeline implements PointContract: every step of it accepts new     *)
(* points, or settles points that were in flight and never one twice, and  *)
(* a row is stored once per key and never replaced.                        *)
(***************************************************************************)
THEOREM PipelineKeepsContract == Spec => KeepsContract
<1>1. Init => Contract!Init
  BY InitEmpty DEF Contract!Init
<1>2. Inv /\ Inv' /\ [Next]_vars => [Contract!Next]_<<Accepted, InFlight, tsdata>>
  <2> SUFFICES ASSUME Inv, Inv', [Next]_vars PROVE Contract!Next
    OBVIOUS
  <2>1. CASE Settles
    <3>1. Contract!OneRowPerKey(tsdata')
      BY DEF Contract!OneRowPerKey, Inv, OneRow
    <3> QED BY <2>1, <3>1 DEF Settles, Contract!Next, Contract!Settle
  <2>2. CASE Accepts
    BY <2>2 DEF Accepts, Contract!Next, Contract!Accept
  <2> QED BY <2>1, <2>2, StepEffect DEF Inv
<1> QED BY <1>1, <1>2, Invariance, PTL DEF Spec, KeepsContract, Contract!Spec

(* The key of a sample with a timestamp of its own does not depend on the  *)
(* delivery.                                                               *)
LEMMA StampedKey ==
    ASSUME NEW m \in Messages, NEW d, NEW e, NEW r \in DOMAIN Routes,
           NEW k \in DOMAIN Transform(m, d, r) \cap DOMAIN Transform(m, e, r),
           FromPayload(r, m, k)
    PROVE  Key(Transform(m, d, r)[k]) = Key(Transform(m, e, r)[k])
<1>1. \A x : Timestamp(r, m, x, k) = <<m.samples[k].ts, 0, 0>>
  BY Zenon DEF Timestamp
<1>2. \A x : k \in DOMAIN Transform(m, x, r) =>
        Key(Transform(m, x, r)[k]) = <<Target[m][r][k], Timestamp(r, m, x, k)>>
  BY TransformPoints, Zenon
<1>3. k \in DOMAIN Transform(m, d, r) /\ k \in DOMAIN Transform(m, e, r)
  OBVIOUS
<1>4. Timestamp(r, m, d, k) = Timestamp(r, m, e, k)
  BY <1>1, Zenon
<1>5. /\ Key(Transform(m, d, r)[k]) = <<Target[m][r][k], Timestamp(r, m, d, k)>>
      /\ Key(Transform(m, e, r)[k]) = <<Target[m][r][k], Timestamp(r, m, e, k)>>
  BY <1>2, <1>3, Zenon
<1> QED BY <1>4, <1>5

(***************************************************************************)
(* A sample that carries its own timestamp is stored in one row, however   *)
(* often its message is delivered: the table keeps one row per key, and    *)
(* the key is the same for every delivery.                                 *)
(***************************************************************************)
THEOREM StampedStoredOnce == Spec => []RedeliveryStoresOnce
<1>1. ASSUME Inv PROVE RedeliveryStoresOnce
  <2> SUFFICES ASSUME NEW p \in tsdata, NEW q \in tsdata,
                      FromPayload(p.src[2], log[p.src[1]].msg, p.src[3]),
                      log[p.src[1]].msg = log[q.src[1]].msg,
                      p.src[2] = q.src[2], p.src[3] = q.src[3]
               PROVE  p = q
    BY Zenon DEF RedeliveryStoresOnce
  <2>1. LogType /\ p \in Accepted /\ q \in Accepted /\ OneRow(tsdata)
    BY <1>1 DEF Inv, Typed, TypeOK, LogType
  <2> DEFINE m == log[p.src[1]].msg
             r == p.src[2]
             d == p.src[1]
             e == q.src[1]
  <2>2. p.src[1] \in DOMAIN log /\ m \in Messages /\ r \in DOMAIN Routes
    <3>1. p.src[1] \in DOMAIN log /\ <<p.src[1], p.src[2]>> \in Called
      BY <2>1, AcceptedFacts
    <3>2. p.src[2] \in DOMAIN Routes
      BY <3>1 DEF Called, Delivered
    <3> QED BY <2>1, <3>1, <3>2, LogEntry
  <2>3. p \in ToSet(PointsFrom(<<d, r>>)) /\ q \in ToSet(PointsFrom(<<e, q.src[2]>>))
    BY <2>1, AcceptedFacts
  <2>4. PointsFrom(<<d, r>>) = Transform(m, d, r) /\ PointsFrom(<<e, r>>) = Transform(m, e, r)
    BY Zenon DEF PointsFrom
  <2>5. q \in ToSet(PointsFrom(<<e, r>>))
    BY <2>3
  <2> HIDE DEF m, r, d, e
  <2>6. PICK i \in DOMAIN Transform(m, d, r) : p = Transform(m, d, r)[i]
    BY <2>3, <2>4 DEF ToSet
  <2>7. PICK j \in DOMAIN Transform(m, e, r) : q = Transform(m, e, r)[j]
    BY <2>4, <2>5 DEF ToSet
  <2>8. p.src = <<d, r, i>> /\ q.src = <<e, r, j>>
    <3>1. /\ \A k \in DOMAIN Transform(m, d, r) : Transform(m, d, r)[k].src = <<d, r, k>>
          /\ \A k \in DOMAIN Transform(m, e, r) : Transform(m, e, r)[k].src = <<e, r, k>>
      BY <2>2, TransformFacts
    <3> QED BY <2>6, <2>7, <3>1, Zenon
  <2>9. i = j
    BY <2>8
  <2>10. Key(p) = Key(q)
    <3>1. i \in DOMAIN Transform(m, d, r) \cap DOMAIN Transform(m, e, r)
      BY <2>6, <2>7, <2>9
    <3>2. FromPayload(r, m, i)
      <4>1. FromPayload(r, m, p.src[3])
        BY Zenon DEF r, m
      <4>2. p.src[3] = i
        BY <2>8
      <4> QED BY <4>1, <4>2, Zenon
    <3>3. Key(Transform(m, d, r)[i]) = Key(Transform(m, e, r)[i])
      BY <2>2, <3>1, <3>2, StampedKey
    <3> QED BY <2>6, <2>7, <2>9, <3>3, Zenon
  <2> QED BY <2>1, <2>10, Zenon DEF OneRow
<1> QED BY <1>1, Invariance, PTL DEF Spec

-----------------------------------------------------------------------------
(***************************************************************************)
(* Subscriptions and matchers.                                             *)
(***************************************************************************)

(* What the configuration guarantees of a route whose filter is derived.   *)
LEMMA RouteFacts ==
    ASSUME NEW r \in DOMAIN Routes, Routes[r].subscription = <<>>
    PROVE  /\ Routes[r].pattern \in Seq(STRING) /\ ValidFilter(Routes[r].pattern)
           /\ Routes[r].kind \in {"topic", "regex"}
           /\ Routes[r].kind = "regex" =>
                \A i \in DOMAIN Routes[r].pattern : Routes[r].pattern[i] # "+"
<1> DEFINE R == [kind : {"topic", "regex"}, pattern : Seq(STRING),
                 subscription : Seq(STRING), template : Nat, series : STRING,
                 mode : {"fixed", "script"},
                 format : {"auto", "number", "json"}, stamped : BOOLEAN]
<1>1. \A e \in R : e.pattern \in Seq(STRING) /\ e.kind \in {"topic", "regex"}
  OBVIOUS
<1>2. Routes \in Seq(R) /\ ValidRoute(Routes[r])
  BY IngestAssumption, Zenon
<1> HIDE DEF R
<1>3. Routes[r] \in R
  BY <1>2
<1> QED BY <1>1, <1>2, <1>3, Zenon DEF ValidRoute

(* What the matcher of a route takes fits the filter derived for it.       *)
LEMMA MatchedFits ==
    ASSUME NEW r \in DOMAIN Routes, NEW t \in Seq(STRING), Matches(r, t),
           Routes[r].subscription = <<>>
    PROVE  LevelsAccept(SubscriptionTopic(r), t)
<1>1. /\ Routes[r].pattern \in Seq(STRING) /\ ValidFilter(Routes[r].pattern)
      /\ Routes[r].kind \in {"topic", "regex"}
  BY RouteFacts, Zenon
<1>2. CASE Routes[r].kind = "regex"
  <2>1. RegexMatch(Routes[r].pattern, t)
    BY <1>2, Zenon DEF Matches
  <2>2. LevelsAccept(deriveSubscriptionTopicFromRegex(Routes[r].pattern), t)
    BY <1>1, <2>1, ExpressionIsSubscribed, Zenon
  <2>3. Routes[r].kind # "topic"
    BY <1>2
  <2> QED BY <2>2, <2>3, Zenon DEF SubscriptionTopic
<1>3. CASE Routes[r].kind = "topic"
  <2>1. Routes[r].kind # "regex"
    BY <1>3
  <2>2. WildcardMatch(Routes[r].pattern, t)
    BY <2>1, Zenon DEF Matches
  <2>3. LevelsAccept(Routes[r].pattern, t)
    BY <1>1, <2>2, FilterMatcherAgrees, Zenon
  <2> QED BY <1>3, <2>3, Zenon DEF SubscriptionTopic
<1> QED BY <1>1, <1>2, <1>3, Zenon

(* What fits the filter derived for a route passes its matcher, but for    *)
(* the two exceptions.                                                     *)
LEMMA FittingIsMatched ==
    ASSUME NEW r \in DOMAIN Routes, NEW t \in Seq(STRING),
           Routes[r].subscription = <<>>,
           LevelsAccept(SubscriptionTopic(r), t),
           Routes[r].kind = "regex" => "" \notin ToSet(t) /\ "#" \notin ToSet(Routes[r].pattern)
    PROVE  Matches(r, t)
<1>1. /\ Routes[r].pattern \in Seq(STRING) /\ ValidFilter(Routes[r].pattern)
      /\ Routes[r].kind \in {"topic", "regex"}
  BY RouteFacts, Zenon
<1>2. CASE Routes[r].kind = "regex"
  <2> DEFINE p == Routes[r].pattern
  <2>1. \A i \in DOMAIN p : p[i] # "+"
    BY <1>2, RouteFacts, Zenon
  <2>2. \A i \in DOMAIN p : p[i] # "#"
    BY <1>2, Zenon DEF ToSet
  <2>3. \A i \in DOMAIN t : t[i] # ""
    BY <1>2, Zenon DEF ToSet
  <2>4. LevelsAccept(deriveSubscriptionTopicFromRegex(p), t)
    <3>1. Routes[r].kind # "topic"
      BY <1>2
    <3> QED BY <3>1, Zenon DEF SubscriptionTopic
  <2>5. \A i \in DOMAIN p : p[i] # "+" /\ p[i] # "#"
    BY <2>1, <2>2, Zenon
  <2>6. RegexMatch(p, t)
    BY <1>1, <2>3, <2>4, <2>5, SubscriptionIsMatched, Zenon
  <2> QED BY <1>2, <2>6, Zenon DEF Matches
<1>3. CASE Routes[r].kind = "topic"
  <2>1. LevelsAccept(Routes[r].pattern, t)
    BY <1>3, Zenon DEF SubscriptionTopic
  <2>2. WildcardMatch(Routes[r].pattern, t)
    BY <1>1, <2>1, FilterMatcherAgrees, Zenon
  <2>3. Routes[r].kind # "regex"
    BY <1>3
  <2> QED BY <2>2, <2>3, Zenon DEF Matches
<1> QED BY <1>1, <1>2, <1>3, Zenon

(***************************************************************************)
(* The filters routes subscribe to and the matchers of the workers agree,  *)
(* for every list of routes the configuration accepts and every set of     *)
(* topics: a filter the code derives misses nothing its route would take,  *)
(* but "$" topics under a leading wildcard and what a later route with the *)
(* same filter takes over, and what it brings in excess has an empty level *)
(* or meets a literal "#".                                                 *)
(***************************************************************************)
THEOREM MatchersAgree == Spec => []SubscriptionMeetsMatcher
<1>1. ASSUME Typed PROVE SubscriptionMeetsMatcher
  <2> SUFFICES ASSUME NEW topic \in Topics, NEW r \in 1 .. subscribed,
                      Routes[r].subscription = <<>>
               PROVE  /\ Matches(r, topic) => \/ r \in Receivers(topic)
                                              \/ Superseded(r, subscribed)
                                              \/ Hidden(SubscriptionTopic(r), topic)
                      /\ r \in Receivers(topic) =>
                           \/ Matches(r, topic)
                           \/ Routes[r].kind = "regex" /\ ("" \in ToSet(topic)
                                          \/ "#" \in ToSet(Routes[r].pattern))
    BY Zenon DEF SubscriptionMeetsMatcher
  <2>1. r \in DOMAIN Routes
    <3>1. DOMAIN Routes = 1 .. Len(Routes) /\ Len(Routes) \in Nat /\ subscribed \in 0 .. Len(Routes)
      BY <1>1, IngestAssumption DEF Typed, TypeOK
    <3> QED BY <3>1
  <2>2. topic \in Seq(STRING)
    BY IngestAssumption, Zenon
  <2>3. r \in Receivers(topic) <=>
          /\ \E q \in 1 .. subscribed : FilterAccepts(SubscriptionTopic(q), topic)
          /\ LevelsAccept(SubscriptionTopic(r), topic)
          /\ ~Superseded(r, subscribed)
    BY <1>1, ReceiversFacts, Zenon
  <2>4. ASSUME Matches(r, topic), ~Superseded(r, subscribed),
               ~Hidden(SubscriptionTopic(r), topic)
        PROVE  r \in Receivers(topic)
    <3>1. LevelsAccept(SubscriptionTopic(r), topic)
      BY <2>1, <2>2, <2>4, MatchedFits, Zenon
    <3>2. FilterAccepts(SubscriptionTopic(r), topic)
      BY <2>4, <3>1, Zenon DEF FilterAccepts
    <3> QED BY <2>3, <2>4, <3>1, <3>2, Zenon
  <2>5. ASSUME r \in Receivers(topic),
               ~(Routes[r].kind = "regex" /\ ("" \in ToSet(topic)
                                               \/ "#" \in ToSet(Routes[r].pattern)))
        PROVE  Matches(r, topic)
    BY <2>1, <2>2, <2>3, <2>5, FittingIsMatched, Zenon
  <2> QED BY <2>4, <2>5, Zenon
<1>2. Init => Typed
  BY InitTyped
<1>3. Typed /\ [Next]_vars => Typed'
  BY NextTyped
<1> QED BY <1>1, <1>2, <1>3, PTL DEF Spec

-----------------------------------------------------------------------------
(***************************************************************************)
(* The counters.  The bound on what is counted as transformed has to tell  *)
(* the points the workers still hold.                                      *)
(***************************************************************************)
Counting == {w \in Workers : worker[w].pc = "count"}

StatsInv ==
    /\ stats.inserted + stats.failed + (Cardinality(Unflushed) + Len(queue))
         <= stats.enqueued + Cardinality(Counting)
    /\ stats.enqueued + Cardinality(Counting) + Cardinality(Held) <= stats.transformed

(* The elements of a sequence.                                             *)
LEMMA ToSetFinite ==
    ASSUME NEW S, NEW s \in Seq(S)
    PROVE  IsFiniteSet(ToSet(s)) /\ Cardinality(ToSet(s)) <= Len(s)
<1>1. DOMAIN s = 1 .. Len(s) /\ Len(s) \in Nat
  BY SeqFacts
<1>2. IsFiniteSet(DOMAIN s) /\ Cardinality(DOMAIN s) = Len(s)
  BY <1>1, FS_Interval
<1>3. ToSet(s) = {s[i] : i \in DOMAIN s}
  BY DEF ToSet
<1> QED BY <1>2, <1>3, ImageFacts

PartsAreFinite ==
    /\ IsFiniteSet(ToSet(buffer)) /\ IsFiniteSet(Unflushed) /\ IsFiniteSet(Held)
    /\ IsFiniteSet(Counting)
    /\ Cardinality(Unflushed) \in Nat /\ Cardinality(Held) \in Nat
    /\ Cardinality(Counting) \in Nat /\ Len(queue) \in Nat

(* All parts of the pipeline are finite.                                   *)
LEMMA PartsFinite == Typed => PartsAreFinite
<1> SUFFICES ASSUME Typed PROVE PartsAreFinite
  OBVIOUS
<1>1. IsFiniteSet(ToSet(buffer))
  BY ToSetFinite DEF Typed, TypeOK
<1>2. IsFiniteSet(Unflushed)
  <2>1. Unflushed \in SUBSET ToSet(buffer)
    BY DEF Unflushed
  <2> QED BY <1>1, <2>1, FS_Subset
<1>3. IsFiniteSet(Workers)
  BY IngestAssumption
<1>4. IsFiniteSet(Counting)
  BY <1>3, FS_Subset DEF Counting
<1>5. IsFiniteSet(Held)
  <2> DEFINE f == [w \in Workers |-> ToSet(worker[w].rest)]
             F == {f[w] : w \in Workers}
  <2>1. \A w \in Workers : IsFiniteSet(f[w])
    <3> SUFFICES ASSUME NEW w \in Workers PROVE IsFiniteSet(f[w])
      OBVIOUS
    <3>1. worker[w].rest \in Seq(Accepted)
      BY DEF Typed, TypeOK
    <3>2. f[w] = ToSet(worker[w].rest)
      OBVIOUS
    <3> QED BY <3>1, <3>2, ToSetFinite
  <2>2. Held = UNION F
    BY DEF Held
  <2> HIDE DEF f
  <2>3. IsFiniteSet(F)
    BY <1>3, ImageFacts
  <2>4. \A T \in F : IsFiniteSet(T)
    BY <2>1
  <2> QED BY <2>2, <2>3, <2>4, FS_UNION
<1>6. Len(queue) \in Nat
  BY DEF Typed, TypeOK
<1> QED BY <1>1, <1>2, <1>4, <1>5, <1>6, FS_CardinalityType DEF PartsAreFinite

(* Who counts, before and after the step of a worker.                      *)
LEMMA CountingFacts ==
    ASSUME Typed, NEW w \in Workers, NEW s, worker' = [worker EXCEPT ![w] = s]
    PROVE  /\ w \in Counting <=> worker[w].pc = "count"
           /\ s.pc = "count" => Counting' = Counting \cup {w}
           /\ s.pc # "count" => Counting' = Counting \ {w}
<1>1. worker \in [Workers -> WorkerStates]
  BY DEF Typed, TypeOK, WorkerStates
<1>2. worker'[w] = s /\ \A v \in Workers \ {w} : worker'[v] = worker[v]
  BY <1>1
<1>3. worker'[w].pc = s.pc /\ \A v \in Workers \ {w} : worker'[v].pc = worker[v].pc
  BY <1>2, Zenon
<1> QED BY <1>3 DEF Counting

(* Cardinalities of a union and of a part.                                 *)
LEMMA CardFacts ==
    ASSUME NEW S, IsFiniteSet(S), NEW T, IsFiniteSet(T)
    PROVE  /\ Cardinality(S) \in Nat /\ Cardinality(T) \in Nat
           /\ Cardinality(S \cup T) \in Nat
           /\ Cardinality(S \cup T) <= Cardinality(S) + Cardinality(T)
           /\ S \cap T = {} => Cardinality(S \cup T) = Cardinality(S) + Cardinality(T)
           /\ S \subseteq T => Cardinality(S) <= Cardinality(T)
<1>1. /\ IsFiniteSet(S \cup T) /\ IsFiniteSet(S \cap T)
      /\ Cardinality(S \cup T) = Cardinality(S) + Cardinality(T) - Cardinality(S \cap T)
  <2>1. S \cap T \in SUBSET S
    OBVIOUS
  <2> QED BY <2>1, FS_Union, FS_Subset
<1>2. /\ Cardinality(S) \in Nat /\ Cardinality(T) \in Nat
      /\ Cardinality(S \cup T) \in Nat /\ Cardinality(S \cap T) \in Nat
  BY <1>1, FS_CardinalityType
<1>3. S \cap T = {} => Cardinality(S \cap T) = 0
  BY FS_EmptySet
<1>4. S \subseteq T => Cardinality(S) <= Cardinality(T)
  BY FS_Subset
<1> QED BY <1>1, <1>2, <1>3, <1>4

(* The counters and the workers.                                           *)
LEMMA WorkerStats ==
    ASSUME Typed, Typed', Apart, StatsInv, NEW w \in Workers, TransformLoop(w)
    PROVE  StatsInv'
<1>1. UNCHANGED <<log, callbacks, writer, buffer>>
  BY DEF TransformLoop, Receive, Enqueue, CountEnqueued, WorkerCancelled, WorkerDrained,
         process, outside
<1>2. Unflushed' = Unflushed
  BY <1>1 DEF Unflushed
<1>3. LogType /\ RestsApart
  BY DEF Typed, TypeOK, LogType, Apart
<1>4. /\ stats.inserted \in Nat /\ stats.failed \in Nat /\ stats.enqueued \in Nat
      /\ stats.transformed \in Nat
      /\ stats \in [transformed : Nat, enqueued : Nat, inserted : Nat, failed : Nat]
  BY DEF Typed, TypeOK
<1>5. /\ IsFiniteSet(Held) /\ IsFiniteSet(Counting)
      /\ Cardinality(Unflushed) \in Nat /\ Cardinality(Held) \in Nat
      /\ Cardinality(Counting) \in Nat /\ Len(queue) \in Nat
  BY PartsFinite DEF PartsAreFinite
<1>6. /\ IsFiniteSet(Held') /\ Cardinality(Held') \in Nat /\ Cardinality(Counting') \in Nat
  <2>1. PartsAreFinite'
    BY PartsFinite, PTL
  <2> QED BY <2>1 DEF PartsAreFinite
<1>7. /\ worker[w].rest \in Seq(Accepted)
      /\ worker[w].pc = "enqueue" => worker[w].rest # <<>>
      /\ worker[w].pc \in {"idle", "stopped"} => worker[w].rest = <<>>
      /\ msgCh \in Seq(Called) /\ queue \in Seq(Accepted)
  BY DEF Typed, TypeOK
<1>8. /\ Cardinality(Counting \cup {w})
           = IF w \in Counting THEN Cardinality(Counting) ELSE Cardinality(Counting) + 1
      /\ Cardinality(Counting \ {w})
           = IF w \in Counting THEN Cardinality(Counting) - 1 ELSE Cardinality(Counting)
  BY <1>5, FS_AddElement, FS_RemoveElement
<1> DEFINE H == Others(w)
<1>9. CASE Receive(w)
  <2> DEFINE points == PointsFrom(Head(msgCh))
             s == Ready(points)
  <2>1. /\ worker' = [worker EXCEPT ![w] = s] /\ msgCh # <<>> /\ queue' = queue
        /\ stats' = [stats EXCEPT !.transformed = @ + Len(points)]
        /\ worker[w].rest = <<>> /\ worker[w].pc = "idle"
    BY <1>7, <1>9 DEF Receive
  <2>2. points \in Seq(Accepted)
    <3>1. Head(msgCh) \in Called
      BY <1>7, <2>1, TailFacts
    <3> QED BY <1>3, <3>1, PointsFromFacts
  <2>3. WorkerFits(s) /\ s.rest = points /\ s.pc # "count"
    BY <2>2, ReadyFits
  <2> HIDE DEF points, s
  <2>4. Held = H \cup ToSet(worker[w].rest) /\ Held' = H \cup ToSet(points)
    BY <1>3, <2>1, <2>3, HeldFacts
  <2>5. Held' = Held \cup ToSet(points)
    <3>1. ToSet(<<>>) = {}
      BY DEF ToSet
    <3> QED BY <2>1, <2>4, <3>1
  <2>6. IsFiniteSet(ToSet(points)) /\ Cardinality(ToSet(points)) <= Len(points) /\ Len(points) \in Nat
    BY <2>2, ToSetFinite
  <2>7. Cardinality(Held') <= Cardinality(Held) + Len(points)
    <3>1. Cardinality(Held') <= Cardinality(Held) + Cardinality(ToSet(points))
          /\ Cardinality(ToSet(points)) \in Nat
      BY <1>5, <2>5, <2>6, CardFacts
    <3> QED BY <1>5, <1>6, <2>6, <3>1
  <2>8. Counting' = Counting
    <3>1. w \notin Counting /\ Counting' = Counting \ {w}
      BY <2>1, <2>3, CountingFacts
    <3> QED BY <3>1
  <2>9. /\ stats'.inserted = stats.inserted /\ stats'.failed = stats.failed
        /\ stats'.enqueued = stats.enqueued /\ stats'.transformed = stats.transformed + Len(points)
    BY <1>4, <2>1
  <2>10. stats.enqueued + Cardinality(Counting) + Cardinality(Held') <= stats.transformed + Len(points)
    BY <1>4, <1>5, <1>6, <2>6, <2>7, SMTT(30) DEF StatsInv
  <2>11. stats.inserted + stats.failed + (Cardinality(Unflushed) + Len(queue))
           <= stats.enqueued + Cardinality(Counting)
    BY DEF StatsInv
  <2> QED BY <1>2, <2>1, <2>8, <2>9, <2>10, <2>11 DEF StatsInv
<1>10. CASE Enqueue(w)
  <2> DEFINE p == Head(worker[w].rest)
             s == [pc |-> "count", rest |-> Tail(worker[w].rest)]
  <2>1. /\ worker' = [worker EXCEPT ![w] = s] /\ queue' = Append(queue, p)
        /\ worker[w].rest # <<>> /\ UNCHANGED stats /\ worker[w].pc = "enqueue"
    BY <1>7, <1>10 DEF Enqueue
  <2>2. /\ p \in Accepted /\ s.rest \in Seq(Accepted)
        /\ ToSet(worker[w].rest) = ToSet(s.rest) \cup {p}
    BY <1>7, <2>1, TailFacts
  <2>3. WorkerFits(s) /\ s.pc = "count"
    BY <2>2 DEF WorkerFits, WorkerStates
  <2>4. Once(worker[w].rest)
    BY <1>3 DEF RestsApart
  <2>5. p \notin ToSet(s.rest)
    BY <1>7, <2>1, <2>4, OnceFacts
  <2> HIDE DEF s, p
  <2>6. /\ Held = H \cup ToSet(worker[w].rest) /\ Held' = H \cup ToSet(s.rest)
        /\ H \cap ToSet(worker[w].rest) = {}
    BY <1>3, <2>1, <2>3, HeldFacts
  <2> HIDE DEF H
  <2>7. Held = Held' \cup {p} /\ p \notin Held'
    BY <2>2, <2>5, <2>6
  <2>8. Cardinality(Held) = Cardinality(Held') + 1
    BY <1>6, <2>7, FS_AddElement
  <2>9. Len(queue') = Len(queue) + 1
    BY <1>7, <2>1, <2>2, AppendFacts
  <2>10. w \notin Counting /\ Counting' = Counting \cup {w}
    BY <2>1, <2>3, CountingFacts
  <2>11. Cardinality(Counting') = Cardinality(Counting) + 1
    BY <1>8, <2>10
  <2>12. stats' = stats
    BY <2>1
  <2>13. Len(queue) \in Nat /\ Len(queue') \in Nat
    BY <1>5, <2>9
  <2>14. stats.inserted + stats.failed + (Cardinality(Unflushed) + (Len(queue) + 1))
           <= stats.enqueued + (Cardinality(Counting) + 1)
    BY <1>4, <1>5, SMTT(30) DEF StatsInv
  <2>15. stats.enqueued + (Cardinality(Counting) + 1) + Cardinality(Held') <= stats.transformed
    BY <1>4, <1>5, <1>6, <2>8, SMTT(30) DEF StatsInv
  <2> QED BY <1>2, <2>9, <2>11, <2>12, <2>14, <2>15 DEF StatsInv
<1>11. CASE CountEnqueued(w)
  <2> DEFINE s == Ready(worker[w].rest)
  <2>1. /\ worker' = [worker EXCEPT ![w] = s] /\ queue' = queue
        /\ stats' = [stats EXCEPT !.enqueued = @ + 1] /\ worker[w].pc = "count"
    BY <1>11 DEF CountEnqueued
  <2>2. WorkerFits(s) /\ s.rest = worker[w].rest /\ s.pc # "count"
    BY <1>7, ReadyFits
  <2> HIDE DEF s
  <2>3. Held' = Held
    BY <1>3, <2>1, <2>2, HeldFacts
  <2>4. w \in Counting /\ Counting' = Counting \ {w}
    BY <2>1, <2>2, CountingFacts
  <2>5. Cardinality(Counting') = Cardinality(Counting) - 1
    BY <1>8, <2>4
  <2>6. /\ stats'.inserted = stats.inserted /\ stats'.failed = stats.failed
        /\ stats'.enqueued = stats.enqueued + 1 /\ stats'.transformed = stats.transformed
    BY <1>4, <2>1
  <2>7. stats.inserted + stats.failed + (Cardinality(Unflushed) + Len(queue))
          <= (stats.enqueued + 1) + (Cardinality(Counting) - 1)
    BY <1>4, <1>5, SMTT(30) DEF StatsInv
  <2>8. (stats.enqueued + 1) + (Cardinality(Counting) - 1) + Cardinality(Held) <= stats.transformed
    BY <1>4, <1>5, SMTT(30) DEF StatsInv
  <2> QED BY <1>2, <2>1, <2>3, <2>5, <2>6, <2>7, <2>8 DEF StatsInv
<1>12. CASE WorkerCancelled(w) \/ WorkerDrained(w)
  <2> DEFINE s == [pc |-> "stopped", rest |-> <<>>]
  <2>1. /\ worker' = [worker EXCEPT ![w] = s] /\ UNCHANGED <<queue, stats>>
        /\ worker[w].pc # "count"
    BY <1>12 DEF WorkerCancelled, WorkerDrained
  <2>2. WorkerFits(s) /\ s.rest = <<>> /\ s.pc # "count"
    BY StoppedFits
  <2> HIDE DEF s
  <2>3. Held' \subseteq Held
    <3>1. Held = H \cup ToSet(worker[w].rest) /\ Held' = H \cup ToSet(s.rest)
      BY <1>3, <2>1, <2>2, HeldFacts
    <3>2. ToSet(<<>>) = {}
      BY DEF ToSet
    <3> QED BY <2>2, <3>1, <3>2
  <2>4. Cardinality(Held') <= Cardinality(Held)
    BY <1>5, <1>6, <2>3, CardFacts
  <2>5. w \notin Counting /\ Counting' = Counting \ {w}
    BY <2>1, <2>2, CountingFacts
  <2>6. Counting' = Counting
    BY <2>5
  <2> QED BY <1>2, <1>4, <1>5, <1>6, <2>1, <2>4, <2>6 DEF StatsInv
<1> QED BY <1>9, <1>10, <1>11, <1>12 DEF TransformLoop

(* The counters and the writer.                                            *)
LEMMA WriterStats ==
    ASSUME Typed, Typed', Apart, StatsInv, WriterStep
    PROVE  StatsInv'
<1>1. UNCHANGED worker
  BY DEF WriterStep, TakePoint, Tick, WriterCancelled, Flush, FlushSeries, FlushFails,
         FlushDone, process, outside
<1>2. Held' = Held /\ Counting' = Counting
  BY <1>1 DEF Held, Counting
<1>3. /\ stats.inserted \in Nat /\ stats.failed \in Nat /\ stats.enqueued \in Nat
      /\ stats.transformed \in Nat
      /\ stats \in [transformed : Nat, enqueued : Nat, inserted : Nat, failed : Nat]
  BY DEF Typed, TypeOK
<1>4. PartsAreFinite /\ PartsAreFinite'
  BY PartsFinite, PTL
<1>5. /\ IsFiniteSet(ToSet(buffer)) /\ IsFiniteSet(Unflushed)
      /\ Cardinality(Unflushed) \in Nat /\ Cardinality(Held) \in Nat
      /\ Cardinality(Counting) \in Nat /\ Len(queue) \in Nat
      /\ IsFiniteSet(Unflushed') /\ Cardinality(Unflushed') \in Nat /\ Len(queue') \in Nat
  BY <1>4 DEF PartsAreFinite
<1>6. queue \in Seq(Accepted) /\ buffer \in Seq(Accepted) /\ Once(queue) /\ Once(buffer)
  BY DEF Typed, TypeOK, Apart
<1>7. /\ stats.inserted + stats.failed + (Cardinality(Unflushed) + Len(queue))
           <= stats.enqueued + Cardinality(Counting)
      /\ stats.enqueued + Cardinality(Counting) + Cardinality(Held) <= stats.transformed
  BY DEF StatsInv
<1>8. ASSUME NEW f, writer' = f, f.pc = "flush" => f.todo = {p.series : p \in ToSet(buffer')}
      PROVE  Unflushed' = ToSet(buffer')
  BY <1>8 DEF Unflushed
<1>9. \A x, l : Flushing(x, l).pc = "flush" /\ Flushing(x, l).todo = {p.series : p \in ToSet(x)}
  BY DEF Flushing
<1>10. ASSUME stats' = stats,
              Cardinality(Unflushed') + Len(queue') <= Cardinality(Unflushed) + Len(queue)
       PROVE  StatsInv'
  BY <1>2, <1>3, <1>5, <1>7, <1>10, SMTT(30) DEF StatsInv
<1>11. CASE TakePoint
  <2> DEFINE p == Head(queue)
  <2>1. /\ buffer' = Append(buffer, p) /\ queue' = Tail(queue) /\ queue # <<>>
        /\ writer' \in {writer, Flushing(buffer', FALSE)} /\ writer.pc = "loop"
        /\ stats' = stats
    BY <1>11 DEF TakePoint, outside
  <2>2. p \in Accepted /\ Len(queue') = Len(queue) - 1
    BY <1>6, <2>1, TailFacts
  <2>3. ToSet(buffer') = ToSet(buffer) \cup {p}
    BY <1>6, <2>1, <2>2, AppendFacts
  <2> HIDE DEF p
  <2>4. Unflushed = ToSet(buffer)
    BY <2>1 DEF Unflushed
  <2>5. Unflushed' = ToSet(buffer')
    BY <1>8, <1>9, <2>1
  <2>6. Cardinality(Unflushed') <= Cardinality(Unflushed) + 1
    <3>1. Cardinality(Unflushed \cup {p})
            = IF p \in Unflushed THEN Cardinality(Unflushed) ELSE Cardinality(Unflushed) + 1
      BY <1>5, FS_AddElement
    <3>2. Unflushed' = Unflushed \cup {p}
      BY <2>3, <2>4, <2>5
    <3> QED BY <1>5, <3>1, <3>2
  <2> QED BY <1>5, <1>10, <2>1, <2>2, <2>6
<1>12. CASE Tick \/ WriterCancelled
  <2>1. UNCHANGED <<queue, buffer, stats>> /\ writer.pc = "loop"
    BY <1>12 DEF Tick, WriterCancelled, outside
  <2>2. \/ \E l : writer' = Flushing(buffer', l)
        \/ writer' = [pc |-> "stopped", todo |-> {}, last |-> FALSE]
    BY <1>12, <2>1 DEF Tick, WriterCancelled
  <2>3. Unflushed' = ToSet(buffer')
    <3>1. CASE \E l : writer' = Flushing(buffer', l)
      BY <1>8, <1>9, <3>1
    <3>2. CASE writer' = [pc |-> "stopped", todo |-> {}, last |-> FALSE]
      BY <3>2 DEF Unflushed
    <3> QED BY <2>2, <3>1, <3>2
  <2>4. Unflushed = ToSet(buffer)
    BY <2>1 DEF Unflushed
  <2>5. Unflushed' = Unflushed /\ queue' = queue
    BY <2>1, <2>3, <2>4
  <2> QED BY <1>5, <1>10, <2>1, <2>5
<1>13. ASSUME NEW s PROVE IsFiniteSet(PlacesOf(s)) /\ Cardinality(PlacesOf(s)) \in Nat
                          /\ Cardinality(PlacesOf(s)) = Cardinality({buffer[i] : i \in PlacesOf(s)})
                          /\ {buffer[i] : i \in PlacesOf(s)} = {p \in ToSet(buffer) : p.series = s}
  <2>1. IsFiniteSet(DOMAIN buffer)
    <3>1. DOMAIN buffer = 1 .. Len(buffer) /\ Len(buffer) \in Nat
      BY <1>6
    <3> QED BY <3>1, FS_Interval
  <2>2. IsFiniteSet(PlacesOf(s))
    BY <2>1, FS_Subset DEF PlacesOf
  <2>3. \A i, j \in PlacesOf(s) : buffer[i] = buffer[j] => i = j
    BY <1>6, Zenon DEF Once, PlacesOf
  <2>4. Cardinality(PlacesOf(s)) = Cardinality({buffer[i] : i \in PlacesOf(s)})
    BY <2>2, <2>3, ImageFacts
  <2>5. {buffer[i] : i \in PlacesOf(s)} = {p \in ToSet(buffer) : p.series = s}
    BY DEF PlacesOf, ToSet
  <2> QED BY <2>2, <2>4, <2>5, FS_CardinalityType
<1>14. ASSUME writer.pc = "flush", NEW s \in writer.todo, FlushSeries(s) PROVE StatsInv'
  <2> DEFINE k == Cardinality(NewRows(s))
             S == {p \in ToSet(buffer) : p.series = s}
  <2>1. /\ stats' = [stats EXCEPT !.inserted = @ + k]
        /\ writer' = [writer EXCEPT !.todo = @ \ {s}]
        /\ UNCHANGED <<queue, buffer>>
    BY <1>14 DEF FlushSeries
  <2>2. writer'.pc = "flush" /\ writer'.todo = writer.todo \ {s}
    BY <1>14, <2>1 DEF Typed, TypeOK
  <2>3. Unflushed = {p \in ToSet(buffer) : p.series \in writer.todo}
    BY <1>14 DEF Unflushed
  <2>4. Unflushed' = {p \in ToSet(buffer) : p.series \in writer.todo \ {s}}
    BY <2>1, <2>2 DEF Unflushed
  <2>5. Unflushed = Unflushed' \cup S /\ Unflushed' \cap S = {}
    BY <1>14, <2>3, <2>4
  <2>6. NewRows(s) \in SUBSET S
    BY NewRowsFacts
  <2>7. IsFiniteSet(S)
    BY <1>5, FS_Subset
  <2> HIDE DEF S
  <2>8. Cardinality(Unflushed) = Cardinality(Unflushed') + Cardinality(S) /\ Cardinality(S) \in Nat
    BY <1>5, <2>5, <2>7, CardFacts
  <2>9. k <= Cardinality(S) /\ k \in Nat
    BY <2>6, <2>7, FS_Subset, FS_CardinalityType
  <2> HIDE DEF k
  <2>10. /\ stats'.inserted = stats.inserted + k /\ stats'.failed = stats.failed
         /\ stats'.enqueued = stats.enqueued /\ stats'.transformed = stats.transformed
    BY <1>3, <2>1
  <2>11. stats.inserted + k + stats.failed + (Cardinality(Unflushed') + Len(queue))
           <= stats.enqueued + Cardinality(Counting)
    <3>1. \A a, b, c, d, v, x \in Nat :
            a + b + ((v + c) + d) <= x /\ k <= c => a + k + b + (v + d) <= x
      BY <2>9
    <3>2. stats.enqueued + Cardinality(Counting) \in Nat
      BY <1>3, <1>5
    <3> QED BY <1>3, <1>5, <1>7, <2>8, <2>9, <3>1, <3>2
  <2>12. queue' = queue
    BY <2>1
  <2> QED BY <1>2, <1>7, <2>10, <2>11, <2>12 DEF StatsInv
<1>15. BackToLoop => writer'.pc # "flush"
  BY DEF BackToLoop
<1>16. ToSet(<<>>) = {} /\ Cardinality({}) = 0
  BY FS_EmptySet DEF ToSet
<1>17. ASSUME writer.pc = "flush", NEW s \in writer.todo, FlushFails(s) PROVE StatsInv'
  <2> DEFINE k == Cardinality(PlacesOf(s))
             S == {p \in ToSet(buffer) : p.series = s}
  <2>1. /\ stats' = [stats EXCEPT !.failed = @ + k]
        /\ buffer' = <<>> /\ writer'.pc # "flush" /\ UNCHANGED queue
    BY <1>15, <1>17 DEF FlushFails
  <2>2. Unflushed' = {}
    BY <1>16, <2>1 DEF Unflushed
  <2>3. S \in SUBSET Unflushed
    BY <1>17 DEF Unflushed
  <2>4. k = Cardinality(S) /\ k \in Nat
    BY <1>13, Zenon
  <2> HIDE DEF S, k
  <2>5. k <= Cardinality(Unflushed)
    BY <1>5, <2>3, <2>4, FS_Subset
  <2>6. /\ stats'.inserted = stats.inserted /\ stats'.failed = stats.failed + k
        /\ stats'.enqueued = stats.enqueued /\ stats'.transformed = stats.transformed
    BY <1>3, <2>1
  <2>7. Cardinality(Unflushed') = 0
    BY <1>16, <2>2
  <2> QED BY <1>2, <1>3, <1>5, <1>7, <2>1, <2>4, <2>5, <2>6, <2>7, SMTT(30) DEF StatsInv
<1>18. ASSUME writer.pc = "flush", FlushDone PROVE StatsInv'
  <2>1. buffer' = <<>> /\ writer'.pc # "flush" /\ UNCHANGED <<queue, stats>>
    BY <1>15, <1>18 DEF FlushDone
  <2>2. Cardinality(Unflushed') = 0
    BY <1>16, <2>1 DEF Unflushed
  <2> QED BY <1>5, <1>10, <2>1, <2>2
<1> QED BY <1>11, <1>12, <1>14, <1>17, <1>18 DEF WriterStep, Flush

(***************************************************************************)
(* The counters of Writer.Stats add up, whatever the number of workers,    *)
(* the sizes of queue and batch and the order of the steps: no point is    *)
(* counted as inserted or failed that was not enqueued, and none as        *)
(* enqueued that no message was transformed to.                            *)
(***************************************************************************)
THEOREM CountersAddUp == Spec => []StatsAddUp
<1> DEFINE I == Inv /\ StatsInv
<1>1. Init => I
  <2> SUFFICES ASSUME Init PROVE StatsInv
    BY Invariance
  <2>1. /\ worker = [w \in Workers |-> IdleWorker] /\ queue = <<>> /\ buffer = <<>>
        /\ stats = ZeroStats
    BY DEF Init
  <2>2. Held = {} /\ Counting = {} /\ Unflushed = {}
    <3>1. ToSet(<<>>) = {}
      BY DEF ToSet
    <3>2. \A w \in Workers : worker[w].rest = <<>> /\ worker[w].pc = "idle"
      BY <2>1 DEF IdleWorker
    <3> QED BY <2>1, <3>1, <3>2 DEF Held, Counting, Unflushed
  <2>3. Cardinality({}) = 0 /\ Len(<<>>) = 0
    BY FS_EmptySet
  <2> QED BY <2>1, <2>2, <2>3 DEF StatsInv, ZeroStats
<1>2. I /\ [Next]_vars => I'
  <2> SUFFICES ASSUME I, [Next]_vars PROVE StatsInv'
    BY Invariance
  <2>1. Typed /\ Apart /\ Typed'
    BY NextTyped DEF Inv
  <2>2. CASE UNCHANGED <<worker, queue, writer, buffer, stats>>
    BY <2>2 DEF StatsInv, Held, Counting, Unflushed
  <2>3. CASE Die
    <3>1. /\ worker' = [w \in Workers |-> IdleWorker] /\ queue' = <<>> /\ buffer' = <<>>
          /\ stats' = ZeroStats
      BY <2>3 DEF Die, Fresh
    <3>2. Held' = {} /\ Counting' = {} /\ Unflushed' = {}
      <4>1. ToSet(<<>>) = {}
        BY DEF ToSet
      <4>2. \A w \in Workers : worker'[w].rest = <<>> /\ worker'[w].pc = "idle"
        BY <3>1 DEF IdleWorker
      <4> QED BY <3>1, <4>1, <4>2 DEF Held, Counting, Unflushed
    <3>3. Cardinality({}) = 0 /\ Len(<<>>) = 0
      BY FS_EmptySet
    <3> QED BY <3>1, <3>2, <3>3 DEF StatsInv, ZeroStats
  <2>4. CASE \E w \in Workers : TransformLoop(w)
    BY <2>1, <2>4, WorkerStats
  <2>5. CASE WriterStep
    BY <2>1, <2>5, WriterStats
  <2>6. \/ UNCHANGED <<worker, queue, writer, buffer, stats>> \/ Die
        \/ \E w \in Workers : TransformLoop(w)
        \/ WriterStep
    BY DEF Next, Subscribe, SubscribeFails, Cancel, Stop, Return, Exit, Kill, Restart, Deliver,
           Callback, CallbackSends, CallbackGivesUp, CallbackPanics, pipeline, vars
  <2> QED BY <2>2, <2>3, <2>4, <2>5, <2>6
<1>3. I => StatsAddUp
  <2> SUFFICES ASSUME I PROVE StatsAddUp
    OBVIOUS
  <2>1. PartsAreFinite
    BY PartsFinite DEF Inv
  <2>2. stats.enqueued \in Nat /\ stats.transformed \in Nat
    BY DEF Inv, Typed, TypeOK
  <2> QED BY <2>1, <2>2 DEF StatsInv, StatsAddUp, Counting, PartsAreFinite
<1> QED BY <1>1, <1>2, <1>3, PTL DEF Spec

=============================================================================
