------------------------- MODULE RollupTablesProofs -------------------------
(***************************************************************************)
(* Proofs about the statement triggers of the rollup tables.               *)
(*                                                                         *)
(* Hourly: the incremental upsert after INSERT and the recomputation after *)
(* DELETE both give the table that a scan of all samples would give.  The  *)
(* counts and sums add because the new rows are disjoint from the stored   *)
(* ones, and the least and greatest values because non-empty sets of       *)
(* values have them.                                                       *)
(*                                                                         *)
(* Daily: an INSERT may count an hour twice, so a row is not exact, but it *)
(* keeps covering its day, and a DELETE makes the rows of its days exact.  *)
(*                                                                         *)
(* What SUM computes is proved by least counterexample: among the sets of  *)
(* rows for which a fact about sums fails there is a smallest one, and     *)
(* taking a row away from it leaves a set for which the fact holds.        *)
(***************************************************************************)
EXTENDS RollupTables, FiniteSetTheorems, WellFoundedInduction, TLAPS

(* A non-empty set of naturals has a least element.                        *)
LEMMA MinExists ==
    ASSUME NEW S \in SUBSET Nat, S # {}
    PROVE  \E x \in S : \A y \in S : x <= y
<1> DEFINE R == OpToRel(<, Nat)
<1>1. IsWellFoundedOn(R, Nat)
  BY NatLessThanWellFounded
<1>2. \A x, y \in Nat : <<y, x>> \in R <=> y < x
  BY DEF OpToRel
<1> HIDE DEF R
<1>3. PICK x \in S : \A y \in S : ~(<<y, x>> \in R)
  BY <1>1, WFMin
<1>4. ASSUME NEW y \in S PROVE x <= y
  <2>1. x \in Nat /\ y \in Nat /\ ~(y < x)
    BY <1>2, <1>3
  <2> QED BY <2>1
<1> QED BY <1>4

(* Finite sets are met in the order of their size.                         *)
LEMMA SmallestSet ==
    ASSUME NEW S, IsFiniteSet(S), NEW Bad \in SUBSET (SUBSET S), Bad # {}
    PROVE  \E A \in Bad : \A B \in Bad : Cardinality(A) <= Cardinality(B)
<1> DEFINE N == {Cardinality(A) : A \in Bad}
<1>1. N \in SUBSET Nat /\ N # {}
  BY FS_Subset, FS_CardinalityType
<1> HIDE DEF N
<1>2. PICK n \in N : \A m \in N : n <= m
  BY <1>1, MinExists
<1>3. PICK A \in Bad : n = Cardinality(A)
  BY DEF N
<1>4. \A B \in Bad : Cardinality(B) \in N
  BY DEF N
<1> QED BY <1>2, <1>3, <1>4

(* One row less.                                                           *)
LEMMA OneLess ==
    ASSUME NEW A, IsFiniteSet(A), NEW x \in A
    PROVE  /\ IsFiniteSet(A \ {x})
           /\ Cardinality(A) \in Nat /\ Cardinality(A \ {x}) \in Nat
           /\ Cardinality(A \ {x}) = Cardinality(A) - 1
           /\ ~(Cardinality(A) <= Cardinality(A \ {x}))
<1> DEFINE B == A \ {x}
<1>1. IsFiniteSet(B) /\ Cardinality(B) = Cardinality(A) - 1
  BY FS_RemoveElement
<1>2. Cardinality(A) \in Nat /\ Cardinality(B) \in Nat
  BY <1>1, FS_CardinalityType
<1> HIDE DEF B
<1>3. ~(Cardinality(A) <= Cardinality(B))
  BY <1>1, <1>2
<1> QED BY <1>1, <1>2, <1>3 DEF B

Pick(A) == CHOOSE x \in A : TRUE

(* A non-empty set has a row to take away.                                 *)
LEMMA PickFact == ASSUME NEW A, A # {} PROVE Pick(A) \in A
  BY DEF Pick

(* How MapThenSumSet comes to its result: a function on the subsets of the *)
(* rows that takes one row away after the other.                           *)
Rest(g, field, A) == IF A = {} THEN 0 ELSE Pick(A)[field] + g[A \ {Pick(A)}]
Adds(g, field, D) == g = [A \in D |-> Rest(g, field, A)]
SumFcn(field, S) == CHOOSE g : Adds(g, field, SUBSET S)

(* The equation of such a function, for one set.                           *)
LEMMA AddsEach ==
    ASSUME NEW g, NEW field, NEW D, Adds(g, field, D), NEW A \in D
    PROVE  g[A] = Rest(g, field, A)
<1> DEFINE f == [B \in D |-> Rest(g, field, B)]
<1>1. g = f
  BY DEF Adds
<1>2. f[A] = Rest(g, field, A)
  OBVIOUS
<1> HIDE DEF f
<1>3. g[A] = f[A]
  BY <1>1
<1> QED BY <1>2, <1>3

(* SUM is the value of that function on all the rows.                      *)
LEMMA SumUnfolds ==
    ASSUME NEW field, NEW S
    PROVE  SUM(field, S) = SumFcn(field, S)[S]
  BY DEF SUM, MapThenSumSet, MapThenFoldSet, SumFcn, Adds, Rest, Pick

UpTo(S, n) == {A \in SUBSET S : Cardinality(A) <= n}

(* There is such a function, built set size by set size.                   *)
LEMMA SumFcnExists ==
    ASSUME NEW field, NEW S, IsFiniteSet(S)
    PROVE  \E g : Adds(g, field, SUBSET S)
<1> DEFINE Bad == {n \in Nat : ~\E g : Adds(g, field, UpTo(S, n))}
<1>1. Bad = {}
  <2> SUFFICES ASSUME Bad # {} PROVE FALSE
    OBVIOUS
  <2>1. PICK n \in Bad : \A m \in Bad : n <= m
    BY MinExists
  <2>2. n # 0
    <3> DEFINE g == [A \in UpTo(S, 0) |-> 0]
    <3>1. \A A \in UpTo(S, 0) : A = {}
      BY FS_Subset, FS_EmptySet, FS_CardinalityType DEF UpTo
    <3>2. Adds(g, field, UpTo(S, 0))
      BY <3>1 DEF Adds, Rest
    <3> QED BY <3>2
  <2>3. n - 1 \in Nat /\ n - 1 \notin Bad
    BY <2>1, <2>2
  <2>4. PICK g : Adds(g, field, UpTo(S, n - 1))
    BY <2>3
  <2> DEFINE h == [A \in UpTo(S, n) |-> Rest(g, field, A)]
  <2>5. ASSUME NEW A \in UpTo(S, n), A # {}
        PROVE  A \ {Pick(A)} \in UpTo(S, n - 1) /\ A \ {Pick(A)} \in UpTo(S, n)
    <3>1. Pick(A) \in A /\ IsFiniteSet(A)
      BY <2>5, PickFact, FS_Subset DEF UpTo
    <3> DEFINE B == A \ {Pick(A)}
    <3>2. /\ Cardinality(A) \in Nat /\ Cardinality(B) \in Nat
          /\ Cardinality(B) = Cardinality(A) - 1
      BY <3>1, OneLess
    <3>3. B \in SUBSET S /\ Cardinality(A) <= n
      BY DEF UpTo
    <3> HIDE DEF B
    <3>4. Cardinality(B) <= n - 1 /\ Cardinality(B) <= n
      BY <3>2, <3>3
    <3> QED BY <3>3, <3>4 DEF UpTo, B
  <2>6. \A A \in UpTo(S, n - 1) : A \in UpTo(S, n) /\ g[A] = Rest(g, field, A)
    <3>1. \A A \in SUBSET S : Cardinality(A) \in Nat
      BY FS_Subset, FS_CardinalityType
    <3>2. \A A \in UpTo(S, n - 1) : A \in UpTo(S, n)
      BY <3>1 DEF UpTo
    <3> QED BY <2>4, <3>2, AddsEach
  <2>7. \A A \in UpTo(S, n - 1) : h[A] = g[A]
    BY <2>6
  <2>8. \A A \in UpTo(S, n) : Rest(h, field, A) = Rest(g, field, A)
    BY <2>5, <2>7 DEF Rest
  <2>9. Adds(h, field, UpTo(S, n))
    BY <2>8 DEF Adds
  <2> QED BY <2>1, <2>9
<1>2. Cardinality(S) \in Nat /\ UpTo(S, Cardinality(S)) = SUBSET S
  BY FS_CardinalityType, FS_Subset DEF UpTo
<1>3. Cardinality(S) \notin Bad
  BY <1>1
<1>4. \E g : Adds(g, field, UpTo(S, Cardinality(S)))
  BY <1>2, <1>3
<1> QED BY <1>2, <1>4

(* CHOOSE therefore picks one.                                             *)
LEMMA SumFcnAdds ==
    ASSUME NEW field, NEW S, IsFiniteSet(S)
    PROVE  Adds(SumFcn(field, S), field, SUBSET S)
  BY SumFcnExists DEF SumFcn

(* The function for fewer rows is a part of the one for more.              *)
LEMMA SumFcnPart ==
    ASSUME NEW field, NEW S, IsFiniteSet(S), NEW T \in SUBSET S
    PROVE  SumFcn(field, T)[T] = SumFcn(field, S)[T]
<1> DEFINE f == SumFcn(field, T)
           g == SumFcn(field, S)
           Bad == {A \in SUBSET T : f[A] # g[A]}
<1>1. IsFiniteSet(T)
  BY FS_Subset
<1>2. /\ \A A \in SUBSET T : f[A] = Rest(f, field, A)
      /\ \A A \in SUBSET S : g[A] = Rest(g, field, A)
  BY <1>1, SumFcnAdds, AddsEach
<1> HIDE DEF f, g
<1>3. Bad = {}
  <2> SUFFICES ASSUME Bad # {} PROVE FALSE
    OBVIOUS
  <2>1. PICK A \in Bad : \A B \in Bad : Cardinality(A) <= Cardinality(B)
    BY <1>1, SmallestSet
  <2>2. A \in SUBSET T /\ A \in SUBSET S /\ IsFiniteSet(A) /\ f[A] # g[A]
    BY <1>1, FS_Subset
  <2>3. A # {}
    BY <1>2, <2>2 DEF Rest
  <2> DEFINE B == A \ {Pick(A)}
  <2>4. B \in SUBSET T /\ ~(Cardinality(A) <= Cardinality(B))
    BY <2>2, <2>3, PickFact, OneLess
  <2>5. f[B] = g[B]
    BY <2>1, <2>4
  <2> QED BY <1>2, <2>2, <2>3, <2>5 DEF Rest
<1> QED BY <1>3 DEF f, g

(* The sum over no row is 0.                                               *)
LEMMA SumOfNone ==
    ASSUME NEW field
    PROVE  SUM(field, {}) = 0
<1>1. IsFiniteSet({})
  BY FS_EmptySet
<1>2. Adds(SumFcn(field, {}), field, SUBSET {}) /\ {} \in SUBSET {}
  BY <1>1, SumFcnAdds
<1>3. SumFcn(field, {})[{}] = Rest(SumFcn(field, {}), field, {})
  BY <1>2, AddsEach
<1> QED BY <1>3, SumUnfolds DEF Rest

(* The row taken away first is added last.                                 *)
LEMMA SumOfPick ==
    ASSUME NEW field, NEW S, IsFiniteSet(S), S # {}
    PROVE  SUM(field, S) = Pick(S)[field] + SUM(field, S \ {Pick(S)})
<1> DEFINE T == S \ {Pick(S)}
<1>1. SumFcn(field, S)[S] = Pick(S)[field] + SumFcn(field, S)[T]
  <2>1. Adds(SumFcn(field, S), field, SUBSET S) /\ S \in SUBSET S
    BY SumFcnAdds
  <2>2. SumFcn(field, S)[S] = Rest(SumFcn(field, S), field, S)
    BY <2>1, AddsEach
  <2> QED BY <2>2 DEF Rest
<1>2. SumFcn(field, T)[T] = SumFcn(field, S)[T]
  BY SumFcnPart
<1> QED BY <1>1, <1>2, SumUnfolds

(* Sums of integers are integers, of naturals naturals.                    *)
LEMMA SumType ==
    ASSUME NEW field, NEW S, IsFiniteSet(S), \A x \in S : x[field] \in Int
    PROVE  /\ SUM(field, S) \in Int
           /\ (\A x \in S : x[field] >= 0) => SUM(field, S) >= 0
<1> DEFINE Good(A) == /\ SUM(field, A) \in Int
                      /\ (\A x \in S : x[field] >= 0) => SUM(field, A) >= 0
           Bad == {A \in SUBSET S : ~Good(A)}
<1>1. Bad = {}
  <2> SUFFICES ASSUME Bad # {} PROVE FALSE
    OBVIOUS
  <2>1. PICK A \in Bad : \A B \in Bad : Cardinality(A) <= Cardinality(B)
    BY SmallestSet
  <2>2. A \in SUBSET S /\ IsFiniteSet(A)
    BY FS_Subset
  <2>3. A # {}
    <3>1. SUM(field, {}) = 0
      BY SumOfNone
    <3>2. Good({})
      BY <3>1
    <3> QED BY <2>1, <3>2
  <2> DEFINE B == A \ {Pick(A)}
  <2>4. Pick(A) \in A /\ B \in SUBSET S /\ ~(Cardinality(A) <= Cardinality(B))
    BY <2>2, <2>3, PickFact, OneLess
  <2>5. Good(B)
    BY <2>1, <2>4
  <2>6. SUM(field, A) = Pick(A)[field] + SUM(field, B)
    BY <2>2, <2>3, SumOfPick
  <2>7. Pick(A)[field] \in Int /\ ((\A x \in S : x[field] >= 0) => Pick(A)[field] >= 0)
    BY <2>2, <2>4
  <2>8. Good(A)
    <3> HIDE DEF B
    <3> QED BY <2>5, <2>6, <2>7
  <2> QED BY <2>1, <2>8
<1> QED BY <1>1

(* Any row may be added last.                                              *)
LEMMA SumOfOther ==
    ASSUME NEW field, NEW S, IsFiniteSet(S), \A x \in S : x[field] \in Int, NEW y \in S
    PROVE  SUM(field, S) = y[field] + SUM(field, S \ {y})
<1> DEFINE Good(A) == \A z \in A : SUM(field, A) = z[field] + SUM(field, A \ {z})
           Bad == {A \in SUBSET S : ~Good(A)}
<1>1. Bad = {}
  <2> SUFFICES ASSUME Bad # {} PROVE FALSE
    OBVIOUS
  <2>1. PICK A \in Bad : \A B \in Bad : Cardinality(A) <= Cardinality(B)
    BY SmallestSet
  <2>2. A \in SUBSET S /\ IsFiniteSet(A)
    BY FS_Subset
  <2>3. PICK z \in A : SUM(field, A) # z[field] + SUM(field, A \ {z})
    BY <2>1
  <2> DEFINE x == Pick(A)
             B == A \ {x}
             C == A \ {z}
             D == (A \ {x}) \ {z}
  <2>4. x \in A
    BY <2>3, PickFact
  <2>5. SUM(field, A) = x[field] + SUM(field, B)
    BY <2>2, <2>3, SumOfPick
  <2>6. x # z
    BY <2>3, <2>5
  <2>7. /\ B \in SUBSET S /\ ~(Cardinality(A) <= Cardinality(B))
        /\ C \in SUBSET S /\ ~(Cardinality(A) <= Cardinality(C))
    BY <2>2, <2>4, OneLess
  <2>8. Good(B) /\ Good(C)
    BY <2>1, <2>7
  <2>9. z \in B /\ x \in C /\ D = B \ {z} /\ D = C \ {x}
    BY <2>4, <2>6
  <2>10. /\ SUM(field, B) = z[field] + SUM(field, D)
         /\ SUM(field, C) = x[field] + SUM(field, D)
    BY <2>8, <2>9
  <2>11. x[field] \in Int /\ z[field] \in Int /\ SUM(field, D) \in Int
    <3>1. D \in SUBSET S /\ IsFiniteSet(D)
      BY <2>2, FS_Subset
    <3> QED BY <2>2, <2>4, <3>1, SumType
  <2> HIDE DEF x, B, C, D
  <2>12. SUM(field, A) = z[field] + SUM(field, C)
    BY <2>5, <2>10, <2>11
  <2> QED BY <2>3, <2>12 DEF C
<1> QED BY <1>1

(* Sums of disjoint sets of rows add.                                      *)
LEMMA SumOfUnion ==
    ASSUME NEW field, NEW S, NEW T, IsFiniteSet(S), IsFiniteSet(T), S \cap T = {},
           \A x \in S \cup T : x[field] \in Int
    PROVE  SUM(field, S \cup T) = SUM(field, S) + SUM(field, T)
<1> DEFINE Good(A) == SUM(field, A \cup T) = SUM(field, A) + SUM(field, T)
           Bad == {A \in SUBSET S : ~Good(A)}
<1>0. SUM(field, T) \in Int
  BY SumType
<1>1. Bad = {}
  <2> SUFFICES ASSUME Bad # {} PROVE FALSE
    OBVIOUS
  <2>1. PICK A \in Bad : \A B \in Bad : Cardinality(A) <= Cardinality(B)
    BY SmallestSet
  <2>2. A \in SUBSET S /\ IsFiniteSet(A) /\ IsFiniteSet(A \cup T)
    BY FS_Subset, FS_Union
  <2>3. A # {}
    <3>1. {} \cup T = T /\ SUM(field, {}) = 0
      BY SumOfNone
    <3>2. Good({})
      BY <1>0, <3>1
    <3> QED BY <2>1, <3>2
  <2>4. PICK x \in A : TRUE
    BY <2>3
  <2> DEFINE B == A \ {x}
  <2>5. B \in SUBSET S /\ IsFiniteSet(B) /\ ~(Cardinality(A) <= Cardinality(B))
    BY <2>2, OneLess
  <2>6. Good(B)
    BY <2>1, <2>5
  <2>7. SUM(field, A) = x[field] + SUM(field, B)
    BY <2>2, SumOfOther
  <2>8. B \cup T = (A \cup T) \ {x}
    BY <2>2
  <2>9. SUM(field, A \cup T) = x[field] + SUM(field, (A \cup T) \ {x})
    <3>1. x \in A \cup T /\ \A y \in A \cup T : y[field] \in Int
      BY <2>2
    <3> QED BY <2>2, <3>1, SumOfOther
  <2>10. x[field] \in Int /\ SUM(field, B) \in Int
    <3>1. \A y \in B : y[field] \in Int
      BY <2>5
    <3> QED BY <2>2, <2>5, <3>1, SumType
  <2>11. SUM(field, A \cup T) = x[field] + (SUM(field, B) + SUM(field, T))
    BY <2>6, <2>8, <2>9
  <2> HIDE DEF B
  <2>12. Good(A)
    BY <1>0, <2>7, <2>10, <2>11
  <2> QED BY <2>1, <2>12
<1> QED BY <1>1

(* The sum over one row is its column.                                     *)
LEMMA SumOfOne ==
    ASSUME NEW field, NEW x, x[field] \in Int
    PROVE  SUM(field, {x}) = x[field]
<1>1. IsFiniteSet({x}) /\ {x} \ {x} = {}
  BY FS_Singleton
<1> QED BY <1>1, SumOfOther, SumOfNone

(* MIN(value) of a non-empty group is its least value.                     *)
LEMMA MinFacts ==
    ASSUME NEW S \in SUBSET Values, S # {}
    PROVE  Min(S) \in S /\ \A y \in S : Min(S) <= y
<1>1. S \in SUBSET Nat
  BY ConstantsAssumption DEF Values
<1>2. \E x \in S : \A y \in S : x <= y
  BY <1>1, MinExists
<1> QED BY <1>2 DEF Min

(* MAX(value) of a non-empty group is its greatest value.                  *)
LEMMA MaxFacts ==
    ASSUME NEW S \in SUBSET Values, S # {}
    PROVE  Max(S) \in S /\ \A y \in S : Max(S) >= y
<1> DEFINE T == {MaxValue - x : x \in S}
<1>1. S \subseteq Nat /\ MaxValue \in Nat /\ \A x \in S : x <= MaxValue
  BY ConstantsAssumption DEF Values
<1>2. T \in SUBSET Nat /\ T # {}
  BY <1>1
<1>3. PICK u \in T : \A w \in T : u <= w
  BY <1>2, MinExists
<1>4. PICK x \in S : u = MaxValue - x
  BY <1>3
<1>5. \A y \in S : x >= y
  <2> TAKE y \in S
  <2>1. MaxValue - x <= MaxValue - y
    BY <1>3, <1>4
  <2> QED BY <1>1, <2>1
<1>6. \E z \in S : \A y \in S : z >= y
  BY <1>5
<1> QED BY <1>6 DEF Max

(* LEAST of two minima is the minimum of both groups together.             *)
LEMMA MinOfUnion ==
    ASSUME NEW S \in SUBSET Values, NEW T \in SUBSET Values, S # {}, T # {}
    PROVE  Min(S \cup T) = LEAST(Min(S), Min(T))
<1>1. /\ Min(S) \in S /\ \A y \in S : Min(S) <= y
      /\ Min(T) \in T /\ \A y \in T : Min(T) <= y
      /\ Min(S \cup T) \in S \cup T /\ \A y \in S \cup T : Min(S \cup T) <= y
  BY MinFacts
<1>2. \A x \in S \cup T : x \in Int
  BY ConstantsAssumption DEF Values
<1> QED BY <1>1, <1>2 DEF LEAST

(* GREATEST of two maxima is the maximum of both groups together.          *)
LEMMA MaxOfUnion ==
    ASSUME NEW S \in SUBSET Values, NEW T \in SUBSET Values, S # {}, T # {}
    PROVE  Max(S \cup T) = GREATEST(Max(S), Max(T))
<1>1. /\ Max(S) \in S /\ \A y \in S : Max(S) >= y
      /\ Max(T) \in T /\ \A y \in T : Max(T) >= y
      /\ Max(S \cup T) \in S \cup T /\ \A y \in S \cup T : Max(S \cup T) >= y
  BY MaxFacts
<1>2. \A x \in S \cup T : x \in Int
  BY ConstantsAssumption DEF Values
<1> QED BY <1>1, <1>2 DEF GREATEST

(* The primary key of a rollup row is the bucket it was computed for.      *)
LEMMA KeyOfHourRow ==
    ASSUME NEW rows, NEW k \in HourKeys(rows)
    PROVE  /\ RollupKey(HourRow(k, rows)) = k
           /\ InHour(k, rows) # {}
<1>1. PICK r \in rows : k = HourKey(r)
  BY DEF HourKeys
<1>2. k = <<r.ts_uuid, Hour(r.ts)>>
  BY <1>1 DEF HourKey
<1>3. RollupKey(HourRow(k, rows)) = <<k[1], k[2]>>
  BY DEF RollupKey, HourRow
<1>4. r \in InHour(k, rows)
  BY <1>1 DEF InHour
<1> QED BY <1>2, <1>3, <1>4

(* The hours that have a rollup row are those that have a sample.          *)
LEMMA KeysOfHourly ==
    ASSUME NEW rows
    PROVE  RollupKeys(HourlyOf(rows)) = HourKeys(rows)
  BY KeyOfHourRow DEF RollupKeys, HourlyOf

(* Samples of other hours do not change the rollup row of an hour.         *)
LEMMA HourOutside ==
    ASSUME NEW old, NEW new, NEW k, k \notin HourKeys(new)
    PROVE  HourRow(k, old \cup new) = HourRow(k, old)
<1>1. InHour(k, old \cup new) = InHour(k, old)
  BY DEF InHour, HourKeys
<1> QED BY <1>1 DEF HourRow

(* ON CONFLICT DO UPDATE: merging the row of the stored samples of an hour *)
(* with the row of the new ones gives the row of both.                     *)
LEMMA HourMerged ==
    ASSUME NEW old \in SUBSET Sample, NEW new \in SUBSET Sample,
           IsFiniteSet(old), IsFiniteSet(new), old \cap new = {},
           NEW k \in HourKeys(old) \cap HourKeys(new)
    PROVE  HourRow(k, old \cup new) = Merge(HourRow(k, old), HourRow(k, new))
<1> DEFINE A == InHour(k, old)
           B == InHour(k, new)
           a == {r.value : r \in A}
           b == {r.value : r \in B}
<1>1. InHour(k, old \cup new) = A \cup B
  BY DEF InHour
<1>2. /\ A \in SUBSET Sample /\ B \in SUBSET (Sample \ A)
      /\ A \cap B = {} /\ A # {} /\ B # {}
  BY KeyOfHourRow DEF InHour
<1>3. IsFiniteSet(A) /\ IsFiniteSet(B)
  BY FS_Subset DEF InHour
<1>4. Cardinality(A \cup B) = Cardinality(A) + Cardinality(B)
  <2>1. Cardinality(A) \in Nat /\ Cardinality(B) \in Nat /\ Cardinality({}) = 0
    BY <1>3, FS_CardinalityType, FS_EmptySet
  <2>2. Cardinality(A \cup B) = Cardinality(A) + Cardinality(B) - Cardinality(A \cap B)
    BY <1>3, FS_Union
  <2>3. Cardinality(A \cap B) = 0
    BY <1>2, <2>1
  <2> HIDE DEF A, B
  <2> QED BY <2>1, <2>2, <2>3
<1>5. SUM("value", A \cup B) = SUM("value", A) + SUM("value", B)
  <2>1. \A x \in A \cup B : x["value"] \in Int
    BY <1>2, ConstantsAssumption DEF Sample, Values
  <2> HIDE DEF A, B
  <2> QED BY <1>2, <1>3, <2>1, SumOfUnion
<1>6. /\ {r.value : r \in A \cup B} = a \cup b
      /\ a \in SUBSET Values /\ b \in SUBSET Values /\ a # {} /\ b # {}
  BY <1>2 DEF Sample
<1>7. Min(a \cup b) = LEAST(Min(a), Min(b))
  BY <1>6, MinOfUnion
<1>8. Max(a \cup b) = GREATEST(Max(a), Max(b))
  BY <1>6, MaxOfUnion
<1>9. HourRow(k, old \cup new) =
          [ts_uuid      |-> k[1],
           bucket_ts    |-> k[2],
           sample_count |-> Cardinality(A \cup B),
           sample_sum   |-> SUM("value", A \cup B),
           sample_min   |-> Min(a \cup b),
           sample_max   |-> Max(a \cup b)]
  BY <1>1, <1>6 DEF HourRow
<1> HIDE DEF A, B, a, b
<1> DEFINE x == HourRow(k, old)
           y == HourRow(k, new)
<1>10. /\ x.ts_uuid = k[1] /\ x.bucket_ts = k[2]
       /\ x.sample_count = Cardinality(A) /\ x.sample_sum = SUM("value", A)
       /\ x.sample_min = Min(a) /\ x.sample_max = Max(a)
  BY DEF HourRow, A, a
<1>11. /\ y.sample_count = Cardinality(B) /\ y.sample_sum = SUM("value", B)
       /\ y.sample_min = Min(b) /\ y.sample_max = Max(b)
  BY DEF HourRow, B, b
<1> HIDE DEF x, y
<1>12. Merge(x, y) =
          [ts_uuid      |-> k[1],
           bucket_ts    |-> k[2],
           sample_count |-> Cardinality(A) + Cardinality(B),
           sample_sum   |-> SUM("value", A) + SUM("value", B),
           sample_min   |-> LEAST(Min(a), Min(b)),
           sample_max   |-> GREATEST(Max(a), Max(b))]
  BY <1>10, <1>11, Zenon DEF Merge
<1>13. HourRow(k, old \cup new) = Merge(x, y)
  BY <1>4, <1>5, <1>7, <1>8, <1>9, <1>12, Zenon
<1> QED BY <1>13 DEF x, y

(* upsert_tsdata_hourly_rollups_from_new, on exact rollups, leaves exact   *)
(* rollups of the stored and the new samples.                              *)
LEMMA UpsertIsExact ==
    ASSUME NEW old \in SUBSET Sample, NEW new \in SUBSET Sample,
           IsFiniteSet(old), IsFiniteSet(new), old \cap new = {}
    PROVE  upsert_tsdata_hourly_rollups_from_new(HourlyOf(old), new) = HourlyOf(old \cup new)
<1> DEFINE U == Untouched(HourlyOf(old), HourKeys(new))
           M == MergedHours(HourlyOf(old), new)
           I == InsertedHours(HourlyOf(old), new)
           all == old \cup new
<1>1. HourKeys(all) = HourKeys(old) \cup HourKeys(new)
  BY DEF HourKeys
<1>2. U = {HourRow(k, all) : k \in HourKeys(old) \ HourKeys(new)}
  <2>1. U = {HourRow(k, old) : k \in HourKeys(old) \ HourKeys(new)}
    BY KeyOfHourRow DEF Untouched, HourlyOf
  <2>2. \A k \in HourKeys(old) \ HourKeys(new) : HourRow(k, all) = HourRow(k, old)
    BY HourOutside
  <2> HIDE DEF U, all
  <2> QED BY <2>1, <2>2
<1>3. M = {HourRow(k, all) : k \in HourKeys(old) \cap HourKeys(new)}
  <2>1. M = {Merge(HourRow(k, old), HourRow(k, new)) : k \in HourKeys(old) \cap HourKeys(new)}
    BY KeyOfHourRow DEF MergedHours, Conflicting, HourlyOf
  <2>2. \A k \in HourKeys(old) \cap HourKeys(new) :
            HourRow(k, all) = Merge(HourRow(k, old), HourRow(k, new))
    BY HourMerged
  <2> HIDE DEF M, all
  <2> QED BY <2>1, <2>2
<1>4. I = {HourRow(k, all) : k \in HourKeys(new) \ HourKeys(old)}
  <2>1. I = {HourRow(k, new) : k \in HourKeys(new) \ HourKeys(old)}
    BY KeysOfHourly DEF InsertedHours
  <2>2. \A k \in HourKeys(new) \ HourKeys(old) : HourRow(k, all) = HourRow(k, new)
    <3>1. all = new \cup old
      OBVIOUS
    <3> QED BY <3>1, HourOutside
  <2> HIDE DEF I, all
  <2> QED BY <2>1, <2>2
<1>5. upsert_tsdata_hourly_rollups_from_new(HourlyOf(old), new) = U \cup M \cup I
  BY DEF upsert_tsdata_hourly_rollups_from_new
<1> HIDE DEF U, M, I, all
<1>6. U \cup M \cup I = {HourRow(k, all) : k \in HourKeys(all)}
  BY <1>1, <1>2, <1>3, <1>4
<1> QED BY <1>5, <1>6 DEF HourlyOf, all

(* refresh_tsdata_hourly_rollups_for_affected_from_old, on exact rollups,  *)
(* leaves exact rollups of the samples that remain.                        *)
LEMMA RefreshIsExact ==
    ASSUME NEW data, NEW gone \in SUBSET data
    PROVE  refresh_tsdata_hourly_rollups_for_affected_from_old(
               HourlyOf(data), data \ gone, gone) = HourlyOf(data \ gone)
<1> DEFINE rest == data \ gone
           U == Untouched(HourlyOf(data), HourKeys(gone))
           R == RecomputedHours(rest, gone)
<1>1. HourKeys(data) = HourKeys(rest) \cup HourKeys(gone)
  BY DEF HourKeys
<1>2. U = {HourRow(k, rest) : k \in HourKeys(rest) \ HourKeys(gone)}
  <2>1. U = {HourRow(k, data) : k \in HourKeys(rest) \ HourKeys(gone)}
    <3>1. U = {HourRow(k, data) : k \in HourKeys(data) \ HourKeys(gone)}
      BY KeyOfHourRow DEF Untouched, HourlyOf
    <3> HIDE DEF U, rest
    <3> QED BY <1>1, <3>1
  <2>2. \A k \in HourKeys(rest) \ HourKeys(gone) : HourRow(k, data) = HourRow(k, rest)
    <3>1. data = rest \cup gone
      OBVIOUS
    <3> HIDE DEF rest
    <3> QED BY <3>1, HourOutside
  <2> HIDE DEF U, rest
  <2> QED BY <2>1, <2>2
<1>3. R = {HourRow(k, rest) : k \in HourKeys(gone) \cap HourKeys(rest)}
  BY DEF RecomputedHours
<1>4. refresh_tsdata_hourly_rollups_for_affected_from_old(HourlyOf(data), rest, gone) = U \cup R
  BY DEF refresh_tsdata_hourly_rollups_for_affected_from_old
<1> HIDE DEF U, R, rest
<1>5. U \cup R = {HourRow(k, rest) : k \in HourKeys(rest)}
  BY <1>1, <1>2, <1>3
<1> QED BY <1>4, <1>5 DEF HourlyOf, rest

-----------------------------------------------------------------------------
(***************************************************************************)
(* The daily table.  A day's row is not exact, for an INSERT may count an  *)
(* hour twice, but it covers its day: minimum and maximum are those of the *)
(* hours of the day and the count is not too low.                          *)
(***************************************************************************)
HourlyRows(hours) ==
    /\ IsFiniteSet(hours)
    /\ \A h \in hours : /\ h.sample_count \in Nat /\ h.sample_sum \in Int
                        /\ h.sample_min \in Values /\ h.sample_max \in Values

Covers(d, k, hours) ==
    /\ d.sample_count \in Nat
    /\ d.sample_count >= SUM("sample_count", InDay(k, hours))
    /\ d.sample_min = Min({h.sample_min : h \in InDay(k, hours)})
    /\ d.sample_max = Max({h.sample_max : h \in InDay(k, hours)})

Covering(table, hours) ==
    /\ IsFiniteSet(table)
    /\ RollupKeys(table) = DayKeys(hours)
    /\ \A d \in table : Covers(d, RollupKey(d), hours)

(* The rows of the hourly table.                                           *)
LEMMA HourRowType ==
    ASSUME NEW data \in SUBSET Sample, IsFiniteSet(data), NEW k \in HourKeys(data)
    PROVE  /\ HourRow(k, data).sample_count \in Nat /\ HourRow(k, data).sample_sum \in Int
           /\ HourRow(k, data).sample_min \in Values /\ HourRow(k, data).sample_max \in Values
<1> DEFINE A == InHour(k, data)
           a == {r.value : r \in A}
<1>1. A \in SUBSET Sample /\ IsFiniteSet(A) /\ A # {}
  BY KeyOfHourRow, FS_Subset DEF InHour
<1>2. a \in SUBSET Values /\ a # {}
  BY <1>1 DEF Sample
<1>3. \A x \in A : x["value"] \in Int
  BY <1>1, ConstantsAssumption DEF Sample, Values
<1>4. HourRow(k, data) = [ts_uuid |-> k[1], bucket_ts |-> k[2],
                          sample_count |-> Cardinality(A), sample_sum |-> SUM("value", A),
                          sample_min |-> Min(a), sample_max |-> Max(a)]
  BY DEF HourRow
<1> HIDE DEF A, a
<1>5. Cardinality(A) \in Nat
  BY <1>1, FS_CardinalityType
<1>6. SUM("value", A) \in Int
  BY <1>1, <1>3, SumType
<1>7. Min(a) \in Values /\ Max(a) \in Values
  BY <1>2, MinFacts, MaxFacts
<1> QED BY <1>4, <1>5, <1>6, <1>7

(* The image of a finite set under a function is finite.                   *)
LEMMA ImageFinite ==
    ASSUME NEW S, IsFiniteSet(S), NEW f, DOMAIN f = S
    PROVE  IsFiniteSet({f[x] : x \in S})
<1> DEFINE T == {f[x] : x \in S}
           g == [x \in S |-> f[x]]
<1>1. g \in Surjection(S, T)
  BY DEF Surjection
<1> QED BY <1>1, FS_Surjection

(* The hourly table has finitely many rows of its types.                   *)
LEMMA HourlyRowsOf ==
    ASSUME NEW data \in SUBSET Sample, IsFiniteSet(data)
    PROVE  HourlyRows(HourlyOf(data))
<1> DEFINE f == [r \in data |-> HourRow(HourKey(r), data)]
<1>1. HourlyOf(data) = {f[r] : r \in data} /\ DOMAIN f = data
  BY DEF HourlyOf, HourKeys
<1>2. IsFiniteSet(HourlyOf(data))
  <2> HIDE DEF f
  <2> QED BY <1>1, ImageFinite
<1>3. \A h \in HourlyOf(data) : \E k \in HourKeys(data) : h = HourRow(k, data)
  BY DEF HourlyOf
<1> QED BY <1>2, <1>3, HourRowType DEF HourlyRows

(* Hours of a day.                                                         *)
LEMMA InDayFacts ==
    ASSUME NEW hours, HourlyRows(hours), NEW k
    PROVE  LET day == InDay(k, hours)
           IN  /\ day \in SUBSET hours /\ IsFiniteSet(day)
               /\ k \in DayKeys(hours) <=> day # {}
               /\ \A h \in day : h["sample_count"] \in Int /\ h["sample_count"] >= 0
               /\ \A h \in day : h["sample_sum"] \in Int
               /\ {h.sample_min : h \in day} \in SUBSET Values
               /\ {h.sample_max : h \in day} \in SUBSET Values
               /\ SUM("sample_count", day) \in Nat /\ SUM("sample_sum", day) \in Int
<1> DEFINE day == InDay(k, hours)
<1>1. day \in SUBSET hours /\ (k \in DayKeys(hours) <=> day # {})
  BY DEF InDay, DayKeys
<1>2. IsFiniteSet(day)
  BY <1>1, FS_Subset DEF HourlyRows
<1>3. /\ \A h \in day : h["sample_count"] \in Int /\ h["sample_count"] >= 0
      /\ \A h \in day : h["sample_sum"] \in Int
      /\ {h.sample_min : h \in day} \in SUBSET Values
      /\ {h.sample_max : h \in day} \in SUBSET Values
  <2> HIDE DEF day
  <2> QED BY <1>1 DEF HourlyRows
<1> HIDE DEF day
<1>4. SUM("sample_count", day) \in Int /\ SUM("sample_count", day) >= 0
  BY <1>2, <1>3, SumType
<1>5. SUM("sample_sum", day) \in Int
  BY <1>2, <1>3, SumType
<1>6. SUM("sample_count", day) \in Nat
  BY <1>4
<1> QED BY <1>1, <1>2, <1>3, <1>5, <1>6 DEF day

(* A recomputed row covers its day.                                        *)
LEMMA DayRowCovers ==
    ASSUME NEW hours, HourlyRows(hours), NEW k \in DayKeys(hours)
    PROVE  /\ RollupKey(DayRow(k, hours)) = k
           /\ Covers(DayRow(k, hours), k, hours)
<1>1. PICK h \in hours : k = <<h.ts_uuid, Day(h.bucket_ts)>>
  BY DEF DayKeys, DayKey
<1>2. RollupKey(DayRow(k, hours)) = <<k[1], k[2]>>
  BY DEF RollupKey, DayRow
<1>3. SUM("sample_count", InDay(k, hours)) \in Nat
  BY InDayFacts
<1>4. Covers(DayRow(k, hours), k, hours)
  BY <1>3 DEF Covers, DayRow
<1> QED BY <1>1, <1>2, <1>4

(* Finitely many hours make finitely many rows.                            *)
LEMMA DayRowsFinite ==
    ASSUME NEW hours, HourlyRows(hours), NEW keys \in SUBSET DayKeys(hours)
    PROVE  IsFiniteSet({DayRow(k, hours) : k \in keys})
<1> DEFINE f == [h \in hours |-> DayRow(DayKey(h), hours)]
           all == {f[h] : h \in hours}
<1>1. IsFiniteSet(all)
  <2>1. IsFiniteSet(hours) /\ DOMAIN f = hours
    BY DEF HourlyRows
  <2> HIDE DEF f
  <2> QED BY <2>1, ImageFinite
<1>2. {DayRow(k, hours) : k \in keys} \in SUBSET all
  BY DEF DayKeys
<1> QED BY <1>1, <1>2, FS_Subset

(* What covers a day depends on the hours of the day only.                 *)
LEMMA CoversSame ==
    ASSUME NEW d, NEW k, NEW G, NEW H, InDay(k, G) = InDay(k, H), Covers(d, k, G)
    PROVE  Covers(d, k, H)
  BY DEF Covers

(* Counting hours a second time makes a count no lower.                    *)
LEMMA SumOfOverlap ==
    ASSUME NEW G, NEW N, IsFiniteSet(G), IsFiniteSet(N), NEW column,
           \A h \in G \cup N : h[column] \in Int /\ h[column] >= 0
    PROVE  SUM(column, G \cup N) <= SUM(column, G) + SUM(column, N)
<1> DEFINE new == N \ G
           old == N \cap G
<1>1. IsFiniteSet(new) /\ IsFiniteSet(old)
  BY FS_Subset
<1>2. /\ G \cup N = G \cup new /\ G \cap new = {}
      /\ N = new \cup old /\ new \cap old = {}
  OBVIOUS
<1>3. /\ \A h \in G \cup new : h[column] \in Int
      /\ \A h \in new \cup old : h[column] \in Int
      /\ \A h \in old : h[column] >= 0
  OBVIOUS
<1> HIDE DEF new, old
<1>4. SUM(column, G \cup N) = SUM(column, G) + SUM(column, new)
  BY <1>1, <1>2, <1>3, SumOfUnion
<1>5. SUM(column, N) = SUM(column, new) + SUM(column, old)
  BY <1>1, <1>2, <1>3, SumOfUnion
<1>6. /\ SUM(column, G) \in Int /\ SUM(column, new) \in Int
      /\ SUM(column, old) \in Int /\ SUM(column, old) >= 0
  <2>1. /\ \A h \in G : h[column] \in Int
        /\ \A h \in new : h[column] \in Int
        /\ \A h \in old : h[column] \in Int
    BY <1>3
  <2> QED BY <1>1, <1>3, <2>1, SumType
<1> QED BY <1>4, <1>5, <1>6

(* ON CONFLICT DO UPDATE of the daily table.                               *)
LEMMA MergeCovers ==
    ASSUME NEW G, NEW N, HourlyRows(G), HourlyRows(N), NEW k \in DayKeys(G) \cap DayKeys(N),
           NEW d, Covers(d, k, G)
    PROVE  Covers(Merge(d, DayRow(k, N)), k, G \cup N)
<1> DEFINE g == InDay(k, G)
           n == InDay(k, N)
           gmin == {h.sample_min : h \in g}
           nmin == {h.sample_min : h \in n}
           gmax == {h.sample_max : h \in g}
           nmax == {h.sample_max : h \in n}
<1>1. InDay(k, G \cup N) = g \cup n
  BY DEF InDay
<1>2. /\ IsFiniteSet(g) /\ g # {} /\ IsFiniteSet(n) /\ n # {}
      /\ gmin \in SUBSET Values /\ nmin \in SUBSET Values
      /\ gmax \in SUBSET Values /\ nmax \in SUBSET Values
      /\ \A h \in g \cup n : h["sample_count"] \in Int /\ h["sample_count"] >= 0
      /\ SUM("sample_count", g) \in Nat /\ SUM("sample_count", n) \in Nat
  BY InDayFacts
<1>3. gmin # {} /\ nmin # {} /\ gmax # {} /\ nmax # {}
  BY <1>2
<1>4. /\ {h.sample_min : h \in g \cup n} = gmin \cup nmin
      /\ {h.sample_max : h \in g \cup n} = gmax \cup nmax
  OBVIOUS
<1>5. /\ d.sample_count \in Nat /\ d.sample_count >= SUM("sample_count", g)
      /\ d.sample_min = Min(gmin) /\ d.sample_max = Max(gmax)
  BY DEF Covers
<1> DEFINE e == DayRow(k, N)
           m == Merge(d, e)
<1>6. e.sample_count = SUM("sample_count", n) /\ e.sample_min = Min(nmin) /\ e.sample_max = Max(nmax)
  BY DEF DayRow
<1>7. /\ m.sample_count = d.sample_count + e.sample_count
      /\ m.sample_min = LEAST(d.sample_min, e.sample_min)
      /\ m.sample_max = GREATEST(d.sample_max, e.sample_max)
  BY DEF Merge
<1> HIDE DEF g, n, gmin, nmin, gmax, nmax, e, m
<1>8. /\ Min(gmin \cup nmin) = LEAST(Min(gmin), Min(nmin))
      /\ Max(gmax \cup nmax) = GREATEST(Max(gmax), Max(nmax))
  BY <1>2, <1>3, MinOfUnion, MaxOfUnion
<1>9. SUM("sample_count", g \cup n) <= SUM("sample_count", g) + SUM("sample_count", n)
  BY <1>2, SumOfOverlap
<1>10. SUM("sample_count", g \cup n) \in Int
  <2>1. IsFiniteSet(g \cup n) /\ \A h \in g \cup n : h["sample_count"] \in Int
    BY <1>2, FS_Union
  <2> QED BY <2>1, SumType
<1>11. m.sample_count \in Nat /\ m.sample_count >= SUM("sample_count", g \cup n)
  BY <1>2, <1>5, <1>6, <1>7, <1>9, <1>10
<1>12. m.sample_min = Min(gmin \cup nmin) /\ m.sample_max = Max(gmax \cup nmax)
  BY <1>5, <1>6, <1>7, <1>8
<1>13. Covers(m, k, G \cup N)
  BY <1>1, <1>4, <1>11, <1>12 DEF Covers
<1> QED BY <1>13 DEF m, e

(* upsert_tsdata_daily_rollups_from_hourly_new: a table that covers some   *)
(* hours covers those and the new ones.                                    *)
LEMMA DailyUpsertCovers ==
    ASSUME NEW table, NEW G, NEW N, HourlyRows(G), HourlyRows(N), Covering(table, G)
    PROVE  Covering(upsert_tsdata_daily_rollups_from_hourly_new(table, N), G \cup N)
<1> DEFINE U == Untouched(table, DayKeys(N))
           M == {Merge(r, DayRow(RollupKey(r), N)) : r \in Conflicting(table, DayKeys(N))}
           I == {DayRow(k, N) : k \in DayKeys(N) \ RollupKeys(table)}
           all == upsert_tsdata_daily_rollups_from_hourly_new(table, N)
<1>1. all = U \cup M \cup I
  BY DEF upsert_tsdata_daily_rollups_from_hourly_new
<1>2. DayKeys(G \cup N) = DayKeys(G) \cup DayKeys(N)
  BY DEF DayKeys
<1>3. /\ RollupKeys(table) = DayKeys(G)
      /\ \A d \in table : Covers(d, RollupKey(d), G) /\ RollupKey(d) \in DayKeys(G)
  BY DEF Covering, RollupKeys
<1>4. ASSUME NEW d \in U
      PROVE  RollupKey(d) \in DayKeys(G) \ DayKeys(N) /\ Covers(d, RollupKey(d), G \cup N)
  <2>1. d \in table /\ RollupKey(d) \notin DayKeys(N)
    BY DEF Untouched
  <2>2. InDay(RollupKey(d), G) = InDay(RollupKey(d), G \cup N)
    BY <2>1 DEF InDay, DayKeys
  <2> QED BY <1>3, <2>1, <2>2, CoversSame
<1>5. ASSUME NEW r \in Conflicting(table, DayKeys(N))
      PROVE  LET d == Merge(r, DayRow(RollupKey(r), N))
             IN  RollupKey(d) = RollupKey(r) /\ Covers(d, RollupKey(d), G \cup N)
  <2>1. r \in table /\ RollupKey(r) \in DayKeys(N)
    BY DEF Conflicting
  <2>2. RollupKey(Merge(r, DayRow(RollupKey(r), N))) = RollupKey(r)
    BY DEF RollupKey, Merge
  <2> QED BY <1>3, <2>1, <2>2, MergeCovers
<1>6. ASSUME NEW k \in DayKeys(N) \ RollupKeys(table)
      PROVE  /\ RollupKey(DayRow(k, N)) = k
             /\ Covers(DayRow(k, N), k, G \cup N)
  <2>1. InDay(k, N) = InDay(k, G \cup N)
    BY <1>3 DEF InDay, DayKeys
  <2> QED BY <2>1, DayRowCovers, CoversSame
<1>7. /\ RollupKeys(U) = DayKeys(G) \ DayKeys(N)
      /\ RollupKeys(M) = DayKeys(G) \cap DayKeys(N)
      /\ RollupKeys(I) = DayKeys(N) \ DayKeys(G)
  <2>1. RollupKeys(U) = DayKeys(G) \ DayKeys(N)
    BY <1>3 DEF RollupKeys, Untouched
  <2>2. RollupKeys(Conflicting(table, DayKeys(N))) = DayKeys(G) \cap DayKeys(N)
    BY <1>3 DEF RollupKeys, Conflicting
  <2>3. RollupKeys(M) = RollupKeys(Conflicting(table, DayKeys(N)))
    BY <1>5 DEF RollupKeys
  <2>4. RollupKeys(I) = DayKeys(N) \ DayKeys(G)
    BY <1>3, <1>6 DEF RollupKeys
  <2> QED BY <2>1, <2>2, <2>3, <2>4
<1>8. \A d \in M \cup I : Covers(d, RollupKey(d), G \cup N)
  BY <1>5, <1>6
<1>8a. IsFiniteSet(U) /\ IsFiniteSet(M) /\ IsFiniteSet(I)
  <2> DEFINE c == Conflicting(table, DayKeys(N))
             f == [r \in c |-> Merge(r, DayRow(RollupKey(r), N))]
  <2>1. IsFiniteSet(table) /\ U \in SUBSET table /\ c \in SUBSET table
    BY DEF Covering, Untouched, Conflicting
  <2>2. IsFiniteSet(U) /\ IsFiniteSet(c)
    BY <2>1, FS_Subset
  <2>3. M = {f[r] : r \in c} /\ DOMAIN f = c
    OBVIOUS
  <2>4. IsFiniteSet(I)
    BY DayRowsFinite
  <2> HIDE DEF f, c, M
  <2>5. IsFiniteSet(M)
    BY <2>2, <2>3, ImageFinite
  <2> QED BY <2>2, <2>4, <2>5
<1> HIDE DEF U, M, I, all
<1>8b. IsFiniteSet(all)
  BY <1>1, <1>8a, FS_Union
<1>9. RollupKeys(all) = RollupKeys(U) \cup RollupKeys(M) \cup RollupKeys(I)
  BY <1>1 DEF RollupKeys
<1>10. RollupKeys(all) = DayKeys(G \cup N)
  BY <1>2, <1>7, <1>9
<1>11. \A d \in all : Covers(d, RollupKey(d), G \cup N)
  BY <1>1, <1>4, <1>8
<1>12. Covering(all, G \cup N)
  BY <1>10, <1>11, <1>8b DEF Covering
<1> QED BY <1>12 DEF all

(* The hours a refresh leaves a table to cover: the present ones of the    *)
(* days it touched, the earlier ones of the others.                        *)
Refreshed(before, hours, affected) ==
    {h \in hours : DayKey(h) \in DayKeys(affected)}
        \cup {h \in before : DayKey(h) \notin DayKeys(affected)}

(* DELETE and INSERT of the affected days keep every day covered.          *)
LEMMA DailyRefreshCovers ==
    ASSUME NEW table, NEW before, NEW hours, NEW affected,
           HourlyRows(before), HourlyRows(hours), Covering(table, before)
    PROVE  LET left == Refreshed(before, hours, affected)
           IN  /\ HourlyRows(left)
               /\ Covering(refresh_tsdata_daily_rollups_for_affected_hourly(
                               table, hours, affected), left)
<1> DEFINE left == Refreshed(before, hours, affected)
           U == Untouched(table, DayKeys(affected))
           R == {DayRow(k, hours) : k \in DayKeys(affected) \cap DayKeys(hours)}
           all == refresh_tsdata_daily_rollups_for_affected_hourly(table, hours, affected)
<1>1. all = U \cup R
  BY DEF refresh_tsdata_daily_rollups_for_affected_hourly
<1>2. HourlyRows(left)
  <2>1. left \in SUBSET (before \cup hours) /\ IsFiniteSet(before \cup hours)
    BY FS_Union DEF Refreshed, HourlyRows
  <2>2. IsFiniteSet(left)
    BY <2>1, FS_Subset
  <2> HIDE DEF left
  <2> QED BY <2>1, <2>2 DEF HourlyRows
<1>3. DayKeys(left) = (DayKeys(before) \ DayKeys(affected))
                          \cup (DayKeys(affected) \cap DayKeys(hours))
  <2> DEFINE K == DayKeys(affected)
  <2> HIDE DEF K
  <2>1. DayKeys({h \in hours : DayKey(h) \in K} \cup {h \in before : DayKey(h) \notin K})
          = (DayKeys(before) \ K) \cup (K \cap DayKeys(hours))
    BY DEF DayKeys
  <2> QED BY <2>1 DEF K, Refreshed
<1>4. ASSUME NEW d \in U PROVE Covers(d, RollupKey(d), left)
  <2>1. d \in table /\ RollupKey(d) \notin DayKeys(affected)
    BY DEF Untouched
  <2>2. InDay(RollupKey(d), before) = InDay(RollupKey(d), left)
    BY <2>1 DEF InDay, Refreshed
  <2> QED BY <2>1, <2>2, CoversSame DEF Covering
<1>5. ASSUME NEW k \in DayKeys(affected) \cap DayKeys(hours)
      PROVE  RollupKey(DayRow(k, hours)) = k /\ Covers(DayRow(k, hours), k, left)
  <2>1. InDay(k, hours) = InDay(k, left)
    BY DEF InDay, Refreshed
  <2> QED BY <2>1, DayRowCovers, CoversSame
<1>6. RollupKeys(U) = DayKeys(before) \ DayKeys(affected)
  BY DEF RollupKeys, Untouched, Covering
<1>7. RollupKeys(R) = DayKeys(affected) \cap DayKeys(hours)
  BY <1>5 DEF RollupKeys
<1>8. \A d \in R : Covers(d, RollupKey(d), left)
  BY <1>5
<1>8a. IsFiniteSet(U) /\ IsFiniteSet(R)
  <2>1. IsFiniteSet(table) /\ U \in SUBSET table
    BY DEF Covering, Untouched
  <2>2. IsFiniteSet(U)
    BY <2>1, FS_Subset
  <2>3. DayKeys(affected) \cap DayKeys(hours) \in SUBSET DayKeys(hours)
    OBVIOUS
  <2> QED BY <2>2, <2>3, DayRowsFinite
<1> HIDE DEF U, R, left, all
<1>8b. IsFiniteSet(all)
  BY <1>1, <1>8a, FS_Union
<1>9. RollupKeys(all) = RollupKeys(U) \cup RollupKeys(R)
  BY <1>1 DEF RollupKeys
<1>10. RollupKeys(all) = DayKeys(left)
  BY <1>3, <1>6, <1>7, <1>9
<1>11. \A d \in all : Covers(d, RollupKey(d), left)
  BY <1>1, <1>4, <1>8
<1>12. Covering(all, left)
  BY <1>10, <1>11, <1>8b DEF Covering
<1> QED BY <1>2, <1>12 DEF left, all

(* An INSERT on tsdata and its triggers at both levels.                    *)
LEMMA DailyAfterInsert ==
    ASSUME NEW data \in SUBSET Sample, NEW rows \in SUBSET Sample,
           IsFiniteSet(data), IsFiniteSet(rows), data \cap rows = {},
           NEW table, Covering(table, HourlyOf(data))
    PROVE  Covering(DailyAfterHourlyUpsert(table, HourlyOf(data), rows),
                    HourlyOf(data \cup rows))
<1> DEFINE H == HourlyOf(data)
           C == Conflicting(H, HourKeys(rows))
           U == Untouched(H, HourKeys(rows))
           M == MergedHours(H, rows)
           I == InsertedHours(H, rows)
           all == upsert_tsdata_hourly_rollups_from_new(H, rows)
           left == Refreshed(H, all, C)
           daily1 == refresh_tsdata_daily_rollups_for_affected_hourly(table, all, C)
<1>1. all = HourlyOf(data \cup rows)
  BY UpsertIsExact
<1>2. all = U \cup M \cup I /\ H = U \cup C
  BY DEF upsert_tsdata_hourly_rollups_from_new, Untouched, Conflicting
<1>3. HourlyRows(H) /\ HourlyRows(all)
  <2>1. data \cup rows \in SUBSET Sample /\ IsFiniteSet(data \cup rows)
    BY FS_Union
  <2> QED BY <1>1, <2>1, HourlyRowsOf
<1>4. \A m \in M : DayKey(m) \in DayKeys(C)
  <2>1. ASSUME NEW r \in C PROVE DayKey(Merge(r, HourRow(RollupKey(r), rows))) = DayKey(r)
    BY DEF DayKey, Merge
  <2> QED BY <2>1 DEF MergedHours, DayKeys
<1>5. \A c \in C : DayKey(c) \in DayKeys(C)
  BY DEF DayKeys
<1> HIDE DEF U, C, M, I, H, all
<1>6. left \cup I = all
  BY <1>2, <1>4, <1>5 DEF Refreshed
<1>7. HourlyRows(left) /\ Covering(daily1, left)
  <2>1. Covering(table, H)
    BY DEF H
  <2> QED BY <1>3, <2>1, DailyRefreshCovers
<1>8. HourlyRows(I)
  <2>1. I \in SUBSET all
    BY <1>2
  <2>2. IsFiniteSet(I)
    BY <1>3, <2>1, FS_Subset DEF HourlyRows
  <2> QED BY <1>3, <2>1, <2>2 DEF HourlyRows
<1> HIDE DEF left, daily1
<1>9. Covering(upsert_tsdata_daily_rollups_from_hourly_new(daily1, I), left \cup I)
  BY <1>7, <1>8, DailyUpsertCovers
<1>10. DailyAfterHourlyUpsert(table, H, rows)
          = upsert_tsdata_daily_rollups_from_hourly_new(daily1, I)
  BY DEF DailyAfterHourlyUpsert, daily1, all, C, I
<1>11. Covering(DailyAfterHourlyUpsert(table, H, rows), all)
  BY <1>6, <1>9, <1>10
<1> QED BY <1>1, <1>11 DEF H

(* A DELETE on tsdata and its triggers at both levels.                     *)
LEMMA DailyAfterDelete ==
    ASSUME NEW data \in SUBSET Sample, IsFiniteSet(data), NEW gone \in SUBSET data,
           NEW table, Covering(table, HourlyOf(data))
    PROVE  Covering(DailyAfterHourlyRefresh(table, HourlyOf(data), data \ gone, gone),
                    HourlyOf(data \ gone))
<1> DEFINE H == HourlyOf(data)
           C == Conflicting(H, HourKeys(gone))
           U == Untouched(H, HourKeys(gone))
           R == RecomputedHours(data \ gone, gone)
           all == HourlyOf(data \ gone)
           left == Refreshed(H, U, C)
           daily1 == refresh_tsdata_daily_rollups_for_affected_hourly(table, U, C)
<1>1. all = U \cup R
  BY RefreshIsExact DEF refresh_tsdata_hourly_rollups_for_affected_from_old
<1>2. H = U \cup C
  BY DEF Untouched, Conflicting
<1>3. HourlyRows(H) /\ HourlyRows(all)
  <2>1. data \ gone \in SUBSET Sample /\ IsFiniteSet(data \ gone)
    BY FS_Subset
  <2> QED BY <2>1, HourlyRowsOf
<1>4. \A c \in C : DayKey(c) \in DayKeys(C)
  BY DEF DayKeys
<1> HIDE DEF U, C, R, H, all
<1>5. HourlyRows(U) /\ HourlyRows(R)
  <2>1. U \in SUBSET all /\ R \in SUBSET all
    BY <1>1
  <2>2. IsFiniteSet(U) /\ IsFiniteSet(R)
    BY <1>3, <2>1, FS_Subset DEF HourlyRows
  <2> QED BY <1>3, <2>1, <2>2 DEF HourlyRows
<1>6. left = U
  BY <1>2, <1>4 DEF Refreshed
<1>7. Covering(daily1, U)
  <2>1. Covering(table, H)
    BY DEF H
  <2>2. Covering(daily1, left)
    BY <1>3, <1>5, <2>1, DailyRefreshCovers
  <2> QED BY <1>6, <2>2
<1> HIDE DEF left, daily1
<1>8. Covering(upsert_tsdata_daily_rollups_from_hourly_new(daily1, R), U \cup R)
  BY <1>5, <1>7, DailyUpsertCovers
<1>9. DailyAfterHourlyRefresh(table, H, data \ gone, gone)
          = upsert_tsdata_daily_rollups_from_hourly_new(daily1, R)
  BY DEF DailyAfterHourlyRefresh, daily1, U, C, R
<1>10. Covering(DailyAfterHourlyRefresh(table, H, data \ gone, gone), all)
  BY <1>1, <1>8, <1>9
<1> QED BY <1>10 DEF H, all

(* Merging the rows of different hours of a day is exact.                  *)
LEMMA DayMerged ==
    ASSUME NEW G, NEW N, HourlyRows(G), HourlyRows(N), G \cap N = {},
           NEW k \in DayKeys(G) \cap DayKeys(N)
    PROVE  Merge(DayRow(k, G), DayRow(k, N)) = DayRow(k, G \cup N)
<1> DEFINE g == InDay(k, G)
           n == InDay(k, N)
           gmin == {h.sample_min : h \in g}
           nmin == {h.sample_min : h \in n}
           gmax == {h.sample_max : h \in g}
           nmax == {h.sample_max : h \in n}
<1>1. InDay(k, G \cup N) = g \cup n /\ g \cap n = {}
  BY DEF InDay
<1>2. /\ IsFiniteSet(g) /\ g # {} /\ IsFiniteSet(n) /\ n # {}
      /\ gmin \in SUBSET Values /\ nmin \in SUBSET Values
      /\ gmax \in SUBSET Values /\ nmax \in SUBSET Values
      /\ \A h \in g \cup n : h["sample_count"] \in Int /\ h["sample_sum"] \in Int
  BY InDayFacts
<1>3. gmin # {} /\ nmin # {} /\ gmax # {} /\ nmax # {}
  BY <1>2
<1>4. /\ {h.sample_min : h \in g \cup n} = gmin \cup nmin
      /\ {h.sample_max : h \in g \cup n} = gmax \cup nmax
  OBVIOUS
<1> DEFINE d == DayRow(k, G)
           e == DayRow(k, N)
<1>5. /\ d.ts_uuid = k[1] /\ d.bucket_ts = k[2]
      /\ d.sample_count = SUM("sample_count", g) /\ d.sample_sum = SUM("sample_sum", g)
      /\ d.sample_min = Min(gmin) /\ d.sample_max = Max(gmax)
  BY DEF DayRow
<1>6. /\ e.sample_count = SUM("sample_count", n) /\ e.sample_sum = SUM("sample_sum", n)
      /\ e.sample_min = Min(nmin) /\ e.sample_max = Max(nmax)
  BY DEF DayRow
<1>7. DayRow(k, G \cup N) =
          [ts_uuid      |-> k[1],
           bucket_ts    |-> k[2],
           sample_count |-> SUM("sample_count", g \cup n),
           sample_sum   |-> SUM("sample_sum", g \cup n),
           sample_min   |-> Min(gmin \cup nmin),
           sample_max   |-> Max(gmax \cup nmax)]
  BY <1>1, <1>4 DEF DayRow
<1> HIDE DEF g, n, gmin, nmin, gmax, nmax, d, e
<1>8. /\ Min(gmin \cup nmin) = LEAST(Min(gmin), Min(nmin))
      /\ Max(gmax \cup nmax) = GREATEST(Max(gmax), Max(nmax))
  BY <1>2, <1>3, MinOfUnion, MaxOfUnion
<1>9. SUM("sample_count", g \cup n) = SUM("sample_count", g) + SUM("sample_count", n)
  <2>1. \A h \in g \cup n : h["sample_count"] \in Int
    BY <1>2
  <2> QED BY <1>1, <1>2, <2>1, SumOfUnion
<1>10. SUM("sample_sum", g \cup n) = SUM("sample_sum", g) + SUM("sample_sum", n)
  <2>1. \A h \in g \cup n : h["sample_sum"] \in Int
    BY <1>2
  <2> QED BY <1>1, <1>2, <2>1, SumOfUnion
<1>11. Merge(d, e) =
          [ts_uuid      |-> k[1],
           bucket_ts    |-> k[2],
           sample_count |-> SUM("sample_count", g) + SUM("sample_count", n),
           sample_sum   |-> SUM("sample_sum", g) + SUM("sample_sum", n),
           sample_min   |-> LEAST(Min(gmin), Min(nmin)),
           sample_max   |-> GREATEST(Max(gmax), Max(nmax))]
  BY <1>5, <1>6, Zenon DEF Merge
<1>12. Merge(d, e) = DayRow(k, G \cup N)
  BY <1>7, <1>8, <1>9, <1>10, <1>11, Zenon
<1> QED BY <1>12 DEF d, e

(* A row of the daily table depends on the hours of its day only.          *)
LEMMA DayRowSame ==
    ASSUME NEW k, NEW G, NEW H, InDay(k, G) = InDay(k, H)
    PROVE  DayRow(k, G) = DayRow(k, H)
  BY DEF DayRow

(* The row of a day, if it has hours.                                      *)
DayRows(k, hours) == {DayRow(x, hours) : x \in {k} \cap DayKeys(hours)}

(* The exact daily table has one row for a day with hours.                 *)
LEMMA ConflictingDaily ==
    ASSUME NEW hours, HourlyRows(hours), NEW k
    PROVE  Conflicting(DailyOf(hours), {k}) = DayRows(k, hours)
<1>1. \A x \in DayKeys(hours) : RollupKey(DayRow(x, hours)) = x
  BY DayRowCovers
<1> QED BY <1>1 DEF Conflicting, DailyOf, DayRows

(* The upsert of exact rows with other hours leaves exact rows.            *)
LEMMA UpsertRepairs ==
    ASSUME NEW G, NEW N, HourlyRows(G), HourlyRows(N), G \cap N = {}, NEW k,
           NEW table, Conflicting(table, {k}) = DayRows(k, G)
    PROVE  Conflicting(upsert_tsdata_daily_rollups_from_hourly_new(table, N), {k})
               = DayRows(k, G \cup N)
<1> DEFINE U == Untouched(table, DayKeys(N))
           M == {Merge(r, DayRow(RollupKey(r), N)) : r \in Conflicting(table, DayKeys(N))}
           I == {DayRow(x, N) : x \in DayKeys(N) \ RollupKeys(table)}
           all == upsert_tsdata_daily_rollups_from_hourly_new(table, N)
<1>1. all = U \cup M \cup I
  BY DEF upsert_tsdata_daily_rollups_from_hourly_new
<1>2. DayKeys(G \cup N) = DayKeys(G) \cup DayKeys(N)
  BY DEF DayKeys
<1>3. /\ k \in DayKeys(G) => RollupKey(DayRow(k, G)) = k
      /\ \A x \in DayKeys(N) : RollupKey(DayRow(x, N)) = x
  BY DayRowCovers
<1>4. \A r \in table : RollupKey(r) = k <=> k \in DayKeys(G) /\ r = DayRow(k, G)
  BY <1>3 DEF Conflicting, DayRows
<1>5. k \in RollupKeys(table) <=> k \in DayKeys(G)
  <2>1. k \in DayKeys(G) => DayRow(k, G) \in table
    BY DEF Conflicting, DayRows
  <2> QED BY <1>3, <1>4, <2>1 DEF RollupKeys
<1>6. \A r : RollupKey(Merge(r, DayRow(RollupKey(r), N))) = RollupKey(r)
  BY DEF RollupKey, Merge
<1>7. CASE k \notin DayKeys(N)
  <2>1. InDay(k, G) = InDay(k, G \cup N)
    BY <1>7 DEF InDay, DayKeys
  <2>2. DayRows(k, G \cup N) = DayRows(k, G)
    BY <1>2, <1>7, <2>1, DayRowSame DEF DayRows
  <2>3. Conflicting(U, {k}) = Conflicting(table, {k})
    BY <1>7 DEF Conflicting, Untouched
  <2>4. Conflicting(M, {k}) = {} /\ Conflicting(I, {k}) = {}
    BY <1>3, <1>6, <1>7 DEF Conflicting
  <2> HIDE DEF U, M, I, all
  <2>5. Conflicting(all, {k}) = Conflicting(U, {k}) \cup Conflicting(M, {k}) \cup Conflicting(I, {k})
    BY <1>1 DEF Conflicting
  <2> QED BY <2>2, <2>3, <2>4, <2>5 DEF all
<1>8. CASE k \in DayKeys(N) /\ k \in DayKeys(G)
  <2> DEFINE m == Merge(DayRow(k, G), DayRow(k, N))
  <2>1. m = DayRow(k, G \cup N)
    BY <1>8, DayMerged
  <2>2. DayRows(k, G \cup N) = {m}
    BY <1>2, <1>8, <2>1 DEF DayRows
  <2>3. Conflicting(U, {k}) = {} /\ Conflicting(I, {k}) = {}
    BY <1>3, <1>5, <1>8 DEF Conflicting, Untouched
  <2>4. Conflicting(M, {k}) = {m}
    <3>1. DayRow(k, G) \in Conflicting(table, DayKeys(N)) /\ RollupKey(DayRow(k, G)) = k
      BY <1>3, <1>8 DEF Conflicting, DayRows
    <3>2. m \in M /\ RollupKey(m) = k
      BY <1>6, <3>1
    <3>3. ASSUME NEW x \in M, RollupKey(x) = k PROVE x = m
      <4>1. PICK r \in Conflicting(table, DayKeys(N)) : x = Merge(r, DayRow(RollupKey(r), N))
        BY <3>3
      <4>2. r \in table /\ RollupKey(r) = k
        BY <1>6, <3>3, <4>1 DEF Conflicting
      <4>3. r = DayRow(k, G)
        BY <1>4, <4>2
      <4> QED BY <4>1, <4>2, <4>3
    <3> HIDE DEF m, M
    <3> QED BY <3>2, <3>3 DEF Conflicting
  <2> HIDE DEF U, M, I, all, m
  <2>5. Conflicting(all, {k}) = Conflicting(U, {k}) \cup Conflicting(M, {k}) \cup Conflicting(I, {k})
    BY <1>1 DEF Conflicting
  <2> QED BY <2>2, <2>3, <2>4, <2>5 DEF all
<1>9. CASE k \in DayKeys(N) /\ k \notin DayKeys(G)
  <2>1. InDay(k, N) = InDay(k, G \cup N)
    BY <1>9 DEF InDay, DayKeys
  <2>2. DayRows(k, G \cup N) = {DayRow(k, N)}
    BY <1>2, <1>9, <2>1, DayRowSame DEF DayRows
  <2>3. Conflicting(U, {k}) = {} /\ Conflicting(M, {k}) = {}
    BY <1>4, <1>6, <1>9 DEF Conflicting, Untouched
  <2>4. Conflicting(I, {k}) = {DayRow(k, N)}
    BY <1>3, <1>5, <1>9 DEF Conflicting
  <2> HIDE DEF U, M, I, all
  <2>5. Conflicting(all, {k}) = Conflicting(U, {k}) \cup Conflicting(M, {k}) \cup Conflicting(I, {k})
    BY <1>1 DEF Conflicting
  <2> QED BY <2>2, <2>3, <2>4, <2>5 DEF all
<1> QED BY <1>7, <1>8, <1>9

(* A DELETE on tsdata leaves the rows of the days it touched exact.        *)
LEMMA DeleteRepairs ==
    ASSUME NEW data \in SUBSET Sample, IsFiniteSet(data), NEW gone \in SUBSET data,
           NEW table, NEW k \in DayKeys(HourlyOf(gone))
    PROVE  Conflicting(DailyAfterHourlyRefresh(table, HourlyOf(data), data \ gone, gone), {k})
               = Conflicting(DailyOf(HourlyOf(data \ gone)), {k})
<1> DEFINE H == HourlyOf(data)
           C == Conflicting(H, HourKeys(gone))
           U == Untouched(H, HourKeys(gone))
           R == RecomputedHours(data \ gone, gone)
           all == HourlyOf(data \ gone)
           daily1 == refresh_tsdata_daily_rollups_for_affected_hourly(table, U, C)
<1>1. all = U \cup R
  BY RefreshIsExact DEF refresh_tsdata_hourly_rollups_for_affected_from_old
<1>2. HourlyRows(all)
  <2>1. data \ gone \in SUBSET Sample /\ IsFiniteSet(data \ gone)
    BY FS_Subset
  <2> QED BY <2>1, HourlyRowsOf
<1>3. U \cap R = {}
  <2>1. \A h \in R : RollupKey(h) \in HourKeys(gone)
    BY KeyOfHourRow DEF RecomputedHours
  <2> QED BY <2>1 DEF Untouched
<1>4. k \in DayKeys(C)
  <2>1. PICK x \in HourKeys(gone) : k = DayKey(HourRow(x, gone))
    BY DEF DayKeys, HourlyOf
  <2>2. x \in HourKeys(data)
    BY DEF HourKeys
  <2>3. HourRow(x, data) \in C
    BY <2>2, KeyOfHourRow DEF Conflicting, HourlyOf
  <2>4. DayKey(HourRow(x, data)) = DayKey(HourRow(x, gone))
    BY DEF DayKey, HourRow
  <2> QED BY <2>1, <2>3, <2>4 DEF DayKeys
<1> HIDE DEF U, C, R, H, all
<1>5. HourlyRows(U) /\ HourlyRows(R)
  <2>1. U \in SUBSET all /\ R \in SUBSET all
    BY <1>1
  <2>2. IsFiniteSet(U) /\ IsFiniteSet(R)
    BY <1>2, <2>1, FS_Subset DEF HourlyRows
  <2> QED BY <1>2, <2>1, <2>2 DEF HourlyRows
<1>6. Conflicting(daily1, {k}) = DayRows(k, U)
  <2>1. \A x \in DayKeys(U) : RollupKey(DayRow(x, U)) = x
    BY <1>5, DayRowCovers
  <2> QED BY <1>4, <2>1 DEF Conflicting, Untouched, DayRows,
                           refresh_tsdata_daily_rollups_for_affected_hourly
<1> HIDE DEF daily1
<1>7. Conflicting(upsert_tsdata_daily_rollups_from_hourly_new(daily1, R), {k}) = DayRows(k, U \cup R)
  BY <1>3, <1>5, <1>6, UpsertRepairs
<1>8. DailyAfterHourlyRefresh(table, H, data \ gone, gone)
          = upsert_tsdata_daily_rollups_from_hourly_new(daily1, R)
  BY DEF DailyAfterHourlyRefresh, daily1, U, C, R
<1>9. Conflicting(DailyOf(all), {k}) = DayRows(k, all)
  BY <1>2, ConflictingDaily
<1>10. Conflicting(DailyAfterHourlyRefresh(table, H, data \ gone, gone), {k})
          = Conflicting(DailyOf(all), {k})
  BY <1>1, <1>7, <1>8, <1>9
<1> QED BY <1>10 DEF H, all

-----------------------------------------------------------------------------
(* The two statements on tsdata.                                           *)

(* DailyCovers, with the types of the counts.                              *)
DaysCovered == Covering(daily, HourlyOf(tsdata))

(* What the unique key of tsdata guarantees of the rows of an INSERT.      *)
NewKeys(rows) ==
    /\ \A r \in rows : ~Stored(r.ts_uuid, r.ts)
    /\ \A r, q \in rows : r.ts_uuid = q.ts_uuid /\ r.ts = q.ts => r = q

(* An INSERT statement with its triggers.                                  *)
LEMMA InsertKeeps ==
    ASSUME tsdata \in SUBSET Sample, IsFiniteSet(tsdata), UniqueSamples, HourlyExact, DaysCovered,
           NEW rows \in SUBSET Sample, IsFiniteSet(rows), NewKeys(rows), InsertStmt(rows)
    PROVE  /\ tsdata' \in SUBSET Sample /\ IsFiniteSet(tsdata')
           /\ UniqueSamples' /\ HourlyExact' /\ DaysCovered'
<1>1. /\ tsdata' = tsdata \cup rows
      /\ hourly' = upsert_tsdata_hourly_rollups_from_new(hourly, rows)
      /\ daily' = DailyAfterHourlyUpsert(daily, hourly, rows)
  BY DEF InsertStmt
<1>2. tsdata \cap rows = {}
  BY DEF NewKeys, Stored
<1>3. tsdata' \in SUBSET Sample /\ IsFiniteSet(tsdata')
  BY <1>1, FS_Union
<1>4. UniqueSamples'
  BY <1>1 DEF UniqueSamples, NewKeys, Stored
<1>5. hourly' = HourlyOf(tsdata \cup rows)
  BY <1>1, <1>2, UpsertIsExact DEF HourlyExact
<1>6. HourlyOf(tsdata') = HourlyOf(tsdata \cup rows)
  BY <1>1
<1>7. Covering(daily', HourlyOf(tsdata \cup rows))
  BY <1>1, <1>2, DailyAfterInsert DEF HourlyExact, DaysCovered
<1> QED BY <1>3, <1>4, <1>5, <1>6, <1>7 DEF HourlyExact, DaysCovered

(* A DELETE statement with its triggers.                                   *)
LEMMA DeleteKeeps ==
    ASSUME tsdata \in SUBSET Sample, IsFiniteSet(tsdata), UniqueSamples, HourlyExact, DaysCovered,
           NEW rows \in SUBSET tsdata, DeleteStmt(rows)
    PROVE  /\ tsdata' \in SUBSET Sample /\ IsFiniteSet(tsdata')
           /\ UniqueSamples' /\ HourlyExact' /\ DaysCovered'
<1>1. /\ tsdata' = tsdata \ rows
      /\ hourly' = refresh_tsdata_hourly_rollups_for_affected_from_old(
                       hourly, tsdata \ rows, rows)
      /\ daily' = DailyAfterHourlyRefresh(daily, hourly, tsdata \ rows, rows)
  BY DEF DeleteStmt
<1>2. tsdata' \in SUBSET Sample /\ IsFiniteSet(tsdata')
  BY <1>1, FS_Subset
<1>3. UniqueSamples'
  BY <1>1 DEF UniqueSamples
<1>4. hourly' = HourlyOf(tsdata \ rows)
  BY <1>1, RefreshIsExact DEF HourlyExact
<1>5. HourlyOf(tsdata') = HourlyOf(tsdata \ rows)
  BY <1>1
<1>6. Covering(daily', HourlyOf(tsdata \ rows))
  BY <1>1, DailyAfterDelete DEF HourlyExact, DaysCovered
<1> QED BY <1>2, <1>3, <1>4, <1>5, <1>6 DEF HourlyExact, DaysCovered
=============================================================================
