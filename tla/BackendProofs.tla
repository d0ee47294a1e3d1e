---------------------------- MODULE BackendProofs ----------------------------
(***************************************************************************)
(* Proofs about two services of the backend.  The benchmark, for any       *)
(* number of operations, any size of the batches and all latencies: types, *)
(* that a response accounts for every operation exactly once, and that its *)
(* percentiles are ones.  The metrics, for any number of polls and any     *)
(* window: types, and that each request between two answers is counted     *)
(* once.                                                                   *)
(***************************************************************************)
EXTENDS BenchmarkService, MetricsService, SetSums, FunctionTheorems, SequenceTheorems

-----------------------------------------------------------------------------
\* Sorting.

Before(s, i) == {j \in DOMAIN s : s[j] < s[i] \/ (s[j] = s[i] /\ j <= i)}

\* A function on 1..n is a sequence of length n.
LEMMA FunctionIsSeq ==
  ASSUME NEW S, NEW n \in Nat, NEW s \in [1..n -> S]
  PROVE  s \in Seq(S) /\ Len(s) = n
<1>1. s \in Seq(S)
  BY SeqDef
<1>2. DOMAIN s = 1..n
  OBVIOUS
<1>3. DOMAIN s = 1..Len(s) /\ Len(s) \in Nat
  BY <1>1, LenProperties
<1> QED
  BY <1>1, <1>2, <1>3

\* What membership in Seq says.
LEMMA SeqElements ==
  ASSUME NEW S, NEW s \in Seq(S)
  PROVE  /\ DOMAIN s = 1..Len(s) /\ Len(s) \in Nat
         /\ \A i \in DOMAIN s : s[i] \in S
  OBVIOUS

LEMMA BeforeFinite ==
  ASSUME NEW s \in Seq(Nat), NEW i \in DOMAIN s
  PROVE  /\ IsFiniteSet(DOMAIN s) /\ Cardinality(DOMAIN s) = Len(s)
         /\ Before(s, i) \in SUBSET DOMAIN s /\ i \in Before(s, i)
         /\ IsFiniteSet(Before(s, i))
         /\ Place(s, i) = Cardinality(Before(s, i)) /\ Place(s, i) \in 1..Len(s)
<1>1. DOMAIN s = 1..Len(s) /\ Len(s) \in Nat /\ s[i] \in Nat /\ i \in Nat
  OBVIOUS
<1>2. IsFiniteSet(DOMAIN s) /\ Cardinality(DOMAIN s) = Len(s)
  <2>1. IsFiniteSet(1..Len(s)) /\ Cardinality(1..Len(s)) = IF 1 > Len(s) THEN 0 ELSE Len(s) - 1 + 1
    BY <1>1, FS_Interval
  <2> QED
    BY <1>1, <2>1
<1>3. Before(s, i) \in SUBSET DOMAIN s /\ i \in Before(s, i)
  BY <1>1 DEF Before
<1>4. IsFiniteSet(Before(s, i)) /\ Cardinality(Before(s, i)) <= Len(s)
  BY <1>2, <1>3, FS_Subset
<1>5. {i} \in SUBSET Before(s, i) /\ Cardinality({i}) = 1
  BY <1>3, FS_Singleton
<1>6. 1 <= Cardinality(Before(s, i)) /\ Cardinality(Before(s, i)) \in Nat
  <2>1. Cardinality({i}) <= Cardinality(Before(s, i))
    BY <1>4, <1>5, FS_Subset
  <2>2. Cardinality(Before(s, i)) \in Nat
    BY <1>4, FS_CardinalityType
  <2> QED
    BY <1>5, <2>1, <2>2
<1>7. Place(s, i) = Cardinality(Before(s, i))
  BY DEF Place, Before
<1> QED
  BY <1>1, <1>2, <1>3, <1>4, <1>6, <1>7

\* No two elements have the same place.
LEMMA PlacesDiffer ==
  ASSUME NEW s \in Seq(Nat), NEW i \in DOMAIN s, NEW j \in DOMAIN s,
         Place(s, i) = Place(s, j)
  PROVE  i = j
<1>1. ASSUME NEW a \in DOMAIN s, NEW b \in DOMAIN s, a # b,
             s[a] < s[b] \/ (s[a] = s[b] /\ a <= b)
      PROVE  Place(s, a) # Place(s, b)
  <2>1. DOMAIN s \subseteq Nat /\ \A k \in DOMAIN s : s[k] \in Nat
    OBVIOUS
  <2>2. Before(s, a) \in SUBSET Before(s, b)
    <3>1. SUFFICES ASSUME NEW m \in DOMAIN s, s[m] < s[a] \/ (s[m] = s[a] /\ m <= a)
                   PROVE  s[m] < s[b] \/ (s[m] = s[b] /\ m <= b)
      BY DEF Before
    <3>2. PICK sm, sa, sb : sm = s[m] /\ sa = s[a] /\ sb = s[b]
      OBVIOUS
    <3>3. /\ sm \in Nat /\ sa \in Nat /\ sb \in Nat
          /\ m \in Nat /\ a \in Nat /\ b \in Nat
      BY <2>1, <3>2
    <3>4. /\ sm < sa \/ (sm = sa /\ m <= a)
          /\ sa < sb \/ (sa = sb /\ a <= b)
      BY <1>1, <3>1, <3>2
    <3>5. sm < sb \/ (sm = sb /\ m <= b)
      BY <3>3, <3>4
    <3> QED
      BY <3>2, <3>5
  <2>3. b \in Before(s, b) /\ b \notin Before(s, a)
    BY <1>1, <2>1 DEF Before
  <2>4. Cardinality(Before(s, a)) # Cardinality(Before(s, b))
    BY <2>2, <2>3, BeforeFinite, FS_Subset
  <2> QED
    BY <2>4, BeforeFinite
<1>2. s[i] \in Nat /\ s[j] \in Nat /\ i \in Nat /\ j \in Nat
  OBVIOUS
<1>3. \/ s[i] < s[j] \/ (s[i] = s[j] /\ i <= j)
      \/ s[j] < s[i] \/ (s[j] = s[i] /\ j <= i)
  BY <1>2
<1> QED
  BY <1>1, <1>3

\* Every place is taken.
LEMMA PlaceTaken ==
  ASSUME NEW s \in Seq(Nat), NEW n \in 1..Len(s)
  PROVE  \E i \in DOMAIN s : Place(s, i) = n
<1> SUFFICES ASSUME \A i \in DOMAIN s : Place(s, i) # n PROVE FALSE
  OBVIOUS
<1> DEFINE T == (1..Len(s)) \ {n}
           f == [i \in DOMAIN s |-> Place(s, i)]
<1>1. f \in [DOMAIN s -> T]
  BY BeforeFinite
<1>2. Len(s) \in Nat /\ DOMAIN s = 1..Len(s) /\ Len(s) >= 1
  OBVIOUS
<1>3. IsFiniteSet(1..Len(s)) /\ Cardinality(1..Len(s)) = Len(s)
  <2>1. /\ IsFiniteSet(1..Len(s))
        /\ Cardinality(1..Len(s)) = IF 1 > Len(s) THEN 0 ELSE Len(s) - 1 + 1
    BY <1>2, FS_Interval
  <2> QED
    BY <1>2, <2>1
<1>4. IsFiniteSet(T) /\ Cardinality(T) = Len(s) - 1
  BY <1>3, FS_RemoveElement
<1>5. IsFiniteSet(DOMAIN s) /\ Cardinality(T) < Cardinality(DOMAIN s)
  BY <1>2, <1>3, <1>4
<1>6. \A i \in DOMAIN s : f[i] = Place(s, i)
  OBVIOUS
<1> HIDE DEF f, T
<1>7. PICK i, j \in DOMAIN s : i # j /\ f[i] = f[j]
  BY <1>1, <1>4, <1>5, FS_PigeonHole
<1> QED
  BY <1>6, <1>7, PlacesDiffer

\* x may be the n-th of the sorted list: at least n elements are not above it, and
\* fewer are below it.
IsNth(x, s, n) ==
  /\ Cardinality({j \in 1..Len(s) : s[j] <= x}) >= n
  /\ Cardinality({j \in 1..Len(s) : s[j] < x}) < n

LEMMA SortedPlace ==
  ASSUME NEW S \in SUBSET Nat, NEW s \in Seq(S), NEW n \in 1..Len(s)
  PROVE  Sorted(s)[n] \in S /\ IsNth(Sorted(s)[n], s, n)
<1>1. s \in Seq(Nat) /\ DOMAIN s = 1..Len(s) /\ Len(s) \in Nat
  <2>1. Len(s) \in Nat /\ s \in [1..Len(s) -> S]
    OBVIOUS
  <2>2. s \in [1..Len(s) -> Nat]
    BY <2>1
  <2>3. s \in Seq(Nat)
    BY <2>1, <2>2, FunctionIsSeq
  <2> QED
    BY <2>1, <2>3
<1>2. PICK i \in DOMAIN s : Place(s, i) = n /\ Sorted(s)[n] = s[i]
  <2>1. \E i \in DOMAIN s : Place(s, i) = n
    BY <1>1, PlaceTaken
  <2>2. n \in DOMAIN s
    BY <1>1
  <2> QED
    BY <2>1, <2>2 DEF Sorted
<1> DEFINE Upto == {j \in 1..Len(s) : s[j] <= Sorted(s)[n]}
           Below == {j \in 1..Len(s) : s[j] < Sorted(s)[n]}
<1>3. \A j \in 1..Len(s) : s[j] \in Nat
  BY <1>1
<1>4. Before(s, i) \in SUBSET Upto
  BY <1>1, <1>2, <1>3 DEF Before
<1>5. Below \in SUBSET (Before(s, i) \ {i})
  BY <1>1, <1>2, <1>3 DEF Before
<1>6. Upto \in SUBSET DOMAIN s
  BY <1>1
<1>7. s[i] \in S
  BY <1>1
<1> HIDE DEF Upto, Below
<1>8. /\ IsFiniteSet(DOMAIN s) /\ IsFiniteSet(Before(s, i)) /\ i \in Before(s, i)
      /\ Cardinality(Before(s, i)) = n
  BY <1>1, <1>2, BeforeFinite
<1>9. IsFiniteSet(Upto) /\ n <= Cardinality(Upto)
  BY <1>4, <1>6, <1>8, FS_Subset
<1>10. /\ IsFiniteSet(Before(s, i) \ {i})
       /\ Cardinality(Before(s, i) \ {i}) = n - 1
  BY <1>8, FS_RemoveElement
<1>11. Cardinality(Below) <= n - 1 /\ Cardinality(Below) \in Nat /\ Cardinality(Upto) \in Nat
  BY <1>5, <1>9, <1>10, FS_Subset, FS_CardinalityType
<1>12. Cardinality(Below) < n
  BY <1>11
<1>13. Cardinality(Upto) >= n
  BY <1>9, <1>11
<1> QED
  BY <1>2, <1>7, <1>12, <1>13 DEF Upto, Below, IsNth

Index(n, p) == Smaller((p * n) \div 100, n - 1) + 1
IsIndex(k, n, p) == k \in 1..n /\ 100 * k >= p * n /\ 100 * (k - 1) <= p * n

\* pct: int(p / 100 * n), capped, is the index of a p-th percentile.
LEMMA PercentileIndex ==
  ASSUME NEW n \in Nat \ {0}, NEW p \in 0..100
  PROVE  IsIndex(Index(n, p), n, p)
<1>0. PICK k : k = Index(n, p)
  OBVIOUS
<1> DEFINE m == p * n
           q == m \div 100
<1>1. m \in Nat /\ m <= 100 * n
  <2>1. p \in Nat /\ p <= 100
    OBVIOUS
  <2> QED
    BY <2>1
<1>5. k = Smaller(q, n - 1) + 1
  BY <1>0 DEF q, m, Index
<1> HIDE DEF m
<1>2. q \in Nat /\ 100 * q <= m /\ m < 100 * q + 100
  BY <1>1
<1> HIDE DEF q
<1>3. Smaller(q, n - 1) = IF q < n - 1 THEN q ELSE n - 1
  BY DEF Smaller
<1>4. k \in 1..n /\ 100 * k >= m /\ 100 * (k - 1) <= m
  <2>1. CASE q < n - 1
    <3>1. k = q + 1
      BY <1>3, <1>5, <2>1
    <3> QED
      BY <1>1, <1>2, <2>1, <3>1
  <2>2. CASE ~(q < n - 1)
    <3>1. k = n
      BY <1>3, <1>5, <2>2
    <3> QED
      BY <1>1, <1>2, <2>2, <3>1
  <2> QED
    BY <2>1, <2>2
<1> QED
  BY <1>0, <1>4 DEF m, IsIndex

\* Rounding keeps the order.
LEMMA RoundedOrder ==
  ASSUME NEW a \in Nat, NEW b \in Nat
  PROVE  Rounded(a) \in Nat /\ (a <= b => Rounded(a) <= Rounded(b))
<1>1. ASSUME NEW x \in Nat
      PROVE  x \div 1000 \in Nat /\ x % 1000 \in 0..999
  OBVIOUS
<1>2. PICK c, d, e, f : c = a \div 1000 /\ d = a % 1000 /\ e = b \div 1000 /\ f = b % 1000
  OBVIOUS
<1>3. /\ c \in Nat /\ e \in Nat /\ d \in 0..999 /\ f \in 0..999
      /\ a = 1000 * c + d /\ b = 1000 * e + f
  <2>1. c \in Nat /\ e \in Nat /\ d \in 0..999 /\ f \in 0..999
    BY <1>1, <1>2
  <2>2. a = 1000 * c + d
    BY <1>2, <2>1
  <2>3. b = 1000 * e + f
    BY <1>2, <2>1
  <2> QED
    BY <2>1, <2>2, <2>3
<1>4. /\ Rounded(a) = IF d > 500 \/ (d = 500 /\ c % 2 = 1) THEN c + 1 ELSE c
      /\ Rounded(b) = IF f > 500 \/ (f = 500 /\ e % 2 = 1) THEN e + 1 ELSE e
  BY <1>2 DEF Rounded
<1>5. Rounded(a) \in {c, c + 1} /\ Rounded(b) \in {e, e + 1}
  BY <1>4
<1>6. ASSUME a <= b PROVE Rounded(a) <= Rounded(b)
  <2>1. c < e \/ (c = e /\ d <= f)
    BY <1>3, <1>6
  <2>2. CASE c < e
    BY <1>3, <1>5, <2>2
  <2>3. CASE c = e /\ d <= f
    BY <1>3, <1>4, <2>3
  <2> QED
    BY <2>1, <2>2, <2>3
<1> QED
  BY <1>3, <1>5, <1>6

\* What pct reports of a list of latencies is a p-th percentile of the rounded ones.
IsPercentile(x, s, n, p) ==
  /\ 100 * Cardinality({j \in 1..n : Rounded(s[j]) <= x}) >= p * n
  /\ 100 * Cardinality({j \in 1..n : Rounded(s[j]) < x}) <= p * n

LEMMA PctProperties ==
  ASSUME NEW s \in Seq(Latencies), NEW n \in Nat \ {0}, Len(s) = n, NEW p \in {50, 95, 99},
         NEW x, x = pct(Sorted(s), p)
  PROVE  x \in Nat /\ IsPercentile(x, s, n, p)
<1>0. PICK k : k = Index(n, p)
  OBVIOUS
<1>1. k \in 1..n /\ 100 * k >= p * n /\ 100 * (k - 1) <= p * n
  <2>1. p \in 0..100
    OBVIOUS
  <2>2. IsIndex(k, n, p)
    BY <1>0, <2>1, PercentileIndex
  <2> QED
    BY <2>2 DEF IsIndex
<1>2. Len(Sorted(s)) = n
  <2>1. DOMAIN s = 1..n
    OBVIOUS
  <2>2. Sorted(s) \in [1..n -> {Sorted(s)[i] : i \in 1..n}]
    BY <2>1 DEF Sorted
  <2> QED
    BY <2>2, FunctionIsSeq
<1>3. PICK y : y = Sorted(s)[k]
  OBVIOUS
<1>4. x = Rounded(y)
  BY <1>0, <1>2, <1>3 DEF pct, Index
<1>5. /\ y \in Nat
      /\ Cardinality({j \in 1..n : s[j] <= y}) >= k
      /\ Cardinality({j \in 1..n : s[j] < y}) < k
  <2>1. k \in 1..Len(s) /\ Latencies \in SUBSET Nat
    BY <1>1, BenchmarkAssumption
  <2>2. Sorted(s)[k] \in Latencies /\ IsNth(Sorted(s)[k], s, k)
    BY <2>1, SortedPlace
  <2> QED
    BY <1>3, <2>1, <2>2 DEF IsNth
<1>6. ASSUME NEW j \in 1..n PROVE s[j] \in Nat
  <2>1. DOMAIN s = 1..n /\ \A i \in DOMAIN s : s[i] \in Latencies
    BY SeqElements
  <2>2. s[j] \in Latencies
    BY <2>1
  <2> QED
    BY <2>2, BenchmarkAssumption
<1>7. /\ x \in Nat
      /\ {j \in 1..n : s[j] <= y} \subseteq {j \in 1..n : Rounded(s[j]) <= x}
      /\ {j \in 1..n : Rounded(s[j]) < x} \subseteq {j \in 1..n : s[j] < y}
  <2>1. x \in Nat
    BY <1>4, <1>5, RoundedOrder
  <2>2. ASSUME NEW j \in 1..n
        PROVE  /\ s[j] <= y => Rounded(s[j]) <= x
               /\ Rounded(s[j]) < x => s[j] < y
    <3>1. PICK z : z = s[j]
      OBVIOUS
    <3>2. z \in Nat /\ Rounded(z) \in Nat
      BY <1>6, <3>1, RoundedOrder
    <3>3. /\ z <= y => Rounded(z) <= x
          /\ y <= z => x <= Rounded(z)
      BY <1>4, <1>5, <3>2, RoundedOrder
    <3> QED
      BY <1>5, <2>1, <3>1, <3>2, <3>3
  <2> QED
    BY <2>1, <2>2
<1>8. ASSUME NEW T \in SUBSET (1..n), NEW U \in SUBSET T
      PROVE  Cardinality(U) \in Nat /\ Cardinality(T) \in Nat /\ Cardinality(U) <= Cardinality(T)
  <2>1. IsFiniteSet(1..n)
    BY FS_Interval
  <2> QED
    BY <2>1, FS_Subset, FS_CardinalityType
<1>9. PICK a, b : /\ a = Cardinality({j \in 1..n : Rounded(s[j]) <= x})
                  /\ b = Cardinality({j \in 1..n : Rounded(s[j]) < x})
  OBVIOUS
<1>10. a \in Nat /\ b \in Nat /\ a >= k /\ b < k
  <2>1. PICK c, d : /\ c = Cardinality({j \in 1..n : s[j] <= y})
                    /\ d = Cardinality({j \in 1..n : s[j] < y})
    OBVIOUS
  <2>2. c \in Nat /\ a \in Nat /\ c <= a
    BY <1>7, <1>8, <1>9, <2>1
  <2>3. d \in Nat /\ b \in Nat /\ b <= d
    BY <1>7, <1>8, <1>9, <2>1
  <2>4. c >= k /\ d < k /\ k \in Nat
    BY <1>1, <1>5, <2>1
  <2> QED
    BY <2>2, <2>3, <2>4
<1>11. 100 * a >= p * n /\ 100 * b <= p * n
  <2>1. p * n \in Nat /\ k \in Nat
    BY <1>1
  <2>2. b <= k - 1
    BY <1>10, <2>1
  <2> QED
    BY <1>1, <1>10, <2>1, <2>2
<1> QED
  BY <1>7, <1>9, <1>11 DEF IsPercentile

-----------------------------------------------------------------------------
\* The invariant.

\* The operations of the batches that were gathered.
Counted == Smaller(next, num_ops)

\* Unless an exception has ended it, the benchmark has the results of all gathered
\* batches and no others, and only operations of the present batch are under way.
Gathered ==
  /\ running \subseteq (IF stage = "gather" THEN Batch ELSE {})
  /\ stage = "gather" => next < num_ops /\ \A o \in Batch \ running : result[o] \in Result
  /\ stage = "returned" => next >= num_ops
  /\ Len(latencies) = Counted
  /\ \A o \in 1..Counted : result[o] \in Result /\ latencies[o] = result[o].latency
  /\ errors = Cardinality({o \in 1..Counted : result[o].error})

BenchInv ==
  /\ BenchTypeOK
  /\ stage # "raised" => Gathered
  /\ stage = "returned" => report = [p \in {50, 95, 99} |-> pct(Sorted(latencies), p)]

LEMMA CountedType ==
  ASSUME next \in Nat
  PROVE  /\ Counted \in 0..num_ops /\ num_ops \in Nat \ {0} /\ batch_size \in Nat \ {0}
         /\ next >= num_ops => Counted = num_ops
         /\ next < num_ops => Counted = next
<1>1. num_ops \in Nat \ {0} /\ batch_size \in Nat \ {0}
  BY BenchmarkAssumption
<1> QED
  BY <1>1 DEF Counted, Smaller

\* A batch is an interval of operations after those counted.
LEMMA BatchType ==
  ASSUME next \in Nat, next < num_ops
  PROVE  LET n == Smaller(next + batch_size, num_ops) IN
         /\ n \in Nat /\ n > next /\ n <= num_ops
         /\ Batch = (next + 1)..n /\ Cardinality(Batch) = n - next /\ Batch \subseteq Ops
<1> DEFINE n == Smaller(next + batch_size, num_ops)
<1>1. n \in Nat /\ n > next /\ n <= num_ops
  BY CountedType DEF Smaller
<1>2. Batch = (next + 1)..n
  BY DEF Batch
<1> HIDE DEF n
<1>3. Cardinality((next + 1)..n) = IF next + 1 > n THEN 0 ELSE n - (next + 1) + 1
  <2>1. next + 1 \in Int /\ n \in Int
    BY <1>1
  <2> QED
    BY <2>1, FS_Interval
<1>4. Cardinality(Batch) = n - next
  BY <1>1, <1>2, <1>3
<1>5. Batch \subseteq Ops
  <2>1. num_ops \in Nat
    BY CountedType
  <2> QED
    BY <1>1, <1>2, <2>1 DEF Ops
<1> QED
  BY <1>1, <1>2, <1>4, <1>5 DEF n

\* The errors of the n results after the m-th, by their place among them and by operation.
ErrorPlaces(m, n) == {i \in 1..n : result[m + i].error}
ErrorOps(m, n) == {o \in (m + 1)..(m + n) : result[o].error}

\* They are as many.
LEMMA ShiftedErrors ==
  ASSUME NEW m \in Nat, NEW n \in Nat
  PROVE  /\ IsFiniteSet(ErrorOps(m, n))
         /\ Cardinality(ErrorPlaces(m, n)) = Cardinality(ErrorOps(m, n))
<1> DEFINE here == {i \in 1..n : result[m + i].error}
           there == {o \in (m + 1)..(m + n) : result[o].error}
           f == [i \in here |-> m + i]
<1>1. IsFiniteSet(here)
  <2>1. IsFiniteSet(1..n)
    BY FS_Interval
  <2> QED
    BY <2>1, FS_Subset
<1>2. f \in [here -> there]
  OBVIOUS
<1>3. \A a, b \in here : f[a] = f[b] => a = b
  OBVIOUS
<1>4. ASSUME NEW t \in there PROVE \E i \in here : f[i] = t
  <2>1. t - m \in 1..n /\ m + (t - m) = t
    OBVIOUS
  <2>2. t - m \in here
    BY <2>1
  <2> QED
    BY <2>1, <2>2
<1> HIDE DEF f, here, there
<1>5. f \in Bijection(here, there)
  BY <1>2, <1>3, <1>4, Fun_IsBij
<1>6. ExistsBijection(here, there)
  BY <1>5, Fun_ExistsBij
<1>7. IsFiniteSet(there) /\ Cardinality(there) = Cardinality(here)
  BY <1>1, <1>6, FS_Bijection
<1> QED
  BY <1>7 DEF here, there, ErrorPlaces, ErrorOps

-----------------------------------------------------------------------------
\* The steps.

LEMMA InitInv == BenchInit => BenchInv
<1> SUFFICES ASSUME BenchInit PROVE BenchInv
  OBVIOUS
<1>1. num_ops \in Nat \ {0}
  BY BenchmarkAssumption
<1>2. BenchTypeOK
  BY DEF BenchInit, BenchTypeOK
<1>3. Counted = 0
  BY <1>1 DEF BenchInit, Counted, Smaller
<1>4. Len(latencies) = 0
  BY DEF BenchInit
<1>5. {o \in 1..0 : result[o].error} = {}
  OBVIOUS
<1>6. errors = Cardinality({o \in 1..0 : result[o].error})
  BY <1>5, FS_EmptySet DEF BenchInit
<1>7. Gathered
  BY <1>3, <1>4, <1>6 DEF BenchInit, Gathered
<1> QED
  BY <1>2, <1>7 DEF BenchInit, BenchInv

LEMMA StartBatchStep ==
  ASSUME BenchInv, StartBatch
  PROVE  BenchInv'
<1>1. /\ stage = "batch" /\ next < num_ops /\ running' = Batch /\ stage' = "gather"
      /\ UNCHANGED <<next, result, latencies, errors, report>>
  BY DEF StartBatch
<1>2. BenchTypeOK /\ Gathered
  BY <1>1 DEF BenchInv
<1>3. Batch \subseteq Ops
  BY <1>1, <1>2, BatchType DEF BenchTypeOK
<1>4. Batch' = Batch /\ Counted' = Counted
  BY <1>1 DEF Batch, Counted
<1>5. BenchTypeOK'
  BY <1>1, <1>2, <1>3 DEF BenchTypeOK
<1>6. Gathered'
  BY <1>1, <1>2, <1>4 DEF Gathered
<1> QED
  BY <1>1, <1>5, <1>6 DEF BenchInv

LEMMA OpEndsStep ==
  ASSUME BenchInv, NEW o \in Ops, OpEnds(o)
  PROVE  BenchInv'
<1>1. PICK r \in Result :
        /\ o \in running /\ running' = running \ {o}
        /\ result' = [result EXCEPT ![o] = r]
        /\ UNCHANGED <<stage, next, latencies, errors, report>>
  BY DEF OpEnds
<1>2. BenchTypeOK /\ BenchTypeOK'
  BY <1>1 DEF BenchInv, BenchTypeOK
<1>3. CASE stage = "raised"
  BY <1>1, <1>2, <1>3 DEF BenchInv
<1>4. CASE stage # "raised"
  <2>1. Gathered /\ stage = "gather" /\ o \in Batch /\ next < num_ops
    BY <1>1, <1>4 DEF BenchInv, Gathered
  <2>2. /\ Batch' = Batch /\ Counted' = Counted /\ Counted = next
        /\ next \in Nat
    BY <1>1, <1>2, <2>1, CountedType DEF Batch, Counted, BenchTypeOK
  <2>3. o \notin 1..Counted
    BY <2>1, <2>2, BatchType
  <2>4. \A q \in Ops : result'[q] = IF q = o THEN r ELSE result[q]
    BY <1>1, <1>2 DEF BenchTypeOK
  <2>5. 1..Counted \subseteq Ops
    BY <1>2, <2>2, CountedType DEF Ops
  <2>6. Batch \subseteq Ops
    BY <2>1, <2>2, BatchType
  <2>7. \A q \in 1..Counted : result'[q] = result[q]
    BY <2>3, <2>4, <2>5
  <2>8. \A q \in Batch \ running' : result'[q] \in Result
    BY <1>1, <2>1, <2>4, <2>6 DEF Gathered
  <2>9. {q \in 1..Counted : result'[q].error} = {q \in 1..Counted : result[q].error}
    BY <2>7
  <2>10. errors' = Cardinality({q \in 1..Counted' : result'[q].error})
    BY <1>1, <2>1, <2>2, <2>9 DEF Gathered
  <2>11. Gathered'
    BY <1>1, <2>1, <2>2, <2>7, <2>8, <2>10 DEF Gathered
  <2> QED
    BY <1>1, <1>2, <2>1, <2>11 DEF BenchInv
<1> QED
  BY <1>3, <1>4

LEMMA OpRaisesStep ==
  ASSUME BenchInv, NEW o \in Ops, OpRaises(o)
  PROVE  BenchInv'
<1>1. /\ o \in running /\ running' = running \ {o}
      /\ stage' = IF stage = "gather" THEN "raised" ELSE stage
      /\ UNCHANGED <<next, result, latencies, errors, report>>
  BY DEF OpRaises
<1>2. stage' = "raised"
  BY <1>1 DEF BenchInv, Gathered
<1>3. BenchTypeOK'
  BY <1>1, <1>2 DEF BenchInv, BenchTypeOK
<1> QED
  BY <1>2, <1>3 DEF BenchInv

\* The results of a batch extend the latencies and the count of errors by those of
\* its operations.
LEMMA BatchEndsStep ==
  ASSUME BenchInv, BatchEnds
  PROVE  BenchInv'
<1> DEFINE n == Smaller(next + batch_size, num_ops)
           k == n - next
           t == [i \in DOMAIN BatchResults |-> BatchResults[i].latency]
<1>1. /\ stage = "gather" /\ running = {} /\ next' = next + batch_size /\ stage' = "batch"
      /\ latencies' = latencies \o t /\ errors' = CountErrors(BatchResults)
      /\ UNCHANGED <<running, result, report>>
  BY DEF BatchEnds
<1>2. BenchTypeOK /\ Gathered /\ next < num_ops /\ next \in Nat
  BY <1>1 DEF BenchInv, Gathered, BenchTypeOK
<1>3. /\ n \in Nat /\ n > next /\ n <= num_ops
      /\ Batch = (next + 1)..n /\ Cardinality(Batch) = n - next
  BY <1>2, BatchType
<1>4. Counted = next /\ Counted' = n /\ num_ops \in Nat /\ batch_size \in Nat
  BY <1>1, <1>2, CountedType DEF Counted
<1> HIDE DEF n
<1>5. \A o \in (next + 1)..n : result[o] \in Result
  BY <1>1, <1>2, <1>3 DEF Gathered
<1>6. k \in Nat /\ next + k = n /\ BatchResults = [i \in 1..k |-> result[next + i]]
  BY <1>2, <1>3 DEF BatchResults
<1> HIDE DEF k
<1>7. \A i \in 1..k : next + i \in (next + 1)..n
  BY <1>2, <1>3, <1>6
<1>8. t \in [1..k -> Latencies] /\ \A i \in 1..k : t[i] = result[next + i].latency
  BY <1>5, <1>6, <1>7 DEF Result
<1> HIDE DEF t
<1>9. t \in Seq(Latencies) /\ Len(t) = k
  BY <1>6, <1>8, FunctionIsSeq
<1>10. latencies \in Seq(Latencies) /\ Len(latencies) = next
  BY <1>2, <1>4 DEF Gathered, BenchTypeOK
<1>11. latencies' \in Seq(Latencies) /\ Len(latencies') = n
  <2>1. latencies \o t \in Seq(Latencies) /\ Len(latencies \o t) = Len(latencies) + Len(t)
    BY <1>9, <1>10, ConcatProperties
  <2>2. Len(latencies) + Len(t) = n
    BY <1>6, <1>9, <1>10
  <2> QED
    BY <1>1, <2>1, <2>2
<1>12. ASSUME NEW o \in 1..n PROVE result[o] \in Result /\ latencies'[o] = result[o].latency
  <2>1. CASE o <= next
    <3>1. o \in 1..next
      BY <1>2, <2>1
    <3>2. latencies'[o] = latencies[o]
      BY <1>1, <1>9, <1>10, <3>1
    <3> QED
      BY <1>2, <1>4, <3>1, <3>2 DEF Gathered
  <2>2. CASE ~(o <= next)
    <3>1. o \in (next + 1)..n /\ o - next \in 1..k /\ next + (o - next) = o
      BY <1>2, <1>3, <1>6, <2>2
    <3>2. o \in (Len(latencies) + 1)..(Len(latencies) + Len(t))
      BY <1>2, <1>6, <1>9, <1>10, <3>1
    <3>3. latencies'[o] = t[o - next]
      BY <1>1, <1>9, <1>10, <3>2
    <3>4. t[o - next] = result[o].latency
      BY <1>8, <3>1
    <3> QED
      BY <1>5, <3>1, <3>3, <3>4
  <2> QED
    BY <2>1, <2>2
<1>13. errors' = Cardinality({o \in 1..n : result[o].error})
  <2> DEFINE old == {o \in 1..next : result[o].error}
             here == {i \in 1..k : result[next + i].error}
             there == {o \in (next + 1)..(next + k) : result[o].error}
  <2>1. IsFiniteSet(there) /\ Cardinality(here) = Cardinality(there)
    <3>1. next \in Nat
      BY <1>2, Zenon
    <3>2. k \in Nat
      BY <1>6, Zenon
    <3>3. /\ IsFiniteSet(ErrorOps(next, k))
          /\ Cardinality(ErrorPlaces(next, k)) = Cardinality(ErrorOps(next, k))
      BY <3>1, <3>2, ShiftedErrors
    <3> QED
      BY <3>3, Zenon DEF ErrorOps, ErrorPlaces
  <2>2. IsFiniteSet(old)
    <3>1. IsFiniteSet(1..next)
      BY <1>2, FS_Interval
    <3> QED
      BY <3>1, FS_Subset
  <2>3. old \cap there = {}
    <3>1. \A o \in 1..next : o \notin (next + 1)..(next + k)
      BY <1>2
    <3> QED
      BY <3>1
  <2>4. {o \in 1..n : result[o].error} = old \cup there
    <3>1. \A o \in 1..n : o \in 1..next \/ o \in (next + 1)..(next + k)
      BY <1>2, <1>3, <1>6
    <3>2. 1..next \subseteq 1..n /\ (next + 1)..(next + k) \subseteq 1..n
      BY <1>2, <1>3, <1>6
    <3> QED
      BY <3>1, <3>2
  <2>5. errors = Cardinality(old)
    BY <1>2, <1>4 DEF Gathered
  <2>6. {i \in DOMAIN BatchResults : BatchResults[i].error} = here
    BY <1>6
  <2>7. errors' = errors + Cardinality(here)
    BY <1>1, <2>6 DEF CountErrors
  <2> HIDE DEF old, here, there
  <2>8. /\ Cardinality(old \cup there)
             = Cardinality(old) + Cardinality(there) - Cardinality(old \cap there)
        /\ Cardinality(old) \in Nat /\ Cardinality(there) \in Nat
    BY <2>1, <2>2, FS_Union, FS_CardinalityType
  <2>9. Cardinality(old \cap there) = 0
    BY <2>3, FS_EmptySet
  <2>10. Cardinality(old \cup there) = Cardinality(old) + Cardinality(there)
    BY <2>8, <2>9
  <2> QED
    BY <2>1, <2>4, <2>5, <2>7, <2>10
<1>14. errors' \in Nat
  <2>1. IsFiniteSet({o \in 1..n : result[o].error})
    <3>1. IsFiniteSet(1..n)
      BY <1>3, FS_Interval
    <3> QED
      BY <3>1, FS_Subset
  <2> QED
    BY <1>13, <2>1, FS_CardinalityType
<1>15. BenchTypeOK'
  BY <1>1, <1>2, <1>4, <1>11, <1>14 DEF BenchTypeOK
<1>16. Gathered'
  BY <1>1, <1>4, <1>11, <1>12, <1>13 DEF Gathered
<1> QED
  BY <1>1, <1>15, <1>16 DEF BenchInv

LEMMA ReturnStep ==
  ASSUME BenchInv, Return
  PROVE  BenchInv'
<1>1. /\ stage = "batch" /\ next >= num_ops /\ stage' = "returned"
      /\ report' = [p \in {50, 95, 99} |-> pct(Sorted(latencies), p)]
      /\ UNCHANGED <<next, running, result, latencies, errors>>
  BY DEF Return
<1>2. BenchTypeOK /\ Gathered
  BY <1>1 DEF BenchInv
<1>3. Gathered'
  <2>1. Batch' = Batch /\ Counted' = Counted
    BY <1>1 DEF Batch, Counted
  <2> QED
    BY <1>1, <1>2, <2>1 DEF Gathered
<1>4. Len(latencies) = num_ops /\ num_ops \in Nat \ {0} /\ latencies \in Seq(Latencies)
  BY <1>1, <1>2, CountedType DEF Gathered, BenchTypeOK
<1>5. ASSUME NEW p \in {50, 95, 99} PROVE pct(Sorted(latencies), p) \in Nat
  <2>1. PICK x : x = pct(Sorted(latencies), p)
    OBVIOUS
  <2>2. x \in Nat
    BY <1>4, <2>1, PctProperties
  <2> QED
    BY <2>1, <2>2
<1>6. BenchTypeOK'
  <2>1. report' \in [{50, 95, 99} -> Nat]
    BY <1>1, <1>5
  <2> QED
    BY <1>1, <1>2, <2>1 DEF BenchTypeOK
<1> QED
  BY <1>1, <1>3, <1>6 DEF BenchInv

LEMMA Invariant == BenchSpec => []BenchInv
<1>1. BenchInv /\ [BenchNext]_benchVars => BenchInv'
  <2> SUFFICES ASSUME BenchInv, [BenchNext]_benchVars PROVE BenchInv'
    OBVIOUS
  <2>1. CASE UNCHANGED benchVars
    BY <2>1 DEF benchVars, BenchInv, BenchTypeOK, Gathered, Batch, Counted
  <2> QED
    BY <2>1, StartBatchStep, OpEndsStep, OpRaisesStep, BatchEndsStep, ReturnStep
       DEF BenchNext, Rest
<1> QED
  BY InitInv, <1>1, PTL DEF BenchSpec

-----------------------------------------------------------------------------
\* The results.

\* run_benchmark's variables keep their types, for every number of operations, batch
\* size and set of latencies.
THEOREM BenchTypeCorrect == BenchSpec => []BenchTypeOK
<1>1. BenchInv => BenchTypeOK
  BY DEF BenchInv
<1> QED
  BY <1>1, Invariant, PTL

\* A response of run_benchmark accounts for every operation exactly once.
THEOREM ResponseRight == BenchSpec => []ResponseComplete
<1>1. BenchInv => ResponseComplete
  <2> SUFFICES ASSUME BenchInv, stage = "returned"
               PROVE  /\ running = {} /\ Len(latencies) = num_ops
                      /\ errors = Cardinality({o \in Ops : result[o].error})
    BY DEF ResponseComplete
  <2>1. Gathered /\ next \in Nat /\ next >= num_ops
    BY DEF BenchInv, Gathered, BenchTypeOK
  <2>2. Counted = num_ops
    BY <2>1, CountedType
  <2> QED
    BY <2>1, <2>2 DEF Gathered, Ops
<1> QED
  BY <1>1, Invariant, PTL

\* pct's index is right: a reported percentile is one of all the operations' latencies,
\* rounded to microseconds.
THEOREM PercentilesCorrect == BenchSpec => []PercentilesRight
<1>1. BenchInv => PercentilesRight
  <2> SUFFICES ASSUME BenchInv, stage = "returned", NEW p \in {50, 95, 99}
               PROVE  /\ 100 * Cardinality({o \in Ops : RoundedLatency(o) <= report[p]}) >= p * num_ops
                      /\ 100 * Cardinality({o \in Ops : RoundedLatency(o) < report[p]}) <= p * num_ops
    BY DEF PercentilesRight
  <2>1. Gathered /\ next \in Nat /\ next >= num_ops /\ latencies \in Seq(Latencies)
    BY DEF BenchInv, Gathered, BenchTypeOK
  <2>2. Counted = num_ops /\ Len(latencies) = num_ops /\ num_ops \in Nat \ {0}
    BY <2>1, CountedType DEF Gathered
  <2>3. report[p] = pct(Sorted(latencies), p)
    BY DEF BenchInv
  <2>4. \A o \in Ops : result[o].latency = latencies[o]
    BY <2>1, <2>2 DEF Gathered, Ops
  <2>5. PICK x : x = report[p]
    OBVIOUS
  <2>6. /\ {o \in Ops : RoundedLatency(o) <= x} = {o \in 1..num_ops : Rounded(latencies[o]) <= x}
        /\ {o \in Ops : RoundedLatency(o) < x} = {o \in 1..num_ops : Rounded(latencies[o]) < x}
    BY <2>4 DEF Ops, RoundedLatency
  <2>7. x = pct(Sorted(latencies), p)
    BY <2>3, <2>5
  <2>8. IsPercentile(x, latencies, num_ops, p)
    BY <2>1, <2>2, <2>7, PctProperties
  <2> QED
    BY <2>5, <2>6, <2>8 DEF IsPercentile
<1> QED
  BY <1>1, Invariant, PTL

-----------------------------------------------------------------------------
(* The metrics service.                                                    *)

Window == Seq((0..MaxNow) \X Int)

\* What ops_per_sec takes of each delta.
RecentDeltas(h) == [i \in DOMAIN h |-> IF now - h[i][1] <= Second THEN h[i][2] ELSE 0]

LEMMA WindowType ==
  ASSUME NEW h \in Window
  PROVE  /\ IsFiniteSet(DOMAIN h) /\ DOMAIN h = 1..Len(h) /\ Len(h) \in Nat
         /\ \A i \in DOMAIN h : h[i][1] \in 0..MaxNow /\ h[i][2] \in Int
<1>1. DOMAIN h = 1..Len(h) /\ Len(h) \in Nat
  BY DEF Window
<1>2. IsFiniteSet(DOMAIN h)
  BY <1>1, FS_Interval
<1>3. ASSUME NEW i \in DOMAIN h PROVE h[i][1] \in 0..MaxNow /\ h[i][2] \in Int
  <2>1. h[i] \in (0..MaxNow) \X Int
    BY <1>1 DEF Window
  <2> QED
    BY <2>1
<1> QED
  BY <1>1, <1>2, <1>3

\* deque.append: the item becomes the last one, the others stay in their order, and
\* only what no longer fits is dropped at the front.
LEMMA PushType ==
  ASSUME NEW h \in Window, Len(h) <= MaxLen, NEW item \in (0..MaxNow) \X Int
  PROVE  LET n == Len(Push(h, item)) IN
         /\ Push(h, item) \in Window /\ n <= MaxLen
         /\ n = IF Len(h) < MaxLen THEN Len(h) + 1 ELSE Len(h)
         /\ Push(h, item)[n] = item
         /\ \A i \in 1..(n - 1) : Push(h, item)[i] = h[Len(h) - n + 1 + i]
<1>1. MaxLen \in Nat \ {0} /\ Len(h) \in Nat
  BY MetricsAssumption, WindowType
<1>2. CASE Len(h) < MaxLen
  <2>1. Push(h, item) = Append(h, item)
    BY <1>2 DEF Push
  <2>2. /\ Append(h, item) \in Window /\ Len(Append(h, item)) = Len(h) + 1
        /\ Append(h, item)[Len(h) + 1] = item
        /\ \A i \in 1..Len(h) : Append(h, item)[i] = h[i]
    BY DEF Window
  <2> QED
    BY <1>1, <1>2, <2>1, <2>2
<1>3. CASE ~(Len(h) < MaxLen)
  <2>1. Push(h, item) = Append(Tail(h), item)
    BY <1>3 DEF Push
  <2>2. PICK t : t = Tail(h)
    OBVIOUS
  <2>3. h # <<>> /\ Len(h) = MaxLen
    BY <1>1, <1>3
  <2>4. /\ t \in Window /\ Len(t) = MaxLen - 1
        /\ \A i \in 1..(MaxLen - 1) : t[i] = h[i + 1]
    BY <1>1, <2>2, <2>3 DEF Window
  <2>5. /\ Append(t, item) \in Window /\ Len(Append(t, item)) = MaxLen
        /\ Append(t, item)[MaxLen] = item
        /\ \A i \in 1..(MaxLen - 1) : Append(t, item)[i] = t[i]
    BY <1>1, <2>4 DEF Window
  <2>6. \A i \in 1..(MaxLen - 1) : Append(t, item)[i] = h[i + 1]
    BY <2>4, <2>5
  <2> QED
    BY <1>1, <2>1, <2>2, <2>3, <2>5, <2>6
<1> QED
  BY <1>2, <1>3

\* The fold of RecentOps is the sum of the recent deltas: both solve one equation.
LEMMA RecentIsSum ==
  ASSUME NEW h \in Window, now \in Int
  PROVE  RecentOps(h) = Sum(RecentDeltas(h), DOMAIN h)
<1> DEFINE iter == CHOOSE g :
             g = [s \in SUBSET DOMAIN h |->
                    IF s = {} THEN 0
                    ELSE IF now - h[Pick(s)][1] <= Second
                           THEN g[s \ {Pick(s)}] + h[Pick(s)][2]
                           ELSE g[s \ {Pick(s)}]]
<1>1. RecentOps(h) = iter[DOMAIN h]
  BY DEF RecentOps, FoldSeq, FoldFunction, FoldFunctionOnSet, MapThenFoldSet, Pick, iter
<1>2. PICK w : w = RecentDeltas(h)
  OBVIOUS
<1>3. /\ IsFiniteSet(DOMAIN h) /\ \A i \in DOMAIN h : h[i][2] \in Int /\ w[i] \in Int
      /\ \A i \in DOMAIN h : w[i] = IF now - h[i][1] <= Second THEN h[i][2] ELSE 0
  BY <1>2, WindowType DEF RecentDeltas
<1>4. PICK g : g = CHOOSE f : IsSum(f, w, DOMAIN h)
  OBVIOUS
<1>5. IsSum(g, w, DOMAIN h) /\ Sum(RecentDeltas(h), DOMAIN h) = g[DOMAIN h]
  BY <1>2, <1>3, <1>4, SumExists DEF Sum
<1>6. \A s \in SUBSET DOMAIN h : g[s] \in Int
  BY <1>3, <1>5, SumType, FS_Subset
<1>7. ASSUME NEW s \in SUBSET DOMAIN h
      PROVE  g[s] = IF s = {} THEN 0
                    ELSE IF now - h[Pick(s)][1] <= Second
                           THEN g[s \ {Pick(s)}] + h[Pick(s)][2]
                           ELSE g[s \ {Pick(s)}]
  <2>1. CASE s = {}
    BY <1>5, <2>1, SumEquation
  <2>2. CASE s # {}
    <3>1. PICK p : p = Pick(s)
      OBVIOUS
    <3>2. TakesOut(g, w, s, p)
      BY <1>5, <2>2, <3>1, SumEquation
    <3>3. p \in s /\ p \in DOMAIN h /\ g[s] = w[p] + g[s \ {p}] /\ g[s \ {p}] \in Int
      BY <1>6, <3>2 DEF TakesOut
    <3>4. h[p][2] \in Int
      BY <1>3, <3>3
    <3>5. CASE now - h[p][1] <= Second
      <4>1. w[p] = h[p][2]
        BY <1>3, <3>3, <3>5
      <4>2. g[s] = g[s \ {p}] + h[p][2]
        BY <3>3, <3>4, <4>1
      <4> QED
        BY <2>2, <3>1, <3>5, <4>2
    <3>6. CASE ~(now - h[p][1] <= Second)
      <4>1. w[p] = 0
        BY <1>3, <3>3, <3>6
      <4>2. g[s] = g[s \ {p}]
        BY <3>3, <4>1
      <4> QED
        BY <2>2, <3>1, <3>6, <4>2
    <3> QED
      BY <3>5, <3>6
  <2> QED
    BY <2>1, <2>2
<1>8. g = [s \in SUBSET DOMAIN h |-> g[s]]
  BY <1>5 DEF IsSum
<1>9. \E f : f = [s \in SUBSET DOMAIN h |->
                    IF s = {} THEN 0
                    ELSE IF now - h[Pick(s)][1] <= Second
                           THEN f[s \ {Pick(s)}] + h[Pick(s)][2]
                           ELSE f[s \ {Pick(s)}]]
  BY <1>7, <1>8
<1>10. iter = [s \in SUBSET DOMAIN h |->
                IF s = {} THEN 0
                ELSE IF now - h[Pick(s)][1] <= Second
                       THEN iter[s \ {Pick(s)}] + h[Pick(s)][2]
                       ELSE iter[s \ {Pick(s)}]]
  BY <1>9
<1> HIDE DEF iter
<1>11. iter[DOMAIN h] = g[DOMAIN h]
  <2> DEFINE B == {U \in SUBSET DOMAIN h : iter[U] # g[U]}
  <2> SUFFICES ASSUME B # {} PROVE FALSE
    OBVIOUS
  <2>1. PICK U \in B : \A x \in U : U \ {x} \notin B
    BY <1>3, MinimalSet
  <2>2. U \in SUBSET DOMAIN h /\ iter[U] # g[U]
    BY <2>1
  <2>3. U # {}
    BY <1>7, <1>10, <2>2
  <2>4. PICK p : p = Pick(U)
    OBVIOUS
  <2>5. p \in U /\ iter[U \ {p}] = g[U \ {p}]
    <3>1. p \in U
      BY <2>3, <2>4 DEF Pick
    <3> QED
      BY <2>1, <2>2, <3>1
  <2>6. \/ iter[U] = iter[U \ {p}] + h[p][2] /\ g[U] = g[U \ {p}] + h[p][2]
        \/ iter[U] = iter[U \ {p}] /\ g[U] = g[U \ {p}]
    BY <1>7, <1>10, <2>2, <2>3, <2>4
  <2> QED
    BY <2>2, <2>5, <2>6
<1> QED
  BY <1>1, <1>5, <1>11

LEMMA RecentOpsType ==
  ASSUME NEW h \in Window, now \in Int
  PROVE  RecentOps(h) \in Int
<1>1. PICK w : w = RecentDeltas(h)
  OBVIOUS
<1>2. IsFiniteSet(DOMAIN h) /\ \A i \in DOMAIN h : w[i] \in Int
  BY <1>1, WindowType DEF RecentDeltas
<1>3. Sum(w, DOMAIN h) \in Int
  BY <1>2, SumProperties
<1> QED
  BY <1>1, <1>3, RecentIsSum

\* Differences of neighbours add up to the difference of the ends.
Differences(w, c, k, n) ==
  /\ \A i \in 0..n : c[i] \in Int
  /\ \A i \in 1..n : w[i] = IF i > k THEN c[i] - c[i - 1] ELSE 0

LEMMA Telescope ==
  ASSUME NEW n \in Nat, NEW k \in 0..n, NEW w, NEW c, Differences(w, c, k, n)
  PROVE  Sum(w, 1..n) = c[n] - c[k]
<1> DEFINE Expected(m) == IF m > k THEN c[m] - c[k] ELSE 0
           Bad == {m \in 0..n : Sum(w, 1..m) # Expected(m)}
           B == {1..m : m \in Bad}
<1>1. \A i \in 1..n : w[i] \in Int
  BY DEF Differences
<1>2. ASSUME NEW m \in 1..n
      PROVE  Sum(w, 1..m) = w[m] + Sum(w, 1..(m - 1)) /\ (1..m) \ {m} = 1..(m - 1)
  <2>1. (1..m) \ {m} = 1..(m - 1) /\ m \in 1..m
    OBVIOUS
  <2>2. PICK S : S = 1..m
    OBVIOUS
  <2>3. IsFiniteSet(S) /\ \A x \in S : w[x] \in Int
    BY <1>1, <2>2, FS_Interval
  <2>4. \A x \in S : Sum(w, S) = w[x] + Sum(w, S \ {x})
    BY <2>3, SumProperties
  <2> QED
    BY <2>1, <2>2, <2>4
<1>3. Sum(w, 1..0) = 0
  <2>1. 1..0 = {}
    OBVIOUS
  <2> QED
    BY <2>1, SumOfNone
<1>4. Bad = {}
  <2> SUFFICES ASSUME Bad # {} PROVE FALSE
    OBVIOUS
  <2>1. IsFiniteSet(1..n)
    BY FS_Interval
  <2>2. B # {} /\ B \in SUBSET SUBSET (1..n)
    OBVIOUS
  <2>3. PICK T \in B : \A x \in T : T \ {x} \notin B
    BY <2>1, <2>2, MinimalSet
  <2>4. PICK m \in Bad : T = 1..m
    BY <2>3
  <2>5. m \in 0..n /\ Sum(w, 1..m) # Expected(m)
    BY <2>4
  <2>6. CASE m = 0
    BY <1>3, <2>5, <2>6
  <2>7. CASE m # 0
    <3>1. m \in 1..n /\ m \in T /\ m - 1 \in 0..n
      BY <2>4, <2>5, <2>7
    <3>2. T \ {m} = 1..(m - 1) /\ T \ {m} \notin B
      BY <1>2, <2>3, <2>4, <3>1
    <3>3. m - 1 \notin Bad
      BY <3>2
    <3>4. Sum(w, 1..(m - 1)) = Expected(m - 1)
      BY <3>1, <3>3
    <3>5. Sum(w, 1..m) = w[m] + Expected(m - 1)
      BY <1>2, <3>1, <3>4
    <3>6. w[m] + Expected(m - 1) = Expected(m)
      <4>1. m > k => (IF m - 1 > k THEN c[m - 1] - c[k] ELSE 0) = c[m - 1] - c[k]
        BY <3>1 DEF Differences
      <4>2. CASE m > k
        <5>1. Expected(m) = c[m] - c[k] /\ Expected(m - 1) = c[m - 1] - c[k]
          BY <4>1, <4>2
        <5>2. w[m] = c[m] - c[m - 1] /\ c[m] \in Int /\ c[m - 1] \in Int /\ c[k] \in Int
          BY <3>1, <4>2 DEF Differences
        <5> QED
          BY <5>1, <5>2
      <4>3. CASE ~(m > k)
        <5>1. w[m] = 0
          BY <3>1, <4>3 DEF Differences
        <5>2. Expected(m) = 0 /\ Expected(m - 1) = 0
          BY <3>1, <4>3
        <5> QED
          BY <5>1, <5>2
      <4> QED
        BY <4>2, <4>3
    <3> QED
      BY <2>5, <3>5, <3>6
  <2> QED
    BY <2>6, <2>7
<1>5. Sum(w, 1..n) = Expected(n)
  BY <1>4
<1>6. c[n] \in Int /\ c[k] \in Int
  BY DEF Differences
<1>7. n > k \/ n = k
  OBVIOUS
<1> QED
  BY <1>5, <1>6, <1>7

\* A set of the first numbers is an interval.
LEMMA FirstOnes ==
  ASSUME NEW n \in Nat, NEW S \in SUBSET (1..n),
         \A i \in S : \A j \in 1..n : j <= i => j \in S
  PROVE  Cardinality(S) \in 0..n /\ S = 1..Cardinality(S)
<1> DEFINE Enough == {m \in 0..n : S \subseteq 1..m}
           B == {1..m : m \in Enough}
<1>1. IsFiniteSet(1..n)
  BY FS_Interval
<1>2. n \in Enough
  OBVIOUS
<1>3. B # {} /\ B \in SUBSET SUBSET (1..n)
  BY <1>2
<1>4. PICK T \in B : \A x \in T : T \ {x} \notin B
  BY <1>1, <1>3, MinimalSet
<1>5. PICK m \in Enough : T = 1..m
  BY <1>4
<1>6. m \in 0..n /\ S \subseteq 1..m
  BY <1>5
<1>7. S = 1..m
  <2>1. CASE m = 0
    BY <1>6, <2>1
  <2>2. CASE m # 0
    <3>1. m \in T /\ m - 1 \in 0..n /\ T \ {m} = 1..(m - 1)
      BY <1>5, <1>6, <2>2
    <3>2. m - 1 \notin Enough
      BY <1>4, <3>1
    <3>3. m \in S
      BY <1>6, <3>1, <3>2
    <3>4. \A j \in 1..m : j \in 1..n /\ j <= m
      BY <1>6
    <3>5. 1..m \subseteq S
      BY <3>3, <3>4
    <3> QED
      BY <1>6, <3>5
  <2> QED
    BY <2>1, <2>2
<1>8. Cardinality(1..m) = m
  BY <1>6, FS_Interval
<1> QED
  BY <1>6, <1>7, <1>8

-----------------------------------------------------------------------------
\* The total of the i-th of some answers.
Value(a, i) == IF i = 0 THEN 0 ELSE a[i].answer.upto - a[i].answer.base

\* What get_metrics records of the i-th.
Entry(a, i) == <<a[i].at, Value(a, i) - Value(a, i - 1)>>

\* A window holds what is recorded of the last of them.
IsWindow(h, a) ==
  /\ Len(h) = Smaller(Len(a), MaxLen)
  /\ \A j \in 1..Len(h) : h[j] = Entry(a, Len(a) - Len(h) + j)

Answers == [at : 0..MaxNow, answer : Snapshot]

LEMMA ValueType ==
  ASSUME NEW a \in Seq(Answers), NEW i \in 0..Len(a)
  PROVE  Value(a, i) \in Int
<1>1. CASE i = 0
  BY <1>1 DEF Value
<1>2. CASE i # 0
  <2>1. a[i] \in Answers
    BY <1>2
  <2>2. a[i].answer.upto \in Int /\ a[i].answer.base \in Int
    BY <2>1, MetricsAssumption DEF Answers, Snapshot
  <2> QED
    BY <1>2, <2>2 DEF Value
<1> QED
  BY <1>1, <1>2

\* Where the j-th item of the next window comes from.
LEMMA Shift ==
  ASSUME NEW n, NEW m, NEW l, NEW j, NEW i, NEW q,
         n \in Nat, m \in 0..n, l \in 1..(n + 1), l - 1 <= m, j \in 1..(l - 1),
         i = m - l + 1 + j, q = n + 1 - l + j
  PROVE  i \in 1..m /\ n - m + i = q /\ q \in 1..n
  OBVIOUS

\* Where the sum of a window begins.
LEMMA Start ==
  ASSUME NEW n, NEW m, NEW k, NEW q, NEW z,
         n \in Nat, m \in 0..n, k \in 0..n, k >= n - m, q = n - m, z = k - q
  PROVE  /\ q \in 0..n /\ z \in 0..m /\ q + z = k /\ q + m = n
         /\ \A j \in 0..m : q + j \in 0..n
         /\ \A j \in 1..m : /\ q + j \in 1..n /\ j - 1 \in 0..m /\ j \in 0..m
                            /\ q + j - 1 = q + (j - 1) /\ (q + j > k <=> j > z)
  OBVIOUS

\* deque.append of an answer's difference to the last one makes the next window.
LEMMA PushKeepsWindow ==
  ASSUME NEW a \in Seq(Answers), NEW x \in Answers, NEW h \in Window, IsWindow(h, a),
         NEW item \in (0..MaxNow) \X Int, item = Entry(Append(a, x), Len(a) + 1)
  PROVE  /\ Push(h, item) \in Window /\ Len(Push(h, item)) <= MaxLen
         /\ IsWindow(Push(h, item), Append(a, x))
<1>1. PICK n, m, b : n = Len(a) /\ m = Len(h) /\ b = Append(a, x)
  OBVIOUS
<1>2. n \in Nat /\ m \in Nat /\ MaxLen \in Nat \ {0} /\ m = Smaller(n, MaxLen)
  BY <1>1, WindowType, MetricsAssumption DEF IsWindow
<1>3. m <= MaxLen /\ m <= n
  BY <1>2 DEF Smaller
<1>5. PICK r, l : r = Push(h, item) /\ l = Len(r)
  OBVIOUS
<1>6. /\ r \in Window /\ l <= MaxLen
      /\ l = IF m < MaxLen THEN m + 1 ELSE m
      /\ r[l] = item
      /\ \A i \in 1..(l - 1) : r[i] = h[m - l + 1 + i]
  <2>1. Len(h) <= MaxLen
    BY <1>1, <1>3
  <2>2. LET k == Len(Push(h, item)) IN
        /\ Push(h, item) \in Window /\ k <= MaxLen
        /\ k = IF Len(h) < MaxLen THEN Len(h) + 1 ELSE Len(h)
        /\ Push(h, item)[k] = item
        /\ \A i \in 1..(k - 1) : Push(h, item)[i] = h[Len(h) - k + 1 + i]
    BY <2>1, PushType
  <2> QED
    BY <1>1, <1>5, <2>2
<1>7. Len(b) = n + 1 /\ b[n + 1] = x /\ \A i \in 1..n : b[i] = a[i]
  BY <1>1
<1>8. \A i \in 0..n : Value(b, i) = Value(a, i)
  BY <1>2, <1>7 DEF Value
<1>9. Entry(b, n + 1) = item
  BY <1>1
<1>10. \A i \in 1..n : Entry(b, i) = Entry(a, i)
  <2>1. ASSUME NEW i \in 1..n PROVE Entry(b, i) = Entry(a, i)
    <3>1. i \in 0..n /\ i - 1 \in 0..n
      BY <1>2
    <3> QED
      BY <1>7, <1>8, <3>1 DEF Entry
  <2> QED
    BY <2>1
<1>11. l = Smaller(n + 1, MaxLen) /\ l \in 1..(n + 1) /\ l - 1 <= m
  BY <1>2, <1>3, <1>6 DEF Smaller
<1>12. ASSUME NEW j \in 1..l
       PROVE  r[j] = Entry(b, n + 1 - l + j)
  <2>1. CASE j = l
    <3>1. n + 1 - l + j = n + 1
      BY <1>2, <1>11, <2>1
    <3> QED
      BY <1>6, <1>9, <2>1, <3>1
  <2>2. CASE j # l
    <3>1. j \in 1..(l - 1) /\ m \in 0..n
      BY <1>2, <1>3, <1>11, <2>2
    <3>2. PICK i, q : i = m - l + 1 + j /\ q = n + 1 - l + j
      OBVIOUS
    <3>3. i \in 1..m /\ n - m + i = q /\ q \in 1..n
      <4>1. l \in 1..(n + 1) /\ l - 1 <= m
        BY <1>11
      <4>2. i = m - l + 1 + j /\ q = n + 1 - l + j /\ n \in Nat
        BY <1>2, <3>2
      <4> QED
        BY <3>1, <4>1, <4>2, Shift
    <3>4. r[j] = h[i]
      BY <1>6, <3>1, <3>2
    <3>5. h[i] = Entry(a, q)
      BY <1>1, <3>3 DEF IsWindow
    <3>6. Entry(b, q) = Entry(a, q)
      BY <1>10, <3>3
    <3> QED
      BY <3>2, <3>4, <3>5, <3>6
  <2> QED
    BY <2>1, <2>2
<1>13. IsWindow(r, b)
  <2>1. Len(b) = n + 1 /\ Len(r) = l
    BY <1>5, <1>7
  <2>2. \A j \in 1..Len(r) : r[j] = Entry(b, Len(b) - Len(r) + j)
    <3>1. ASSUME NEW j \in 1..Len(r) PROVE r[j] = Entry(b, Len(b) - Len(r) + j)
      <4>1. j \in 1..l
        BY <2>1
      <4>2. r[j] = Entry(b, n + 1 - l + j)
        BY <1>12, <4>1
      <4>3. Len(b) - Len(r) + j = n + 1 - l + j
        <5>1. n \in Int /\ l \in Int /\ j \in Int
          BY <1>2, <1>11, <4>1
        <5> QED
          BY <2>1, <5>1
      <4> QED
        BY <4>2, <4>3, Zenon
    <3> QED
      BY <3>1
  <2>3. Len(r) = Smaller(Len(b), MaxLen)
    BY <1>11, <2>1
  <2> QED
    BY <2>2, <2>3 DEF IsWindow
<1> QED
  BY <1>1, <1>5, <1>6, <1>13

\* The answers applied in the last second are those after the k-th.
RecentFrom(a, k) == \A i \in 1..Len(a) : now - a[i].at <= Second <=> i > k

\* Then the recent deltas of a window add up to a difference of two totals.
LEMMA WindowSum ==
  ASSUME NEW a \in Seq(Answers), NEW h \in Window, IsWindow(h, a), now \in Int,
         NEW k \in 0..Len(a), NEW d \in Nat, d = Len(a) - k, d <= MaxLen,
         RecentFrom(a, k)
  PROVE  RecentOps(h) = Value(a, Len(a)) - Value(a, k)
<1>1. PICK n, m, w : n = Len(a) /\ m = Len(h) /\ w = RecentDeltas(h)
  OBVIOUS
<1>2. /\ n \in Nat /\ m \in Nat /\ MaxLen \in Nat \ {0} /\ m = Smaller(n, MaxLen)
      /\ DOMAIN h = 1..m /\ k \in 0..n /\ n - k <= MaxLen
  BY <1>1, WindowType, MetricsAssumption DEF IsWindow
<1>3. PICK q, z : q = n - m /\ z = k - q
  OBVIOUS
<1>4. /\ q \in 0..n /\ z \in 0..m /\ q + z = k /\ q + m = n
      /\ \A j \in 0..m : q + j \in 0..n
      /\ \A j \in 1..m : /\ q + j \in 1..n /\ j - 1 \in 0..m /\ j \in 0..m
                         /\ q + j - 1 = q + (j - 1) /\ (q + j > k <=> j > z)
  <2>1. m \in 0..n /\ k >= n - m
    BY <1>2 DEF Smaller
  <2>2. n \in Nat /\ k \in 0..n
    BY <1>2
  <2> QED
    BY <1>3, <2>1, <2>2, Start
<1>5. PICK c : c = [j \in 0..m |-> Value(a, q + j)]
  OBVIOUS
<1>6. \A j \in 0..m : c[j] = Value(a, q + j) /\ c[j] \in Int
  BY <1>1, <1>4, <1>5, ValueType
<1>7. ASSUME NEW j \in 1..m
      PROVE  w[j] = IF j > z THEN c[j] - c[j - 1] ELSE 0
  <2>1. w[j] = IF now - h[j][1] <= Second THEN h[j][2] ELSE 0
    BY <1>1, <1>2 DEF RecentDeltas
  <2>2. PICK i : i = q + j
    OBVIOUS
  <2>3. /\ i \in 1..n /\ i - 1 = q + (j - 1) /\ j - 1 \in 0..m /\ j \in 0..m
        /\ i > k <=> j > z
    BY <1>4, <2>2
  <2>4. h[j] = Entry(a, i)
    BY <1>1, <1>3, <2>2 DEF IsWindow
  <2>5. c[j] = Value(a, i) /\ c[j - 1] = Value(a, i - 1)
    BY <1>6, <2>2, <2>3
  <2>6. h[j][1] = a[i].at /\ h[j][2] = c[j] - c[j - 1]
    BY <2>4, <2>5 DEF Entry
  <2>7. now - a[i].at <= Second <=> i > k
    BY <1>1, <2>3 DEF RecentFrom
  <2> QED
    BY <2>1, <2>3, <2>6, <2>7
<1>8. Sum(w, 1..m) = c[m] - c[z]
  <2>1. Differences(w, c, z, m)
    BY <1>6, <1>7 DEF Differences
  <2> QED
    BY <1>2, <1>4, <2>1, Telescope
<1>9. c[m] = Value(a, n) /\ c[z] = Value(a, k)
  <2>1. m \in 0..m
    BY <1>2
  <2> QED
    BY <1>4, <1>6, <2>1
<1>10. RecentOps(h) = Sum(w, 1..m)
  <2>1. RecentOps(h) = Sum(RecentDeltas(h), DOMAIN h)
    BY RecentIsSum
  <2> QED
    BY <1>1, <1>2, <2>1
<1> QED
  BY <1>1, <1>8, <1>9, <1>10

\* The server has not counted more than the requests there were.
ArrivalsInv ==
  /\ total <= Len(arrivals) /\ Len(arrivals) <= MaxRequests
  /\ \A i \in DOMAIN arrivals : arrivals[i] <= now

\* A total is the number of requests it counts.
KnownInv ==
  \A p \in Polls :
    raw[p] # None =>
      /\ known[p] \in Snapshot /\ known[p].upto <= Len(arrivals)
      /\ raw[p] = known[p].upto - known[p].base

\* Answers are applied later than what they count, one after the other.
AppliedInv ==
  /\ \A i \in DOMAIN applied :
       /\ applied[i].at <= now /\ applied[i].answer.upto <= Len(arrivals)
       /\ \A a \in 1..applied[i].answer.upto : arrivals[a] <= applied[i].at
  /\ \A i, j \in DOMAIN applied : i <= j => applied[i].at <= applied[j].at

WindowInv ==
  /\ IsWindow(_request_history, applied)
  /\ _last_total = Value(applied, Len(applied))

MetricsInv ==
  /\ MetricsTypeOK
  /\ ArrivalsInv /\ KnownInv /\ AppliedInv /\ WindowInv

LEMMA MetricsInitInv == MetricsInit => MetricsInv
<1> SUFFICES ASSUME MetricsInit PROVE MetricsInv
  OBVIOUS
<1>1. MetricsTypeOK
  BY MetricsAssumption DEF MetricsInit, MetricsTypeOK
<1>2. WindowInv
  BY MetricsAssumption DEF MetricsInit, WindowInv, IsWindow, Entry, Value, Smaller
<1> QED
  BY <1>1, <1>2, MetricsAssumption
     DEF MetricsInit, MetricsInv, ArrivalsInv, KnownInv, AppliedInv

\* What is known of the answers applied.
LEMMA AppliedType ==
  ASSUME MetricsTypeOK
  PROVE  /\ DOMAIN applied = 1..Len(applied) /\ Len(applied) \in Nat
         /\ \A i \in DOMAIN applied :
              /\ applied[i] \in [at : 0..MaxNow, answer : Snapshot]
              /\ applied[i].at \in Int
              /\ applied[i].answer.base \in 0..MaxRequests
              /\ applied[i].answer.upto \in 0..MaxRequests
<1>1. /\ DOMAIN applied = 1..Len(applied) /\ Len(applied) \in Nat
      /\ \A i \in DOMAIN applied : applied[i] \in [at : 0..MaxNow, answer : Snapshot]
  <2>1. PICK a, S : a = applied /\ S = [at : 0..MaxNow, answer : Snapshot]
    OBVIOUS
  <2>2. a \in Seq(S)
    BY <2>1 DEF MetricsTypeOK
  <2>3. DOMAIN a = 1..Len(a) /\ Len(a) \in Nat /\ \A i \in DOMAIN a : a[i] \in S
    BY <2>2, SeqElements
  <2> QED
    BY <2>1, <2>3
<1>2. \A i \in DOMAIN applied :
        /\ applied[i].at \in Int
        /\ applied[i].answer.base \in 0..MaxRequests
        /\ applied[i].answer.upto \in 0..MaxRequests
  BY <1>1, MetricsAssumption DEF Snapshot
<1> QED
  BY <1>1, <1>2

LEMMA RequestStep ==
  ASSUME MetricsInv, Request
  PROVE  MetricsInv'
<1>1. /\ total \in Nat /\ total <= Len(arrivals) /\ Len(arrivals) < MaxRequests
      /\ arrivals \in Seq(0..MaxNow) /\ now \in 0..MaxNow /\ MaxRequests \in Nat
      /\ MaxNow \in Nat
  BY MetricsAssumption DEF MetricsInv, MetricsTypeOK, ArrivalsInv, Request
<1>2. /\ arrivals' \in Seq(0..MaxNow) /\ Len(arrivals') = Len(arrivals) + 1
      /\ \A i \in 1..Len(arrivals) : arrivals'[i] = arrivals[i]
      /\ arrivals'[Len(arrivals) + 1] = now /\ total' = total + 1
      /\ UNCHANGED <<now, pc, raw, _last_total, _request_history, ops, known, applied>>
  BY <1>1 DEF Request, historyVars
<1>3. Len(arrivals) \in Nat /\ DOMAIN arrivals' = 1..(Len(arrivals) + 1)
  BY <1>1, <1>2
<1>4. MetricsTypeOK'
  <2>1. total' \in 0..MaxRequests
    BY <1>1, <1>2, <1>3
  <2> QED
    BY <1>2, <2>1 DEF MetricsInv, MetricsTypeOK
<1>5. ArrivalsInv'
  <2>1. total' <= Len(arrivals') /\ Len(arrivals') <= MaxRequests
    BY <1>1, <1>2, <1>3
  <2>2. ASSUME NEW i \in 1..(Len(arrivals) + 1) PROVE arrivals'[i] <= now
    <3>1. CASE i = Len(arrivals) + 1
      BY <1>1, <1>2, <3>1
    <3>2. CASE i # Len(arrivals) + 1
      <4>1. i \in 1..Len(arrivals) /\ i \in DOMAIN arrivals
        BY <1>1, <1>3, <3>2
      <4> QED
        BY <1>2, <4>1 DEF MetricsInv, ArrivalsInv
    <3> QED
      BY <3>1, <3>2
  <2> QED
    BY <1>2, <1>3, <2>1, <2>2 DEF ArrivalsInv
<1>6. KnownInv'
  BY <1>1, <1>2, <1>3 DEF MetricsInv, KnownInv, Snapshot
<1>7. AppliedInv'
  <2>1. ASSUME NEW i \in DOMAIN applied
        PROVE  /\ applied[i].answer.upto <= Len(arrivals')
               /\ \A a \in 1..applied[i].answer.upto : arrivals'[a] <= applied[i].at
    <3>1. applied[i].answer.upto \in 0..MaxRequests
      BY AppliedType DEF MetricsInv
    <3>2. /\ applied[i].answer.upto <= Len(arrivals)
          /\ \A a \in 1..applied[i].answer.upto : arrivals[a] <= applied[i].at
      BY DEF MetricsInv, AppliedInv
    <3>3. PICK u : u = applied[i].answer.upto
      OBVIOUS
    <3>4. u \in Int /\ u <= Len(arrivals)
      BY <1>1, <3>1, <3>2, <3>3
    <3>5. \A a \in 1..u : a \in 1..Len(arrivals)
      BY <1>3, <3>4
    <3>6. \A a \in 1..applied[i].answer.upto : arrivals'[a] = arrivals[a]
      BY <1>2, <3>3, <3>5
    <3> QED
      BY <1>1, <1>2, <1>3, <3>1, <3>2, <3>6
  <2> QED
    BY <1>2, <2>1 DEF MetricsInv, AppliedInv
<1>8. WindowInv'
  BY <1>2 DEF MetricsInv, WindowInv
<1> QED
  BY <1>4, <1>5, <1>6, <1>7, <1>8 DEF MetricsInv

LEMMA TickStep ==
  ASSUME MetricsInv, Tick
  PROVE  MetricsInv'
<1>1. /\ now \in 0..MaxNow /\ MaxNow \in Nat /\ now' = now + 1 /\ now' \in 0..MaxNow
      /\ UNCHANGED <<total, arrivals, pc, raw, _last_total, _request_history, ops,
                     known, applied>>
  BY MetricsAssumption DEF MetricsInv, MetricsTypeOK, Tick, historyVars
<1>2. MetricsTypeOK'
  BY <1>1 DEF MetricsInv, MetricsTypeOK
<1>3. ArrivalsInv'
  <2>1. \A i \in DOMAIN arrivals : arrivals[i] \in 0..MaxNow
    <3>1. PICK a : a = arrivals
      OBVIOUS
    <3>2. a \in Seq(0..MaxNow)
      BY <3>1 DEF MetricsInv, MetricsTypeOK
    <3> QED
      BY <3>1, <3>2, SeqElements
  <2> QED
    BY <1>1, <2>1 DEF MetricsInv, ArrivalsInv
<1>4. AppliedInv'
  <2>1. \A i \in DOMAIN applied : applied[i].at \in Int
    BY AppliedType DEF MetricsInv
  <2> QED
    BY <1>1, <2>1 DEF MetricsInv, AppliedInv
<1>5. KnownInv' /\ WindowInv'
  BY <1>1 DEF MetricsInv, KnownInv, WindowInv
<1> QED
  BY <1>2, <1>3, <1>4, <1>5 DEF MetricsInv

LEMMA StatsStep ==
  ASSUME MetricsInv, NEW p \in Polls, Stats(p)
  PROVE  MetricsInv'
<1>1. /\ total \in 0..MaxRequests /\ total <= Len(arrivals) /\ Len(arrivals) \in Nat
      /\ Len(arrivals) <= MaxRequests /\ MaxRequests \in Nat
  BY MetricsAssumption DEF MetricsInv, MetricsTypeOK, ArrivalsInv
<1>2. /\ raw' = [raw EXCEPT ![p] = total] /\ known' = [known EXCEPT ![p] = PresentRun]
      /\ UNCHANGED <<total, arrivals, now, pc, _last_total, _request_history, ops, applied>>
  BY DEF Stats
<1>3. /\ PresentRun \in Snapshot /\ PresentRun.upto = Len(arrivals)
      /\ PresentRun.upto - PresentRun.base = total
  BY <1>1 DEF PresentRun, Snapshot
<1>4. MetricsTypeOK'
  BY <1>1, <1>2, <1>3 DEF MetricsInv, MetricsTypeOK
<1>5. KnownInv'
  <2> SUFFICES ASSUME NEW o \in Polls, raw'[o] # None
               PROVE  /\ known'[o] \in Snapshot /\ known'[o].upto <= Len(arrivals)
                      /\ raw'[o] = known'[o].upto - known'[o].base
    BY <1>2 DEF KnownInv
  <2>1. CASE o = p
    BY <1>1, <1>2, <1>3, <2>1 DEF MetricsInv, MetricsTypeOK
  <2>2. CASE o # p
    BY <1>2, <2>2 DEF MetricsInv, MetricsTypeOK, KnownInv
  <2> QED
    BY <2>1, <2>2
<1>6. ArrivalsInv' /\ AppliedInv' /\ WindowInv'
  BY <1>2 DEF MetricsInv, ArrivalsInv, AppliedInv, WindowInv
<1> QED
  BY <1>4, <1>5, <1>6 DEF MetricsInv

\* The continuation of a poll: its answer is the last one applied, and the window
\* holds its difference to the one before.
LEMMA ResumeWindow ==
  ASSUME MetricsInv, NEW p \in Polls, Resume(p)
  PROVE  /\ known[p] \in Snapshot /\ raw[p] = known[p].upto - known[p].base
         /\ known[p].upto <= Len(arrivals)
         /\ applied' \in Seq(Answers) /\ Len(applied') = Len(applied) + 1
         /\ \A i \in 1..Len(applied) : applied'[i] = applied[i]
         /\ applied'[Len(applied) + 1] = [at |-> now, answer |-> known[p]]
         /\ _request_history' \in Window /\ Len(_request_history') <= MaxLen
         /\ WindowInv'
<1>1. PICK a, x, h, item :
        /\ a = applied /\ x = [at |-> now, answer |-> known[p]]
        /\ h = _request_history /\ item = <<now, raw[p] - _last_total>>
  OBVIOUS
<1>2. /\ _last_total' = raw[p] /\ _request_history' = Push(h, item)
      /\ applied' = Append(a, x) /\ raw[p] # None
  BY <1>1 DEF Resume
<1>3. /\ raw[p] \in Int /\ _last_total \in Int /\ now \in 0..MaxNow
      /\ h \in Window /\ a \in Seq(Answers)
  BY <1>1, <1>2, MetricsAssumption DEF MetricsInv, MetricsTypeOK, Window, Answers
<1>4. /\ known[p] \in Snapshot /\ raw[p] = known[p].upto - known[p].base
      /\ known[p].upto <= Len(arrivals)
  BY <1>2 DEF MetricsInv, KnownInv
<1>5. x \in Answers /\ x.at = now /\ x.answer = known[p]
  BY <1>1, <1>3, <1>4 DEF Answers
<1>6. IsWindow(h, a) /\ _last_total = Value(a, Len(a))
  BY <1>1 DEF MetricsInv, WindowInv
<1>7. PICK r, b : r = Push(h, item) /\ b = Append(a, x)
  OBVIOUS
<1>8. /\ b \in Seq(Answers) /\ Len(b) = Len(a) + 1 /\ b[Len(a) + 1] = x
      /\ \A i \in 1..Len(a) : b[i] = a[i]
  BY <1>3, <1>5, <1>7
<1>9. Len(a) \in Nat /\ Len(a) + 1 - 1 = Len(a) /\ Len(a) + 1 # 0
  BY <1>3
<1>10. Value(b, Len(a) + 1) = raw[p] /\ Value(b, Len(a)) = _last_total
  BY <1>4, <1>5, <1>6, <1>8, <1>9 DEF Value
<1>11. item = Entry(b, Len(a) + 1)
  BY <1>1, <1>5, <1>8, <1>9, <1>10 DEF Entry
<1>12. item \in (0..MaxNow) \X Int
  BY <1>1, <1>3
<1>13. r \in Window /\ Len(r) <= MaxLen /\ IsWindow(r, b)
  BY <1>3, <1>5, <1>6, <1>7, <1>11, <1>12, PushKeepsWindow
<1>14. _request_history' = r /\ applied' = b
  BY <1>2, <1>7
<1>15. WindowInv'
  BY <1>2, <1>8, <1>10, <1>13, <1>14 DEF WindowInv
<1> QED
  BY <1>1, <1>4, <1>8, <1>13, <1>14, <1>15

LEMMA ResumeStep ==
  ASSUME MetricsInv, NEW p \in Polls, Resume(p)
  PROVE  MetricsInv'
<1> DEFINE n == Len(applied)
<1>1. /\ _last_total' = raw[p] /\ raw[p] # None
      /\ pc' = [pc EXCEPT ![p] = "done"] /\ raw' = [raw EXCEPT ![p] = None]
      /\ ops' = [ops EXCEPT ![p] = RecentOps(_request_history')]
      /\ UNCHANGED <<total, arrivals, now, known>>
  BY DEF Resume
<1>2. /\ known[p] \in Snapshot /\ known[p].upto <= Len(arrivals)
      /\ applied' \in Seq(Answers)
      /\ Len(applied') = n + 1
      /\ \A i \in 1..n : applied'[i] = applied[i]
      /\ applied'[n + 1] = [at |-> now, answer |-> known[p]]
      /\ _request_history' \in Window /\ Len(_request_history') <= MaxLen
      /\ WindowInv'
  BY ResumeWindow
<1>3. raw[p] \in 0..MaxRequests /\ MaxNow \in Nat /\ now \in 0..MaxNow /\ now \in Int
  BY <1>1, MetricsAssumption DEF MetricsInv, MetricsTypeOK
<1>4. RecentOps(_request_history') \in Int
  <2>1. PICK r : r = _request_history'
    OBVIOUS
  <2>2. RecentOps(r) \in Int
    BY <1>2, <1>3, <2>1, RecentOpsType
  <2> QED
    BY <2>1, <2>2
<1>5. /\ ops' \in [Polls -> Int \cup {None}]
      /\ pc' \in [Polls -> {"idle", "awaiting", "done"}]
      /\ raw' \in [Polls -> 0..MaxRequests \cup {None}]
  BY <1>1, <1>4 DEF MetricsInv, MetricsTypeOK
<1>6. MetricsTypeOK'
  BY <1>1, <1>2, <1>3, <1>5 DEF MetricsInv, MetricsTypeOK, Window, Answers
<1>7. ArrivalsInv' /\ KnownInv'
  BY <1>1 DEF MetricsInv, MetricsTypeOK, ArrivalsInv, KnownInv
<1>8. AppliedInv'
  <2>1. DOMAIN applied = 1..n /\ n \in Nat /\ DOMAIN applied' = 1..(n + 1)
    BY <1>2, AppliedType DEF MetricsInv
  <2>2. ASSUME NEW i \in 1..(n + 1)
        PROVE  /\ applied'[i].at <= now /\ applied'[i].answer.upto <= Len(arrivals)
               /\ \A a \in 1..applied'[i].answer.upto : arrivals[a] <= applied'[i].at
    <3>1. CASE i = n + 1
      <4>1. applied'[i].at = now /\ applied'[i].answer.upto = known[p].upto
        BY <1>2, <3>1
      <4>2. \A a \in 1..known[p].upto : a \in DOMAIN arrivals
        BY <1>2, MetricsAssumption DEF MetricsInv, MetricsTypeOK, Snapshot
      <4> QED
        BY <1>2, <1>3, <4>1, <4>2 DEF MetricsInv, ArrivalsInv
    <3>2. CASE i # n + 1
      <4>1. i \in 1..n /\ applied'[i] = applied[i]
        BY <1>2, <2>1, <2>2, <3>2
      <4> QED
        BY <2>1, <4>1 DEF MetricsInv, AppliedInv
    <3> QED
      BY <3>1, <3>2
  <2>3. ASSUME NEW i \in 1..(n + 1), NEW j \in 1..(n + 1), i <= j
        PROVE  applied'[i].at <= applied'[j].at
    <3>1. CASE j = n + 1
      <4>1. applied'[j].at = now
        BY <1>2, <3>1
      <4> QED
        BY <2>2, <4>1
    <3>2. CASE j # n + 1
      <4>1. i \in 1..n /\ j \in 1..n /\ applied'[i] = applied[i] /\ applied'[j] = applied[j]
        BY <1>2, <2>1, <2>3, <3>2
      <4> QED
        BY <2>1, <2>3, <4>1 DEF MetricsInv, AppliedInv
    <3> QED
      BY <3>1, <3>2
  <2> QED
    BY <1>1, <2>1, <2>2, <2>3 DEF AppliedInv
<1> QED
  BY <1>2, <1>6, <1>7, <1>8 DEF MetricsInv

LEMMA MetricsInvariant == MetricsSpec => []MetricsInv
<1>1. MetricsInv /\ [MetricsNext]_metricsVars => MetricsInv'
  <2> SUFFICES ASSUME MetricsInv, [MetricsNext]_metricsVars PROVE MetricsInv'
    OBVIOUS
  <2> USE DEF historyVars
  <2>1. CASE Restart
    <3>1. MetricsTypeOK' /\ ArrivalsInv'
      BY <2>1, MetricsAssumption DEF Restart, MetricsInv, MetricsTypeOK, ArrivalsInv
    <3>2. KnownInv' /\ AppliedInv' /\ WindowInv'
      BY <2>1 DEF Restart, MetricsInv, KnownInv, AppliedInv, WindowInv
    <3> QED
      BY <3>1, <3>2 DEF MetricsInv
  <2>2. ASSUME NEW p \in Polls, Poll(p) PROVE MetricsInv'
    BY <2>2 DEF Poll, MetricsInv, MetricsTypeOK, ArrivalsInv, KnownInv, AppliedInv,
                WindowInv
  <2>3. ASSUME NEW p \in Polls, Fail(p) PROVE MetricsInv'
    <3>1. MetricsTypeOK' /\ KnownInv'
      BY <2>3 DEF Fail, MetricsInv, MetricsTypeOK, KnownInv
    <3>2. ArrivalsInv' /\ AppliedInv' /\ WindowInv'
      BY <2>3 DEF Fail, MetricsInv, ArrivalsInv, AppliedInv, WindowInv
    <3> QED
      BY <3>1, <3>2 DEF MetricsInv
  <2>4. CASE UNCHANGED metricsVars
    BY <2>4 DEF metricsVars, MetricsInv, MetricsTypeOK, ArrivalsInv, KnownInv,
                AppliedInv, WindowInv
  <2> QED
    BY <2>1, <2>2, <2>3, <2>4, RequestStep, TickStep, StatsStep, ResumeStep
       DEF MetricsNext
<1> QED
  BY MetricsInitInv, <1>1, PTL DEF MetricsSpec

\* The metrics service's variables keep their types, for any polls and any window: a
\* window is never longer than the deque allows.
THEOREM MetricsTypeCorrect == MetricsSpec => []MetricsTypeOK
<1>1. MetricsInv => MetricsTypeOK
  BY DEF MetricsInv
<1> QED
  BY <1>1, MetricsInvariant, PTL

-----------------------------------------------------------------------------
\* The answers applied more than a second ago are the first of them.
LEMMA OlderFirst ==
  ASSUME MetricsInv
  PROVE  LET k == Cardinality(Older) IN
         /\ k \in 0..Len(applied) /\ Older = 1..k
         /\ LastOlder = IF k = 0 THEN [base |-> 0, upto |-> 0] ELSE applied[k].answer
<1> DEFINE k == Cardinality(Older)
<1>1. /\ DOMAIN applied = 1..Len(applied) /\ Len(applied) \in Nat
      /\ \A i \in DOMAIN applied : applied[i].at \in Int
  BY AppliedType DEF MetricsInv
<1>2. now \in Int /\ Second \in Int
  BY MetricsAssumption DEF MetricsInv, MetricsTypeOK
<1>3. Older \in SUBSET (1..Len(applied))
  BY <1>1 DEF Older
<1>4. ASSUME NEW i \in Older, NEW j \in 1..Len(applied), j <= i PROVE j \in Older
  <2>1. i \in DOMAIN applied /\ j \in DOMAIN applied /\ now - applied[i].at > Second
    BY <1>1, <1>4 DEF Older
  <2>2. applied[j].at <= applied[i].at
    BY <1>4, <2>1 DEF MetricsInv, AppliedInv
  <2>3. now - applied[j].at > Second
    BY <1>1, <1>2, <2>1, <2>2
  <2> QED
    BY <2>1, <2>3 DEF Older
<1>5. k \in 0..Len(applied) /\ Older = 1..k
  BY <1>1, <1>3, <1>4, FirstOnes
<1> HIDE DEF k
<1>6. CASE k = 0
  <2>1. Older = {}
    BY <1>5, <1>6
  <2> QED
    BY <1>5, <1>6, <2>1 DEF LastOlder, k
<1>7. CASE k # 0
  <2>1. k \in Older /\ \A j \in Older : j <= k
    BY <1>5, <1>7
  <2>2. \A i \in Older : (\A j \in Older : j <= i) => i = k
    BY <1>5, <2>1
  <2>3. (CHOOSE i \in Older : \A j \in Older : j <= i) = k
    BY <2>1, <2>2
  <2> QED
    BY <1>5, <1>7, <2>1, <2>3 DEF LastOlder, k
<1> QED
  BY <1>5, <1>6, <1>7

\* ops_per_sec is the difference of the last total and the last one before the window.
LEMMA ResumeOps ==
  ASSUME MetricsInv, NEW p \in Polls, Resume(p),
         Len(applied) - Cardinality(Older) < MaxLen
  PROVE  ops'[p] = raw[p] - Value(applied, Cardinality(Older))
<1>1. PICK n, k, a, b, r :
        /\ n = Len(applied) /\ k = Cardinality(Older) /\ a = applied /\ b = applied'
        /\ r = _request_history'
  OBVIOUS
<1>2. /\ n \in Nat /\ k \in 0..n /\ Older = 1..k /\ n - k < MaxLen
      /\ DOMAIN applied = 1..n /\ MaxLen \in Nat
  BY <1>1, OlderFirst, AppliedType, MetricsAssumption DEF MetricsInv
<1>3. /\ r \in Window /\ b \in Seq(Answers) /\ Len(b) = n + 1
      /\ \A i \in 1..n : b[i] = a[i]
      /\ b[n + 1] = [at |-> now, answer |-> known[p]]
      /\ raw[p] = known[p].upto - known[p].base /\ IsWindow(r, b)
  BY <1>1, ResumeWindow DEF WindowInv
<1>4. now \in Int /\ Second \in Nat
  BY MetricsAssumption DEF MetricsInv, MetricsTypeOK
<1>5. ASSUME NEW i \in 1..(n + 1)
      PROVE  now - b[i].at <= Second <=> i > k
  <2>1. CASE i = n + 1
    BY <1>2, <1>3, <1>4, <2>1
  <2>2. CASE i # n + 1
    <3>1. i \in 1..n /\ b[i] = applied[i]
      BY <1>1, <1>2, <1>3, <2>2
    <3>2. applied[i].at \in Int
      BY <1>2, <3>1, AppliedType DEF MetricsInv
    <3>3. i \in Older <=> now - applied[i].at > Second
      BY <1>2, <3>1 DEF Older
    <3>4. i \in Older <=> i <= k
      BY <1>2, <3>1
    <3> QED
      BY <1>2, <1>4, <3>1, <3>2, <3>3, <3>4
  <2> QED
    BY <2>1, <2>2
<1>6. RecentOps(r) = Value(b, n + 1) - Value(b, k)
  <2>1. k \in 0..(n + 1) /\ n + 1 - k <= MaxLen
    BY <1>2
  <2>2. PICK d : d = n + 1 - k
    OBVIOUS
  <2>3. d \in Nat /\ d = Len(b) - k /\ d <= MaxLen /\ k \in 0..Len(b)
    BY <1>2, <1>3, <2>1, <2>2
  <2>4. RecentFrom(b, k)
    BY <1>3, <1>5 DEF RecentFrom
  <2>5. RecentOps(r) = Value(b, Len(b)) - Value(b, k)
    BY <1>3, <1>4, <2>3, <2>4, WindowSum
  <2> QED
    BY <1>3, <2>5
<1>7. Value(b, n + 1) = raw[p] /\ Value(b, k) = Value(applied, k)
  BY <1>1, <1>2, <1>3 DEF Value
<1>8. ops'[p] = RecentOps(r)
  BY <1>1 DEF Resume, MetricsInv, MetricsTypeOK
<1> QED
  BY <1>1, <1>6, <1>7, <1>8

\* However many polls overlap, in whatever order their answers are applied, and
\* whenever the server starts again: get_metrics counts each request between the two
\* answers once, and misses none of the last second.
THEOREM OpsCountRight == MetricsSpec => OpsCountEachOnce
<1>1. ASSUME MetricsInv, MetricsNext, NEW p \in Polls, ops'[p] # ops[p]
      PROVE  CountsEachOnce(p)
  <2>1. Resume(p)
    <3>1. PICK o \in Polls : Resume(o)
      BY <1>1 DEF MetricsNext, Request, Restart, Tick, Poll, Stats, Fail
    <3>2. o = p
      BY <1>1, <3>1 DEF Resume, MetricsInv, MetricsTypeOK
    <3> QED
      BY <3>1, <3>2
  <2> SUFFICES ASSUME Len(applied) - Cardinality(Older) < MaxLen,
                      LastOlder.base = known[p].base, LastOlder.upto <= known[p].upto
               PROVE  /\ ops'[p] = known[p].upto - LastOlder.upto
                      /\ \A i \in 1..known[p].upto :
                           now - arrivals[i] <= Second => i > LastOlder.upto
    BY DEF CountsEachOnce
  <2>2. PICK k : k = Cardinality(Older)
    OBVIOUS
  <2>3. /\ k \in 0..Len(applied) /\ Older = 1..k
        /\ LastOlder = IF k = 0 THEN [base |-> 0, upto |-> 0] ELSE applied[k].answer
    BY <1>1, <2>2, OlderFirst
  <2>4. /\ known[p] \in Snapshot /\ raw[p] = known[p].upto - known[p].base
        /\ known[p].upto <= Len(arrivals)
    BY <1>1, <2>1, ResumeWindow
  <2>5. ops'[p] = raw[p] - Value(applied, k)
    BY <1>1, <2>1, <2>2, ResumeOps
  <2>6. /\ DOMAIN applied = 1..Len(applied) /\ Len(applied) \in Nat
        /\ \A i \in DOMAIN applied :
             /\ applied[i].at \in Int
             /\ applied[i].answer.base \in 0..MaxRequests
             /\ applied[i].answer.upto \in 0..MaxRequests
    BY <1>1, AppliedType DEF MetricsInv
  <2>7. /\ Value(applied, k) = LastOlder.upto - LastOlder.base
        /\ LastOlder.upto \in Int /\ LastOlder.base \in Int
    BY <2>3, <2>6, MetricsAssumption DEF Value
  <2>8. known[p].upto \in Nat /\ known[p].base \in Nat
    BY <2>4, MetricsAssumption DEF Snapshot
  <2>9. ops'[p] = known[p].upto - LastOlder.upto
    BY <2>4, <2>5, <2>7, <2>8
  <2>10. ASSUME NEW i \in 1..known[p].upto, now - arrivals[i] <= Second
         PROVE  i > LastOlder.upto
    <3> SUFFICES ASSUME i <= LastOlder.upto PROVE FALSE
      BY <2>7, <2>8, <2>10
    <3>1. k # 0
      BY <2>3, <2>8, <2>10
    <3>2. k \in DOMAIN applied /\ k \in Older /\ LastOlder = applied[k].answer
      BY <2>3, <2>6, <3>1
    <3>3. i \in 1..applied[k].answer.upto
      BY <2>7, <2>8, <2>10, <3>2
    <3>4. arrivals[i] <= applied[k].at
      BY <1>1, <3>2, <3>3 DEF MetricsInv, AppliedInv
    <3>5. now - applied[k].at > Second
      BY <3>2 DEF Older
    <3>6. arrivals[i] \in Int /\ now \in Int /\ Second \in Int
      BY <1>1, <2>4, <2>8, <2>10, MetricsAssumption DEF MetricsInv, MetricsTypeOK
    <3> QED
      BY <2>6, <2>10, <3>2, <3>4, <3>5, <3>6
  <2> QED
    BY <2>9, <2>10
<1>2. MetricsInv /\ [MetricsNext]_metricsVars
        => [\A p \in Polls : ops'[p] # ops[p] => CountsEachOnce(p)]_metricsVars
  BY <1>1
<1> QED
  BY <1>2, MetricsInvariant, PTL DEF MetricsSpec, OpsCountEachOnce
==============================================================================
