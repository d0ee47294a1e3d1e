------------------------------ MODULE SetSums ------------------------------
(***************************************************************************)
(* Sums over finite sets, for proofs about counts.  The folds of the       *)
(* community modules are recursive functions that take out one element     *)
(* after another; these lemmas are about every function that solves that   *)
(* equation, and argue by a smallest counterexample.                       *)
(***************************************************************************)
EXTENDS Integers, FiniteSetTheorems, TLAPS

Pick(s) == CHOOSE x \in s : TRUE

\* g gives each subset of S the sum of its weights.
IsSum(g, w, S) ==
  g = [s \in SUBSET S |-> IF s = {} THEN 0 ELSE w[Pick(s)] + g[s \ {Pick(s)}]]

\* A set of subsets of a finite set has one from which nothing can be taken out.
LEMMA MinimalSet ==
  ASSUME NEW S, IsFiniteSet(S), NEW B \in SUBSET SUBSET S, B # {}
  PROVE  \E T \in B : \A x \in T : T \ {x} \notin B
<1>1. FiniteSubsetsOf(S) = SUBSET S
  BY FS_FiniteSubsetsOfFinite
<1>2. PICK T \in B : \A U \in B : <<U, T>> \notin StrictSubsetOrdering(S)
  BY <1>1, FS_StrictSubsetOrderingWellFounded, WFMin
<1>3. ASSUME NEW x \in T PROVE T \ {x} \notin B
  <2>1. T \ {x} # T /\ T \ {x} \in SUBSET T
    BY <1>3
  <2>2. <<T \ {x}, T>> \in StrictSubsetOrdering(S)
    BY <2>1 DEF StrictSubsetOrdering
  <2> QED
    BY <1>2, <2>2
<1> QED
  BY <1>3

\* What the equation says of one set.
TakesOut(g, w, T, p) == p \in T /\ g[T] = w[p] + g[T \ {p}]

LEMMA SumEquation ==
  ASSUME NEW S, NEW w, NEW g, IsSum(g, w, S)
  PROVE  /\ g[{}] = 0
         /\ \A T \in SUBSET S : T # {} => TakesOut(g, w, T, Pick(T))
<1>1. \A s \in SUBSET S : g[s] = IF s = {} THEN 0 ELSE w[Pick(s)] + g[s \ {Pick(s)}]
  BY DEF IsSum
<1>2. ASSUME NEW T \in SUBSET S, T # {} PROVE TakesOut(g, w, T, Pick(T))
  <2>1. Pick(T) \in T
    BY <1>2 DEF Pick
  <2>2. g[T] = w[Pick(T)] + g[T \ {Pick(T)}]
    BY <1>1, <1>2
  <2> QED
    BY <2>1, <2>2 DEF TakesOut
<1>3. g[{}] = 0
  <2>1. {} \in SUBSET S
    OBVIOUS
  <2> QED
    BY <1>1, <2>1
<1> QED
  BY <1>2, <1>3

\* Weights that agree have the same sum.
LEMMA SumAgree ==
  ASSUME NEW S, NEW R, NEW w, NEW v, NEW g, NEW h, IsSum(g, w, S), IsSum(h, v, R),
         NEW T, T \subseteq S, T \subseteq R, IsFiniteSet(T), \A x \in T : w[x] = v[x]
  PROVE  g[T] = h[T]
<1> DEFINE B == {U \in SUBSET T : g[U] # h[U]}
<1> SUFFICES ASSUME B # {} PROVE FALSE
  OBVIOUS
<1>1. PICK U \in B : \A x \in U : U \ {x} \notin B
  BY MinimalSet
<1>2. U \in SUBSET T /\ g[U] # h[U] /\ U \in SUBSET S /\ U \in SUBSET R
  BY <1>1
<1>3. U # {}
  BY <1>2, SumEquation
<1>4. PICK p : p = Pick(U)
  OBVIOUS
<1>5. p \in U /\ g[U] = w[p] + g[U \ {p}] /\ h[U] = v[p] + h[U \ {p}]
  <2>1. TakesOut(g, w, U, p) /\ TakesOut(h, v, U, p)
    BY <1>2, <1>3, <1>4, SumEquation
  <2> QED
    BY <2>1 DEF TakesOut
<1>6. g[U \ {p}] = h[U \ {p}]
  BY <1>1, <1>2, <1>5
<1> QED
  BY <1>2, <1>5, <1>6

\* The sum of integers is one.
LEMMA SumType ==
  ASSUME NEW S, NEW w, NEW g, IsSum(g, w, S),
         NEW T \in SUBSET S, IsFiniteSet(T), \A x \in T : w[x] \in Int
  PROVE  g[T] \in Int
<1> DEFINE B == {U \in SUBSET T : g[U] \notin Int}
<1> SUFFICES ASSUME B # {} PROVE FALSE
  OBVIOUS
<1>1. PICK U \in B : \A x \in U : U \ {x} \notin B
  BY MinimalSet
<1>2. U \in SUBSET T /\ g[U] \notin Int /\ U \in SUBSET S
  BY <1>1
<1>3. U # {}
  BY <1>2, SumEquation
<1>4. PICK p : p = Pick(U)
  OBVIOUS
<1>5. p \in U /\ g[U] = w[p] + g[U \ {p}]
  <2>1. TakesOut(g, w, U, p)
    BY <1>2, <1>3, <1>4, SumEquation
  <2> QED
    BY <2>1 DEF TakesOut
<1>6. g[U \ {p}] \in Int /\ w[p] \in Int
  BY <1>1, <1>2, <1>5
<1> QED
  BY <1>2, <1>5, <1>6

\* Any element may be taken out first.
LEMMA SumRemove ==
  ASSUME NEW S, NEW w, NEW g, IsSum(g, w, S),
         NEW T \in SUBSET S, IsFiniteSet(T), \A x \in T : w[x] \in Int, NEW k \in T
  PROVE  g[T] = w[k] + g[T \ {k}]
<1> DEFINE B == {U \in SUBSET T : \E q \in U : g[U] # w[q] + g[U \ {q}]}
<1> SUFFICES ASSUME B # {} PROVE FALSE
  OBVIOUS
<1>1. PICK U \in B : \A x \in U : U \ {x} \notin B
  BY MinimalSet
<1>2. PICK q \in U : g[U] # w[q] + g[U \ {q}]
  BY <1>1
<1>3. PICK p : p = Pick(U)
  OBVIOUS
<1>4. U \in SUBSET T /\ U \in SUBSET S /\ p \in U /\ g[U] = w[p] + g[U \ {p}]
  <2>1. U \in SUBSET T /\ U \in SUBSET S /\ U # {}
    BY <1>1, <1>2
  <2>2. TakesOut(g, w, U, p)
    BY <1>3, <2>1, SumEquation
  <2> QED
    BY <2>1, <2>2 DEF TakesOut
<1>5. p # q
  BY <1>2, <1>4
<1>6. g[U \ {p}] = w[q] + g[(U \ {p}) \ {q}]
  <2>1. U \ {p} \in SUBSET T /\ U \ {p} \notin B /\ q \in U \ {p}
    BY <1>1, <1>4, <1>5
  <2> QED
    BY <2>1
<1>7. g[U \ {q}] = w[p] + g[(U \ {q}) \ {p}]
  <2>1. U \ {q} \in SUBSET T /\ U \ {q} \notin B /\ p \in U \ {q}
    BY <1>1, <1>4, <1>5
  <2> QED
    BY <2>1
<1>8. PICK r : r = g[(U \ {p}) \ {q}]
  OBVIOUS
<1>9. (U \ {q}) \ {p} = (U \ {p}) \ {q}
  OBVIOUS
<1>10. r \in Int /\ w[p] \in Int /\ w[q] \in Int
  <2>1. (U \ {p}) \ {q} \in SUBSET T
    BY <1>4
  <2>2. (U \ {p}) \ {q} \in SUBSET S /\ IsFiniteSet((U \ {p}) \ {q})
    BY <2>1, FS_Subset
  <2>3. \A x \in (U \ {p}) \ {q} : w[x] \in Int
    BY <2>1
  <2> QED
    BY <1>4, <1>8, <2>2, <2>3, SumType
<1>11. g[U] = w[p] + (w[q] + r) /\ g[U \ {q}] = w[p] + r
  BY <1>4, <1>6, <1>7, <1>8, <1>9
<1>12. w[p] + (w[q] + r) = w[q] + (w[p] + r)
  BY <1>10
<1> QED
  BY <1>2, <1>11, <1>12

\* The equation has a solution.
LEMMA SumExists ==
  ASSUME NEW S, NEW w, IsFiniteSet(S)
  PROVE  \E g : IsSum(g, w, S)
<1> DEFINE B == {T \in SUBSET S : ~ \E g : IsSum(g, w, T)}
<1> SUFFICES ASSUME B # {} PROVE FALSE
  OBVIOUS
<1>1. PICK T \in B : \A x \in T : T \ {x} \notin B
  BY MinimalSet
<1>2. T \in SUBSET S /\ ~ \E g : IsSum(g, w, T) /\ IsFiniteSet(T)
  BY <1>1, FS_Subset
<1> DEFINE G(x) == CHOOSE g : IsSum(g, w, T \ {x})
           p == Pick(T)
           f == [s \in SUBSET T |-> IF s = T THEN w[p] + G(p)[T \ {p}]
                                             ELSE G(Pick(T \ s))[s]]
<1>3. ASSUME NEW x \in T PROVE IsSum(G(x), w, T \ {x})
  BY <1>1, <1>2
<1>4. T # {}
  <2>1. SUFFICES ASSUME T = {} PROVE FALSE
    OBVIOUS
  <2> DEFINE z == [s \in SUBSET T |-> 0]
  <2>2. \A s \in SUBSET T : z[s] = IF s = {} THEN 0 ELSE w[Pick(s)] + z[s \ {Pick(s)}]
    BY <2>1
  <2>3. IsSum(z, w, T)
    BY <2>2 DEF IsSum
  <2> QED
    BY <1>2, <2>3
<1>5. p \in T
  BY <1>4 DEF Pick
<1> HIDE DEF G, p
<1>6. ASSUME NEW s \in SUBSET T, NEW x \in T \ s PROVE f[s] = G(x)[s]
  <2>1. PICK y : y = Pick(T \ s)
    OBVIOUS
  <2>2. y \in T \ s
    BY <2>1 DEF Pick
  <2>3. f[s] = G(y)[s]
    BY <2>1, <2>2
  <2>4. IsSum(G(x), w, T \ {x}) /\ IsSum(G(y), w, T \ {y})
    BY <1>3, <2>2
  <2>5. s \subseteq T \ {x} /\ s \subseteq T \ {y} /\ IsFiniteSet(s)
    BY <1>2, <2>2, FS_Subset
  <2>6. G(x)[s] = G(y)[s]
    <3>1. PICK gx, gy : gx = G(x) /\ gy = G(y)
      OBVIOUS
    <3>2. gx[s] = gy[s]
      BY <2>4, <2>5, <3>1, SumAgree
    <3> QED
      BY <3>1, <3>2
  <2> QED
    BY <2>3, <2>6
<1>7. f[T] = w[p] + f[T \ {p}]
  <2>1. f[T] = w[p] + G(p)[T \ {p}]
    OBVIOUS
  <2>2. f[T \ {p}] = G(p)[T \ {p}]
    BY <1>5, <1>6
  <2> QED
    BY <2>1, <2>2
<1> HIDE DEF f
<1>8. ASSUME NEW s \in SUBSET T
      PROVE  f[s] = IF s = {} THEN 0 ELSE w[Pick(s)] + f[s \ {Pick(s)}]
  <2>1. CASE s = T
    BY <1>4, <1>7, <2>1 DEF p
  <2>2. CASE s # T
    <3>1. PICK x \in T \ s : TRUE
      BY <2>2
    <3>2. PICK h : h = G(x)
      OBVIOUS
    <3>3. IsSum(h, w, T \ {x}) /\ s \in SUBSET (T \ {x})
      BY <1>3, <3>1, <3>2
    <3>4. f[s] = h[s]
      BY <1>6, <3>1, <3>2
    <3>5. CASE s = {}
      BY <3>3, <3>4, <3>5, SumEquation
    <3>6. CASE s # {}
      <4>1. Pick(s) \in s /\ h[s] = w[Pick(s)] + h[s \ {Pick(s)}]
        <5>1. TakesOut(h, w, s, Pick(s))
          BY <3>3, <3>6, SumEquation
        <5> QED
          BY <5>1 DEF TakesOut
      <4>2. s \ {Pick(s)} \in SUBSET T /\ x \in T \ (s \ {Pick(s)})
        BY <3>1
      <4>3. f[s \ {Pick(s)}] = h[s \ {Pick(s)}]
        BY <1>6, <3>2, <4>2
      <4> QED
        BY <3>4, <3>6, <4>1, <4>3
    <3> QED
      BY <3>5, <3>6
  <2> QED
    BY <2>1, <2>2
<1>9. f = [s \in SUBSET T |-> IF s = {} THEN 0 ELSE w[Pick(s)] + f[s \ {Pick(s)}]]
  <2>1. f = [s \in SUBSET T |-> f[s]]
    BY DEF f
  <2> QED
    BY <1>8, <2>1
<1>10. IsSum(f, w, T)
  BY <1>9 DEF IsSum
<1> QED
  BY <1>2, <1>10

\* The sum of the weights of a finite set.
Sum(w, S) == (CHOOSE g : IsSum(g, w, S))[S]

\* It is an integer, any element can be taken out, and it depends on the weights of
\* the elements only.
LEMMA SumProperties ==
  ASSUME NEW S, NEW w, IsFiniteSet(S), \A x \in S : w[x] \in Int
  PROVE  /\ Sum(w, S) \in Int
         /\ \A k \in S : Sum(w, S) = w[k] + Sum(w, S \ {k})
         /\ \A v : (\A x \in S : w[x] = v[x]) => Sum(w, S) = Sum(v, S)
<1>1. PICK g : g = CHOOSE f : IsSum(f, w, S)
  OBVIOUS
<1>2. IsSum(g, w, S)
  BY <1>1, SumExists
<1>3. Sum(w, S) = g[S]
  BY <1>1 DEF Sum
<1>4. g[S] \in Int
  BY <1>2, SumType
<1>5. ASSUME NEW k \in S PROVE Sum(w, S) = w[k] + Sum(w, S \ {k})
  <2>1. g[S] = w[k] + g[S \ {k}]
    BY <1>2, SumRemove
  <2>2. PICK h : h = CHOOSE f : IsSum(f, w, S \ {k})
    OBVIOUS
  <2>3. IsFiniteSet(S \ {k})
    BY FS_Subset
  <2>4. IsSum(h, w, S \ {k})
    BY <2>2, <2>3, SumExists
  <2>5. g[S \ {k}] = h[S \ {k}]
    BY <1>2, <2>3, <2>4, SumAgree
  <2> QED
    BY <1>3, <2>1, <2>2, <2>5 DEF Sum
<1>6. ASSUME NEW v, \A x \in S : w[x] = v[x] PROVE Sum(w, S) = Sum(v, S)
  <2>1. PICK h : h = CHOOSE f : IsSum(f, v, S)
    OBVIOUS
  <2>2. IsSum(h, v, S)
    BY <2>1, SumExists
  <2>3. g[S] = h[S]
    BY <1>2, <1>6, <2>2, SumAgree
  <2> QED
    BY <1>3, <2>1, <2>3 DEF Sum
<1> QED
  BY <1>3, <1>4, <1>5, <1>6

LEMMA SumOfNone == ASSUME NEW w PROVE Sum(w, {}) = 0
<1>1. IsFiniteSet({})
  BY FS_EmptySet
<1>2. PICK g : g = CHOOSE f : IsSum(f, w, {})
  OBVIOUS
<1>3. IsSum(g, w, {})
  BY <1>1, <1>2, SumExists
<1> QED
  BY <1>2, <1>3, SumEquation DEF Sum
=============================================================================
