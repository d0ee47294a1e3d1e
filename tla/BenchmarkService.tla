-------------------------- MODULE BenchmarkService --------------------------
(***************************************************************************)
(* The backend's benchmark: operations run concurrently in batches, each   *)
(* batch gathered before the next starts, then latency percentiles over    *)
(* all of them.  An operation that fails with CacheClientError is counted; *)
(* any other exception ends the benchmark, while the rest of its batch     *)
(* runs on.  Which keys and values are used does not matter here.          *)
(***************************************************************************)
EXTENDS Integers, FiniteSets, SequencesExt

CONSTANTS
  num_ops,     \* operations to run
  batch_size,
  Latencies,   \* the latencies an operation may have, in nanoseconds
  NoResult

ASSUME BenchmarkAssumption ==
  /\ num_ops \in Nat \ {0} /\ batch_size \in Nat \ {0}
  /\ Latencies \subseteq Nat

VARIABLES
  stage,          \* "batch", "gather", "returned" or "raised"
  next,        \* operations in earlier batches
  running,     \* operations under way
  result,      \* what each operation has returned
  latencies,
  errors,
  report       \* the percentiles of the response

benchVars == <<stage, next, running, result, latencies, errors, report>>

Ops == 1..num_ops

Result == [latency : Latencies, error : BOOLEAN]

BenchInit ==
  /\ stage = "batch" /\ next = 0
  /\ running = {}
  /\ result = [o \in Ops |-> NoResult]
  /\ latencies = <<>> /\ errors = 0
  /\ report = NoResult

Smaller(m, n) == IF m < n THEN m ELSE n

\* Fault: the last batch is taken for full.
BatchUnclipped == (next + 1)..(next + batch_size)

Batch == (next + 1)..Smaller(next + batch_size, num_ops)

StartBatch ==
  /\ stage = "batch" /\ next < num_ops
  /\ running' = Batch
  /\ stage' = "gather"
  /\ UNCHANGED <<next, result, latencies, errors, report>>

\* _timed_op returns; it does so too when nobody waits for it any more.
OpEnds(o) ==
  /\ o \in running
  /\ running' = running \ {o}
  /\ \E r \in Result : result' = [result EXCEPT ![o] = r]
  /\ UNCHANGED <<stage, next, latencies, errors, report>>

\* An exception other than CacheClientError: gather passes the first one on.
OpRaises(o) ==
  /\ o \in running
  /\ running' = running \ {o}
  /\ stage' = IF stage = "gather" THEN "raised" ELSE stage
  /\ UNCHANGED <<next, result, latencies, errors, report>>

\* The results of the batch, in its order.
BatchResults == [i \in 1..Cardinality(Batch) |-> result[next + i]]

\* Fault: the errors of the last batch replace those before.
CountErrorsOfBatch(results) == Cardinality({i \in DOMAIN results : results[i].error})

CountErrors(results) ==
  errors + Cardinality({i \in DOMAIN results : results[i].error})

BatchEnds ==
  /\ stage = "gather" /\ running = {}
  /\ latencies' = latencies \o [i \in DOMAIN BatchResults |-> BatchResults[i].latency]
  /\ errors' = CountErrors(BatchResults)
  /\ next' = next + batch_size
  /\ stage' = "batch"
  /\ UNCHANGED <<running, result, report>>

\* sorted(): each element comes after those before it, equal ones in their order.
\* (SortSeq, in a form the proofs can use.)
Place(s, i) == Cardinality({j \in DOMAIN s : s[j] < s[i] \/ (s[j] = s[i] /\ j <= i)})

Sorted(s) == [n \in DOMAIN s |-> s[CHOOSE i \in DOMAIN s : Place(s, i) = n]]

\* round(milliseconds, 3): whole microseconds, halves to the even one.
Rounded(latency) ==
  LET us == latency \div 1000
      ns == latency % 1000 IN
  IF ns > 500 \/ (ns = 500 /\ us % 2 = 1) THEN us + 1 ELSE us

\* Fault: the index is not rounded down but up.
pctRoundedUp(sorted, p) ==
  LET n == Len(sorted) IN Rounded(sorted[Smaller((p * n + 99) \div 100, n - 1) + 1])

\* Indices start at 0 in the code.  (The code computes p / 100 * n and the rounding
\* in floating point, here they are exact.)
pct(sorted, p) ==
  LET n == Len(sorted) IN Rounded(sorted[Smaller((p * n) \div 100, n - 1) + 1])

Return ==
  LET sorted == Sorted(latencies) IN
  /\ stage = "batch" /\ next >= num_ops
  /\ report' = [p \in {50, 95, 99} |-> pct(sorted, p)]
  /\ stage' = "returned"
  /\ UNCHANGED <<next, running, result, latencies, errors>>

\* Nothing happens after the benchmark has ended and its operations with it.
Rest == stage \in {"returned", "raised"} /\ running = {} /\ UNCHANGED benchVars

BenchNext ==
  \/ StartBatch \/ BatchEnds \/ Return \/ Rest
  \/ \E o \in Ops : OpEnds(o) \/ OpRaises(o)

BenchSpec == BenchInit /\ [][BenchNext]_benchVars

-----------------------------------------------------------------------------
BenchTypeOK ==
  /\ stage \in {"batch", "gather", "returned", "raised"}
  /\ next \in Nat
  /\ running \in SUBSET Ops
  /\ result \in [Ops -> Result \cup {NoResult}]
  /\ latencies \in Seq(Latencies)
  /\ errors \in Nat
  /\ report \in [{50, 95, 99} -> Nat] \cup {NoResult}

\* A response accounts for every operation exactly once, whatever order the
\* operations of a batch end in and however small the last batch is.
ResponseComplete ==
  stage = "returned" =>
    /\ running = {} /\ Len(latencies) = num_ops
    /\ errors = Cardinality({o \in Ops : result[o].error})

RoundedLatency(o) == Rounded(result[o].latency)

\* A reported percentile is one, to the microsecond: at least p percent of the
\* latencies are not above it, and at most p percent are below it.
PercentilesRight ==
  stage = "returned" =>
    \A p \in {50, 95, 99} :
      /\ 100 * Cardinality({o \in Ops : RoundedLatency(o) <= report[p]}) >= p * num_ops
      /\ 100 * Cardinality({o \in Ops : RoundedLatency(o) < report[p]}) <= p * num_ops
=============================================================================
