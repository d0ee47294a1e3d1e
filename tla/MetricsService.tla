--------------------------- MODULE MetricsService ---------------------------
(***************************************************************************)
(* The backend's metrics service: each poll awaits the server's counters   *)
(* and turns them into a rate with module-level state, _last_total and a   *)
(* bounded window of deltas, which all polls share: those of every page    *)
(* and of the AI service, interleaved at the await.  The server may start  *)
(* again with its counters at zero.  Only total_requests is modelled, as   *)
(* the other figures are passed on as they are.                            *)
(***************************************************************************)
EXTENDS Integers, FiniteSets, SequencesExt

CONSTANTS
  Polls,       \* the polls, each made once
  MaxLen,      \* the deque's maxlen
  Second,      \* clock ticks in a second
  None,
  MaxRequests, \* bound on the requests that are counted
  MaxNow       \* bound on the clock

ASSUME MetricsAssumption ==
  /\ MaxLen \in Nat \ {0} /\ Second \in Nat \ {0}
  /\ MaxRequests \in Nat /\ MaxNow \in Nat
  /\ None \notin Int

VARIABLES
  total,    \* the server's total_requests
  arrivals, \* history: when each request of any run of the server was counted
  now,      \* time.monotonic()
  pc,       \* where each poll is
  raw,      \* the total in the answer to its STATS, until it returns
  _last_total,
  _request_history,  \* pairs <<timestamp, delta>>, oldest first
  ops,      \* the ops_per_sec each poll has returned
  known,    \* history: the requests its answer counts, those in base + 1..upto
  applied   \* history: the answers applied, in this order, and when

historyVars == <<known, applied>>
metricsVars ==
  <<total, arrivals, now, pc, raw, _last_total, _request_history, ops, historyVars>>

MetricsInit ==
  /\ total = 0 /\ arrivals = <<>> /\ now = 0
  /\ pc = [p \in Polls |-> "idle"]
  /\ raw = [p \in Polls |-> None]
  /\ _last_total = 0
  /\ _request_history = <<>>
  /\ ops = [p \in Polls |-> None]
  /\ known = [p \in Polls |-> None] /\ applied = <<>>

-----------------------------------------------------------------------------
\* The server and the clock.

Request ==
  /\ Len(arrivals) < MaxRequests
  /\ total' = total + 1
  /\ arrivals' = Append(arrivals, now)
  /\ UNCHANGED <<now, pc, raw, _last_total, _request_history, ops, historyVars>>

Restart ==
  /\ total # 0
  /\ total' = 0
  /\ UNCHANGED <<arrivals, now, pc, raw, _last_total, _request_history, ops,
                 historyVars>>

Tick ==
  /\ now < MaxNow
  /\ now' = now + 1
  /\ UNCHANGED <<total, arrivals, pc, raw, _last_total, _request_history, ops,
                 historyVars>>

\* The requests of the server's present run.
PresentRun == [base |-> Len(arrivals) - total, upto |-> Len(arrivals)]

Stats(p) ==
  /\ pc[p] = "awaiting" /\ raw[p] = None
  /\ raw' = [raw EXCEPT ![p] = total]
  /\ known' = [known EXCEPT ![p] = PresentRun]
  /\ UNCHANGED <<total, arrivals, now, pc, _last_total, _request_history, ops,
                 applied>>

-----------------------------------------------------------------------------
\* get_metrics, up to its await ...
Poll(p) ==
  /\ pc[p] = "idle"
  /\ pc' = [pc EXCEPT ![p] = "awaiting"]
  /\ UNCHANGED <<total, arrivals, now, raw, _last_total, _request_history, ops,
                 historyVars>>

\* Fault: a list instead of a deque with a maximal length.
PushAll(history, item) == Append(history, item)

\* deque(maxlen=60).append: the oldest goes when it is full.
Push(history, item) ==
  Append(IF Len(history) < MaxLen THEN history ELSE Tail(history), item)

\* The sum of the deltas of the last second.
RecentOps(history) ==
  FoldSeq(LAMBDA item, sum : IF now - item[1] <= Second THEN sum + item[2] ELSE sum,
          0, history)

\* Fault: a total that went back is not remembered.
ResumeKeepsLarger(p) ==
  LET delta == raw[p] - _last_total IN
  /\ pc[p] = "awaiting" /\ raw[p] # None
  /\ pc' = [pc EXCEPT ![p] = "done"]
  /\ _last_total' = IF delta > 0 THEN raw[p] ELSE _last_total
  /\ _request_history' = Push(_request_history, <<now, delta>>)
  /\ ops' = [ops EXCEPT ![p] = RecentOps(_request_history')]
  /\ raw' = [raw EXCEPT ![p] = None]
  /\ applied' = Append(applied, [at |-> now, answer |-> known[p]])
  /\ UNCHANGED <<total, arrivals, now, known>>

\* ... and from there to its return, without another await.
Resume(p) ==
  LET delta == raw[p] - _last_total IN
  /\ pc[p] = "awaiting" /\ raw[p] # None
  /\ pc' = [pc EXCEPT ![p] = "done"]
  /\ _last_total' = raw[p]
  /\ _request_history' = Push(_request_history, <<now, delta>>)
  /\ ops' = [ops EXCEPT ![p] = RecentOps(_request_history')]
  /\ raw' = [raw EXCEPT ![p] = None]
  /\ applied' = Append(applied, [at |-> now, answer |-> known[p]])
  /\ UNCHANGED <<total, arrivals, now, known>>

\* get_stats raises CacheClientError: nothing is recorded, the route answers 503.
Fail(p) ==
  /\ pc[p] = "awaiting"
  /\ pc' = [pc EXCEPT ![p] = "done"]
  /\ raw' = [raw EXCEPT ![p] = None]
  /\ UNCHANGED <<total, arrivals, now, _last_total, _request_history, ops,
                 historyVars>>

MetricsNext ==
  \/ Request \/ Restart \/ Tick
  \/ \E p \in Polls : Poll(p) \/ Stats(p) \/ Resume(p) \/ Fail(p)

MetricsSpec == MetricsInit /\ [][MetricsNext]_metricsVars

-----------------------------------------------------------------------------
Snapshot == [base : 0..MaxRequests, upto : 0..MaxRequests]

MetricsTypeOK ==
  /\ total \in 0..MaxRequests
  /\ arrivals \in Seq(0..MaxNow)
  /\ now \in 0..MaxNow
  /\ pc \in [Polls -> {"idle", "awaiting", "done"}]
  /\ raw \in [Polls -> 0..MaxRequests \cup {None}]
  /\ _last_total \in 0..MaxRequests
  /\ _request_history \in Seq((0..MaxNow) \X Int) /\ Len(_request_history) <= MaxLen
  /\ ops \in [Polls -> Int \cup {None}]
  /\ known \in [Polls -> Snapshot \cup {None}]
  /\ applied \in Seq([at : 0..MaxNow, answer : Snapshot])

Older == {i \in DOMAIN applied : now - applied[i].at > Second}

\* The last answer applied more than a second ago; the first run of the server
\* counts from zero, as _last_total does.
LastOlder ==
  IF Older = {} THEN [base |-> 0, upto |-> 0]
                ELSE applied[CHOOSE i \in Older : \A j \in Older : j <= i].answer

CountsEachOnce(p) ==
  /\ Len(applied) - Cardinality(Older) < MaxLen
  /\ LastOlder.base = known[p].base /\ LastOlder.upto <= known[p].upto
  => /\ ops'[p] = known[p].upto - LastOlder.upto
     /\ \A i \in 1..known[p].upto : now - arrivals[i] <= Second => i > LastOlder.upto

\* ops_per_sec counts the requests between two answers, the poll's own and the last
\* one applied more than a second ago: each of them once, those of the last second
\* among them, whatever answers were applied in between, in the wrong order or from
\* another run of the server.  Only the two must be of one run and in order, and the
\* window must hold what was applied in the last second.
OpsCountEachOnce ==
  [][\A p \in Polls : ops'[p] # ops[p] => CountsEachOnce(p)]_metricsVars

RecentRequests == Cardinality({i \in DOMAIN arrivals : now - arrivals[i] <= Second})

\* schemas.py on ops_per_sec: "Requests in the last second".  So it is not more
\* than those.
OpsAreRecent ==
  [][\A p \in Polls : ops'[p] # ops[p] => ops'[p] <= RecentRequests]_metricsVars

\* The same line: a number of requests is not negative.
OpsNotNegative == \A p \in Polls : ops[p] = None \/ ops[p] >= 0
=============================================================================
