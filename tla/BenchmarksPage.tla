--------------------------- MODULE BenchmarksPage ---------------------------
(***************************************************************************)
(* The benchmarks page and its form.  A run is one request, which axios    *)
(* gives up after 30 seconds; the backend (BenchmarkService) does not know *)
(* and runs on.  Of the workload only the number of operations is modelled.*)
(***************************************************************************)
EXTENDS Naturals

CONSTANTS
  OPS_OPTIONS, \* what the slider offers
  MaxRunning,  \* bound on the benchmarks in the backend
  None

VARIABLES
  form,    \* the page: numOps, loading, error, result
  request, \* the run the page waits for, or None
  running, \* benchmarks in the backend
  givenUp  \* history: those of them that no page waits for

benchPageVars == <<form, request, running, givenUp>>

Blank(n) == [numOps |-> n, loading |-> FALSE, error |-> FALSE, result |-> None]

Init ==
  /\ form \in {Blank(n) : n \in OPS_OPTIONS}
  /\ request = None /\ running = 0 /\ givenUp = 0

-----------------------------------------------------------------------------
\* The backend ends a benchmark: the one that is waited for ...
RunEnds ==
  /\ request # None /\ ~request.done
  /\ request' = [request EXCEPT !.done = TRUE]
  /\ running' = running - 1
  /\ UNCHANGED <<form, givenUp>>

\* ... or another.
LostRunEnds ==
  /\ givenUp > 0
  /\ running' = running - 1 /\ givenUp' = givenUp - 1
  /\ UNCHANGED <<form, request>>

-----------------------------------------------------------------------------
\* The benchmark goes on if it has not ended.
Abandoned == givenUp + IF request # None /\ ~request.done THEN 1 ELSE 0

Exit ==
  /\ \E n \in OPS_OPTIONS : form' = Blank(n)
  /\ request' = None /\ givenUp' = Abandoned
  /\ UNCHANGED running

\* The sliders and fields stay enabled during a run.
Slide(n) ==
  /\ form' = [form EXCEPT !.numOps = n]
  /\ UNCHANGED <<request, running, givenUp>>

\* Fault: the button stays enabled.
MayRunAlways == TRUE

\* The button is disabled during a run.
MayRun == ~form.loading

\* handleRun up to its await ...
Run ==
  /\ MayRun /\ running < MaxRunning
  /\ form' = [form EXCEPT !.loading = TRUE, !.error = FALSE]
  /\ request' = [num_ops |-> form.numOps, done |-> FALSE]
  /\ running' = running + 1
  /\ UNCHANGED givenUp

\* ... and its continuations.
Answered ==
  /\ request # None /\ request.done
  /\ form' = [form EXCEPT !.loading = FALSE, !.result = request.num_ops]
  /\ request' = None
  /\ UNCHANGED <<running, givenUp>>

\* Fault: the bar is turned off on success only.
FailedRuns ==
  /\ request # None
  /\ form' = [form EXCEPT !.error = TRUE]
  /\ request' = None /\ givenUp' = Abandoned
  /\ UNCHANGED running

\* An error status, or 30 seconds; an earlier result stays on the page.
Failed ==
  /\ request # None
  /\ form' = [form EXCEPT !.loading = FALSE, !.error = TRUE]
  /\ request' = None /\ givenUp' = Abandoned
  /\ UNCHANGED running

PageNext == (\E n \in OPS_OPTIONS : Slide(n)) \/ Run \/ Answered \/ Failed

BackendNext == RunEnds \/ LostRunEnds

-----------------------------------------------------------------------------
\* A page measures a server that no other run of the page is loading, except one
\* that the page has given up: by a timeout, or because the user went away.
OverlapsGivenUp == running <= givenUp + 1

\* Without that exception.  The backend does run two at a time.
OneBenchmark == running <= 1
=============================================================================
