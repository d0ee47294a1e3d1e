----------------------------- MODULE PollingPage -----------------------------
(***************************************************************************)
(* The pages that poll /metrics: the dashboard, the metrics page and the   *)
(* client list.  A page polls once when it is mounted and then at every    *)
(* tick of its interval, whether or not earlier polls have been answered:  *)
(* with a slow server they overlap (axios gives up after 30 seconds, the   *)
(* interval is 1.5 or 2) and are answered in any order.  The metrics are   *)
(* one figure here; which page is on the screen is AppShell's.             *)
(***************************************************************************)
EXTENDS Sequences, FiniteSets, Naturals

CONSTANTS
  Polls,    \* bound: the polls that may be under way
  Figures,  \* what the metrics may be
  MAX_HISTORY, MAX, \* samples on the dashboard, and on the metrics page
  None

VARIABLES
  page,     \* the polling page on the screen, or None
  view,     \* its state: metrics, error, loading, and the history it plots
  polls,    \* its polls: None, or what the answer will be, once there is one
  timers,   \* the pages whose interval runs
  recovered \* the backend answers every poll of this visit in time from now on

pollingVars == <<view, polls, timers, recovered>>

PollingPages == {"dashboard", "metrics", "clients"}

Blank == [metrics |-> None, error |-> FALSE, loading |-> TRUE, history |-> <<>>]
NoPolls == [p \in Polls |-> None]
Sent == [sample |-> None]

Init ==
  /\ view = Blank /\ timers = {page} \cap PollingPages
  /\ polls \in {[NoPolls EXCEPT ![p] = Sent] : p \in Polls}
  /\ recovered = FALSE

-----------------------------------------------------------------------------
\* The backend: MetricsService and what it asks, seen from the page.

Serve(p) ==
  /\ polls[p] = Sent
  /\ \E s \in Figures : polls' = [polls EXCEPT ![p] = [sample |-> s]]
  /\ UNCHANGED <<view, timers, recovered>>

Recover ==
  /\ page # None /\ ~recovered /\ recovered' = TRUE
  /\ UNCHANGED <<view, polls, timers>>

-----------------------------------------------------------------------------
\* Fault: an effect without a cleanup.
CleanupNone == timers

\* The cleanup of a page clears its interval; answers to come find no page.
Cleanup == timers \ {page}

\* The effect of the page that is shown next: it polls and starts its interval.
Show(next) ==
  /\ view' = Blank /\ recovered' = FALSE
  /\ timers' = Cleanup \cup ({next} \cap PollingPages)
  /\ IF next \in PollingPages
       THEN \E p \in Polls : polls' = [NoPolls EXCEPT ![p] = Sent]
       ELSE polls' = NoPolls

\* fetchMetrics up to its await.
Tick(p) ==
  /\ page \in timers /\ polls[p] = None
  /\ polls' = [polls EXCEPT ![p] = Sent]
  /\ UNCHANGED <<view, timers, recovered>>

\* Fault: when the history is full, the sample just pushed goes.
PushPopping(history, sample, max) ==
  IF Len(history) < max THEN Append(history, sample) ELSE history

\* push, then shift if that was one too many.
Push(history, sample, max) ==
  LET longer == Append(history, sample) IN
  IF Len(longer) > max THEN Tail(longer) ELSE longer

Answered(p) ==
  /\ polls[p] \notin {None, Sent}
  /\ polls' = [polls EXCEPT ![p] = None]
  /\ UNCHANGED <<timers, recovered>>

\* The dashboard has five histories, which it changes together.
DashboardAnswered(p) ==
  /\ page = "dashboard" /\ Answered(p)
  /\ view' = [metrics |-> polls[p].sample, error |-> FALSE, loading |-> FALSE,
              history |-> Push(view.history, polls[p].sample, MAX_HISTORY)]

\* Fault: the alert stays.
MetricsAnsweredAlert(p) ==
  /\ page = "metrics" /\ Answered(p)
  /\ view' = [view EXCEPT !.loading = FALSE,
                          !.history = Push(@, polls[p].sample, MAX)]

MetricsAnswered(p) ==
  /\ page = "metrics" /\ Answered(p)
  /\ view' = [view EXCEPT !.error = FALSE, !.loading = FALSE,
                          !.history = Push(@, polls[p].sample, MAX)]

ClientsAnswered(p) ==
  /\ page = "clients" /\ Answered(p)
  /\ view' = [view EXCEPT !.metrics = polls[p].sample,
                          !.error = FALSE, !.loading = FALSE]

\* Fault: the spinner is turned off on success only.
PollFailedSpins(p) ==
  /\ polls[p] # None /\ ~recovered
  /\ polls' = [polls EXCEPT ![p] = None]
  /\ view' = [view EXCEPT !.error = TRUE]
  /\ UNCHANGED <<timers, recovered>>

\* An error status or a timeout; what was shown stays on the page.
PollFailed(p) ==
  /\ polls[p] # None /\ ~recovered
  /\ polls' = [polls EXCEPT ![p] = None]
  /\ view' = [view EXCEPT !.error = TRUE, !.loading = FALSE]
  /\ UNCHANGED <<timers, recovered>>

Settle(p) ==
  DashboardAnswered(p) \/ MetricsAnswered(p) \/ ClientsAnswered(p) \/ PollFailed(p)

Next ==
  \/ Recover
  \/ \E p \in Polls : Serve(p) \/ Tick(p) \/ Settle(p)

-----------------------------------------------------------------------------
\* What each page renders of its state.

Spinner == [spinner |-> TRUE, alert |-> FALSE, cards |-> None, charts |-> <<>>]

\* Cards and charts are there once there are metrics, beneath the alert too.
DashboardShows ==
  [spinner |-> FALSE, alert |-> view.error, cards |-> view.metrics,
   charts |-> IF view.metrics = None THEN <<>> ELSE view.history]

\* Four charts of one history.
MetricsShows ==
  [spinner |-> FALSE, alert |-> view.error, cards |-> None, charts |-> view.history]

\* The cards, and as many invented rows as there are connections.
ClientsShows ==
  [spinner |-> FALSE, alert |-> view.error, cards |-> view.metrics, charts |-> <<>>]

Screen ==
  CASE page = None -> [Spinner EXCEPT !.spinner = FALSE]
    [] page # None /\ view.loading -> Spinner
    [] page = "dashboard" /\ ~view.loading -> DashboardShows
    [] page = "metrics" /\ ~view.loading -> MetricsShows
    [] page = "clients" /\ ~view.loading -> ClientsShows

-----------------------------------------------------------------------------
PollingTypeOK ==
  /\ view \in [metrics : Figures \cup {None}, error : BOOLEAN, loading : BOOLEAN,
               history : Seq(Figures)]
  /\ Len(view.history) <= (IF page = "dashboard" THEN MAX_HISTORY ELSE MAX)
  /\ \A p \in Polls : polls[p] # None => page # None
  /\ timers \subseteq PollingPages

\* However polls overlap and overtake each other, the cards of the dashboard and
\* the last point of its charts are of the same poll.
CardsMatchCharts ==
  page = "dashboard" /\ Screen.cards # None =>
    Screen.charts # <<>> /\ Screen.charts[Len(Screen.charts)] = Screen.cards

\* The page on the screen polls, and no page that was left does.
TimersMatchPage == timers = {page} \ {None}

\* A page that loads stops loading although no poll may ever be answered.
PageShown ==
  \A q \in PollingPages : page = q /\ Screen.spinner ~> page # q \/ ~Screen.spinner

\* The page recovers with the backend, by itself: the alert goes.
AlertClears == recovered ~> ~Screen.alert
=============================================================================
