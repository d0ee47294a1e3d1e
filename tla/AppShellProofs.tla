--------------------------- MODULE AppShellProofs ---------------------------
(***************************************************************************)
(* Proofs about the frontend, for any number of polls, keys, values,       *)
(* benchmarks and messages, and every even window: no page polls after it  *)
(* was left, the dashboard's cards match its charts, the console's log is  *)
(* consistent, runs of the backend overlap only with runs that were given  *)
(* up, and the conversations of the AI page stay whole.                    *)
(***************************************************************************)
EXTENDS AppShell, TLAPS

-----------------------------------------------------------------------------
\* The polling pages.

\* The only interval that runs is that of the page on the screen (the cleanup of
\* useEffect in dashboard, metrics and clients), wherever the user goes.
THEOREM TimersRight == Spec => []TimersMatchPage
<1>1. Init => TimersMatchPage
  BY NoneAssumption DEF Init, NAV_ITEMS, Polling!Init, Polling!PollingPages,
                        TimersMatchPage, Polling!TimersMatchPage
<1>2. TimersMatchPage /\ [Next]_shellVars => TimersMatchPage'
  <2> SUFFICES ASSUME TimersMatchPage, [Next]_shellVars PROVE TimersMatchPage'
    OBVIOUS
  <2>1. CASE \E href \in NAV_ITEMS : Navigate(href)
    BY <2>1, NoneAssumption
    DEF Navigate, NAV_ITEMS, Polling!Show, Polling!Cleanup, Polling!PollingPages,
        TimersMatchPage, Polling!TimersMatchPage
  <2>2. ASSUME UNCHANGED <<pathname, timers>> PROVE TimersMatchPage'
    BY <2>2 DEF TimersMatchPage, Polling!TimersMatchPage
  <2>3. CASE PollingStep(Polling!Next)
    <3>1. UNCHANGED <<pathname, timers>>
      BY <2>3 DEF PollingStep, Polling!Next, Polling!Recover, Polling!Serve,
         Polling!Tick, Polling!Settle, Polling!DashboardAnswered,
         Polling!MetricsAnswered, Polling!ClientsAnswered, Polling!Answered,
         Polling!PollFailed
    <3> QED
      BY <2>2, <3>1
  <2> QED
    BY <2>1, <2>2, <2>3
    DEF Next, CommandsStep, ChatStep, BenchmarksStep, SettingsStep, shellVars, pollingVars
<1> QED
  BY <1>1, <1>2, PTL DEF Spec

-----------------------------------------------------------------------------
\* The cards and the charts.

Page == IF pathname \in {"dashboard", "metrics", "clients"} THEN pathname ELSE None
View ==
  [metrics : Figures \cup {None}, error : BOOLEAN, loading : BOOLEAN,
   history : Seq(Figures)]
Longest == IF Page = "dashboard" THEN MAX_HISTORY ELSE MAX
Ends(history, sample) == history # <<>> /\ history[Len(history)] = sample

\* Only a page on the screen awaits polls, and what the dashboard's cards show is
\* the last sample of its history.
PollInv ==
  /\ pathname \in NAV_ITEMS
  /\ view \in View /\ Len(view.history) <= Longest
  /\ polls \in [Polls -> [sample : Figures \cup {None}] \cup {None}]
  /\ \A p \in Polls : polls[p] # None => Page # None
  /\ Page = "dashboard" /\ view.metrics # None => Ends(view.history, view.metrics)

\* push and shift: the new sample is the last, and there is room for it.
LEMMA PushProperties ==
  ASSUME NEW s \in Seq(Figures), NEW x \in Figures, NEW max \in Nat \ {0}, Len(s) <= max
  PROVE  /\ Polling!Push(s, x, max) \in Seq(Figures)
         /\ Len(Polling!Push(s, x, max)) <= max
         /\ Ends(Polling!Push(s, x, max), x)
<1> DEFINE t == Append(s, x)
<1>1. /\ t \in Seq(Figures) /\ Len(t) = Len(s) + 1 /\ t[Len(t)] = x
      /\ Len(s) \in Nat
  OBVIOUS
<1> HIDE DEF t
<1>2. CASE Len(t) > max
  <2>1. Tail(t) \in Seq(Figures) /\ Len(Tail(t)) = Len(t) - 1
    BY <1>1, <1>2
  <2>2. Len(Tail(t)) \in 1..max
    BY <1>1, <1>2, <2>1
  <2>3. Tail(t)[Len(Tail(t))] = t[Len(t)]
    BY <1>1, <2>1, <2>2
  <2>4. Len(<<>>) = 0
    OBVIOUS
  <2>5. Polling!Push(s, x, max) = Tail(t)
    BY <1>2 DEF Polling!Push, t
  <2> QED
    BY <1>1, <2>1, <2>2, <2>3, <2>4, <2>5 DEF Ends
<1>3. CASE ~(Len(t) > max)
  <2>1. Polling!Push(s, x, max) = t
    BY <1>3 DEF Polling!Push, t
  <2>2. t # <<>> /\ Len(t) <= max
    BY <1>1, <1>3
  <2> QED
    BY <1>1, <2>1, <2>2 DEF Ends
<1> QED
  BY <1>2, <1>3

\* A poll that was answered carries figures.
LEMMA AnsweredSample ==
  ASSUME PollInv, NEW p \in Polls, polls[p] \notin {None, Polling!Sent}
  PROVE  polls[p].sample \in Figures
<1>1. polls[p] \in [sample : Figures \cup {None}]
  BY DEF PollInv
<1>2. polls[p] = [sample |-> polls[p].sample]
  BY <1>1
<1> QED
  BY <1>1, <1>2 DEF Polling!Sent

LEMMA PollStep ==
  ASSUME PollInv, TimersMatchPage, Polling!Next, pathname' = pathname
  PROVE  PollInv'
<1>1. Page' = Page /\ Longest' = Longest /\ pathname' \in NAV_ITEMS /\ Longest \in Nat \ {0}
  BY PollingAssumption DEF Page, Longest, PollInv
<1>2. view \in View /\ Len(view.history) \in Nat
  BY DEF PollInv, View
<1>3. ASSUME view' = view,
             polls' \in [Polls -> [sample : Figures \cup {None}] \cup {None}],
             \A p \in Polls : polls'[p] # None => Page # None
      PROVE  PollInv'
  BY <1>1, <1>3 DEF PollInv
<1>4. ASSUME NEW p \in Polls, polls[p] # None, polls' = [polls EXCEPT ![p] = None],
             view' \in View, Len(view'.history) <= Longest,
             Page = "dashboard" /\ view'.metrics # None => Ends(view'.history, view'.metrics)
      PROVE  PollInv'
  <2>1. polls' \in [Polls -> [sample : Figures \cup {None}] \cup {None}]
    BY <1>4 DEF PollInv
  <2>2. \A q \in Polls : polls'[q] # None => Page # None
    BY <1>4 DEF PollInv
  <2> QED
    BY <1>1, <1>4, <2>1, <2>2 DEF PollInv
<1>5. CASE Polling!Recover
  BY <1>3, <1>5 DEF Polling!Recover, PollInv
<1>6. ASSUME NEW p \in Polls, Polling!Serve(p) PROVE PollInv'
  <2>1. PICK s \in Figures : polls' = [polls EXCEPT ![p] = [sample |-> s]]
    BY <1>6 DEF Polling!Serve
  <2>2. polls[p] # None
    <3>1. polls[p] \in [sample : Figures \cup {None}]
      BY <1>6 DEF Polling!Serve, Polling!Sent
    <3> QED
      BY <3>1, PollingAssumption
  <2> QED
    BY <1>3, <1>6, <2>1, <2>2 DEF Polling!Serve, PollInv
<1>7. ASSUME NEW p \in Polls, Polling!Tick(p) PROVE PollInv'
  <2>1. Page # None
    BY <1>7 DEF Polling!Tick, TimersMatchPage, Polling!TimersMatchPage, Page
  <2> QED
    BY <1>3, <1>7, <2>1 DEF Polling!Tick, Polling!Sent, PollInv
<1>8. ASSUME NEW p \in Polls, Polling!DashboardAnswered(p) PROVE PollInv'
  <2> DEFINE x == polls[p].sample
             h == Polling!Push(view.history, x, MAX_HISTORY)
  <2>1. /\ polls[p] \notin {None, Polling!Sent} /\ polls' = [polls EXCEPT ![p] = None]
        /\ view' = [metrics |-> x, error |-> FALSE, loading |-> FALSE, history |-> h]
    BY <1>8 DEF Polling!DashboardAnswered, Polling!Answered
  <2>2. Page = "dashboard" /\ Longest = MAX_HISTORY
    BY <1>8 DEF Polling!DashboardAnswered, Page, Longest
  <2>3. x \in Figures
    BY <2>1, AnsweredSample
  <2>4. view.history \in Seq(Figures) /\ Len(view.history) <= MAX_HISTORY
    BY <2>2 DEF PollInv, View
  <2> HIDE DEF x
  <2>5. h \in Seq(Figures) /\ Len(h) <= MAX_HISTORY /\ Ends(h, x)
    BY <2>3, <2>4, PushProperties, PollingAssumption
  <2> HIDE DEF h
  <2>6. view' \in View
    BY <2>1, <2>3, <2>5 DEF View
  <2> QED
    BY <1>4, <2>1, <2>2, <2>5, <2>6
<1>9. ASSUME NEW p \in Polls, Polling!MetricsAnswered(p) PROVE PollInv'
  <2> DEFINE x == polls[p].sample
             h == Polling!Push(view.history, x, MAX)
  <2>1. /\ polls[p] \notin {None, Polling!Sent} /\ polls' = [polls EXCEPT ![p] = None]
        /\ view' = [view EXCEPT !.error = FALSE, !.loading = FALSE, !.history = h]
    BY <1>9 DEF Polling!MetricsAnswered, Polling!Answered
  <2>2. Page = "metrics" /\ Longest = MAX
    BY <1>9, NoneAssumption DEF Polling!MetricsAnswered, Page, Longest, NAV_ITEMS
  <2>3. x \in Figures
    BY <2>1, AnsweredSample
  <2>4. view.history \in Seq(Figures) /\ Len(view.history) <= MAX
    BY <2>2 DEF PollInv, View
  <2> HIDE DEF x
  <2>5. h \in Seq(Figures) /\ Len(h) <= MAX
    BY <2>3, <2>4, PushProperties, PollingAssumption
  <2> HIDE DEF h
  <2>6. view' \in View /\ view'.history = h
    BY <1>2, <2>1, <2>5 DEF View
  <2> QED
    BY <1>4, <2>1, <2>2, <2>5, <2>6
<1>10. ASSUME NEW p \in Polls, Polling!ClientsAnswered(p) PROVE PollInv'
  <2>1. /\ polls[p] \notin {None, Polling!Sent} /\ polls' = [polls EXCEPT ![p] = None]
        /\ view' = [view EXCEPT !.metrics = polls[p].sample, !.error = FALSE, !.loading = FALSE]
    BY <1>10 DEF Polling!ClientsAnswered, Polling!Answered
  <2>2. Page = "clients"
    BY <1>10, NoneAssumption DEF Polling!ClientsAnswered, Page, NAV_ITEMS
  <2>3. polls[p].sample \in Figures
    BY <2>1, AnsweredSample
  <2>4. view' \in View /\ view'.history = view.history
    BY <1>2, <2>1, <2>3 DEF View
  <2> QED
    BY <1>4, <2>1, <2>2, <2>4 DEF PollInv
<1>11. ASSUME NEW p \in Polls, Polling!PollFailed(p) PROVE PollInv'
  <2>1. /\ polls[p] # None /\ polls' = [polls EXCEPT ![p] = None]
        /\ view' = [view EXCEPT !.error = TRUE, !.loading = FALSE]
    BY <1>11 DEF Polling!PollFailed
  <2>2. /\ view' \in View /\ view'.history = view.history
        /\ view'.metrics = view.metrics
    BY <1>2, <2>1 DEF View
  <2> QED
    BY <1>4, <2>1, <2>2 DEF PollInv
<1> QED
  BY <1>5, <1>6, <1>7, <1>8, <1>9, <1>10, <1>11 DEF Polling!Next, Polling!Settle

\* The page that is shown next starts blank.
LEMMA ShowStep ==
  ASSUME PollInv, NEW href \in NAV_ITEMS, pathname' = href, Polling!Show(href)
  PROVE  PollInv'
<1>1. view' = Polling!Blank /\ Longest' \in Nat
  BY PollingAssumption DEF Polling!Show, Longest
<1>2. view' \in View /\ view'.history = <<>> /\ view'.metrics = None
  BY <1>1 DEF Polling!Blank, View
<1>3. polls' \in [Polls -> [sample : Figures \cup {None}] \cup {None}]
  BY DEF Polling!Show, Polling!NoPolls, Polling!Sent
<1>4. \A p \in Polls : polls'[p] # None => Page' # None
  BY NoneAssumption DEF Polling!Show, Polling!NoPolls, Polling!PollingPages, Page
<1>5. Len(view'.history) <= Longest'
  BY <1>1, <1>2
<1> QED
  BY <1>2, <1>3, <1>4, <1>5 DEF PollInv

LEMMA PollInvariant == Spec => []PollInv
<1>1. Init => PollInv
  <2> SUFFICES ASSUME Init PROVE PollInv
    OBVIOUS
  <2>1. Page = "dashboard" /\ Page # None /\ Longest \in Nat
    BY NoneAssumption, PollingAssumption DEF Init, Page, NAV_ITEMS, Longest
  <2>2. view \in View /\ view.history = <<>> /\ view.metrics = None
    BY DEF Init, Polling!Init, Polling!Blank, View
  <2>3. polls \in [Polls -> [sample : Figures \cup {None}] \cup {None}]
    BY DEF Init, Polling!Init, Polling!NoPolls, Polling!Sent
  <2>4. pathname \in NAV_ITEMS /\ Len(view.history) <= Longest
    BY <2>1, <2>2 DEF Init, NAV_ITEMS
  <2> QED
    BY <2>1, <2>2, <2>3, <2>4 DEF PollInv
<1>2. PollInv /\ TimersMatchPage /\ [Next]_shellVars => PollInv'
  <2> SUFFICES ASSUME PollInv, TimersMatchPage, [Next]_shellVars PROVE PollInv'
    OBVIOUS
  <2>1. ASSUME UNCHANGED <<pathname, pollingVars>> PROVE PollInv'
    BY <2>1 DEF PollInv, Page, Longest, pollingVars
  <2>2. CASE \E href \in NAV_ITEMS : Navigate(href)
    BY <2>2, ShowStep DEF Navigate
  <2>3. CASE PollingStep(Polling!Next)
    BY <2>3, PollStep DEF PollingStep
  <2> QED
    BY <2>1, <2>2, <2>3 DEF Next, CommandsStep, ChatStep, BenchmarksStep, SettingsStep, shellVars
<1> QED
  BY <1>1, <1>2, TimersRight, PTL DEF Spec

\* The dashboard's cards and the last points of its charts are of the same poll
\* (fetchMetrics), however many polls overlap and in whatever order they end.
THEOREM CardsRight == Spec => []CardsMatchCharts
<1>1. PollInv => CardsMatchCharts
  <2> SUFFICES ASSUME PollInv, Page = "dashboard", Polling!Screen.cards # None
               PROVE  Ends(Polling!Screen.charts, Polling!Screen.cards)
    BY DEF CardsMatchCharts, Polling!CardsMatchCharts, Page, Ends
  <2>1. ~view.loading
    BY DEF Polling!Screen, Polling!Spinner, Page
  <2>2. Polling!Screen = Polling!DashboardShows
    BY <2>1 DEF Polling!Screen, Page
  <2> QED
    BY <2>2 DEF Polling!DashboardShows, PollInv
<1> QED
  BY <1>1, PollInvariant, PTL

-----------------------------------------------------------------------------
\* The command console.

Entry == [ok : BOOLEAN, response : Response \cup {Error, None}]
Console ==
  [log : Seq(Entry), loading : BOOLEAN, hint : BOOLEAN,
   command : Commands!Remote \cup {None}]

\* What the page will learn of key k when q is answered by e.
Told(q, e, k) ==
  CASE q.cmd = "keys" ->
         IF \E v \in Values : <<k, v>> \in e.listing
           THEN CHOOSE v \in Values : <<k, v>> \in e.listing ELSE Absent
    [] q.cmd = "set" /\ q.key = k -> q.value
    [] q.cmd = "del" /\ q.key = k -> Absent
    [] q.cmd = "get" /\ q.key = k -> e
    [] OTHER -> known[k]

ConsoleType ==
  /\ console \in Console /\ Len(console.log) <= MaxLog
  /\ console.loading <=> console.command # None
  /\ store \in [Keys -> Values \cup {Absent}]
  /\ effect \in Response \cup {None}
  /\ late \subseteq Commands!Changes /\ disturbed \subseteq Keys
  /\ known \in [Keys -> Values \cup {Absent, Unknown}]

\* A key known is known rightly, unless the command under way has just changed it.
KnownRight ==
  \A k \in Keys :
    \/ known[k] \in {Unknown, store[k]}
    \/ effect # None /\ console.command \in Commands!Changes /\ console.command.key = k

\* The result of a command in effect agrees with what is known, and tells what is in
\* the store of the keys that nobody has changed since.
EffectRight ==
  effect # None =>
    /\ console.command # None
    /\ Commands!Agrees(console.command, effect)
    /\ \A k \in Keys \ disturbed :
         Told(console.command, effect, k) \in {Unknown, store[k]}

ConsoleInv == ConsoleType /\ KnownRight /\ EffectRight

\* prev.slice(-199) and the new entry, which is the last.
LEMMA LoggedProperties ==
  ASSUME NEW s \in Seq(Entry), NEW e \in Entry, Len(s) <= MaxLog
  PROVE  /\ Commands!Logged(s, e) \in Seq(Entry)
         /\ Len(Commands!Logged(s, e)) \in 1..MaxLog
         /\ Commands!Logged(s, e)[Len(Commands!Logged(s, e))] = e
<1> DEFINE t == IF Len(s) < MaxLog THEN s ELSE SubSeq(s, Len(s) + 2 - MaxLog, Len(s))
<1>1. MaxLog \in Nat /\ MaxLog > 1 /\ Len(s) \in Nat
  BY ConsoleAssumption
<1>2. t \in Seq(Entry) /\ Len(t) < MaxLog
  <2>1. CASE Len(s) < MaxLog
    BY <2>1
  <2>2. CASE ~(Len(s) < MaxLog)
    <3>1. Len(s) = MaxLog /\ t = SubSeq(s, Len(s) + 2 - MaxLog, Len(s))
      BY <1>1, <2>2
    <3>2. Len(s) + 2 - MaxLog = 2
      BY <1>1, <3>1
    <3>3. SubSeq(s, 2, Len(s)) \in Seq(Entry) /\ Len(SubSeq(s, 2, Len(s))) = Len(s) - 1
      BY <1>1, <3>1
    <3> HIDE DEF t
    <3> QED
      BY <1>1, <3>1, <3>2, <3>3
  <2> HIDE DEF t
  <2> QED
    BY <2>1, <2>2
<1>3. Commands!Logged(s, e) = Append(t, e)
  BY DEF Commands!Logged
<1> HIDE DEF t
<1> QED
  BY <1>1, <1>2, <1>3

\* What takes effect, and what it answers.
LEMMA Results ==
  ASSUME store \in [Keys -> Values \cup {Absent}], NEW q \in Commands!Remote
  PROVE  /\ Commands!Service!Stored(q) \in [Keys -> Values \cup {Absent}]
         /\ Commands!Service!ResultOf(q) \in Response
<1>1. Commands!Service!Pairs \in SUBSET (Keys \X Values)
  BY DEF Commands!Service!Pairs
<1>2. CASE q \in Commands!Changes \cup [cmd : {"get"}, key : Keys]
  BY <1>2 DEF Commands!Changes, Commands!Service!Stored, Commands!Service!ResultOf, Response
<1>3. CASE q \in [cmd : {"keys", "other", "refused"}]
  BY <1>1, <1>3 DEF Commands!Service!Stored, Commands!Service!ResultOf, Response
<1> QED
  BY <1>2, <1>3 DEF Commands!Remote

\* What is in the listing of a key is its value.
LEMMA ListingTells ==
  ASSUME store \in [Keys -> Values \cup {Absent}], NEW k \in Keys
  PROVE  /\ store[k] \in Values =>
              /\ \E v \in Values : <<k, v>> \in Commands!Service!Pairs
              /\ (CHOOSE v \in Values : <<k, v>> \in Commands!Service!Pairs) = store[k]
         /\ store[k] \notin Values =>
              /\ ~ \E v \in Values : <<k, v>> \in Commands!Service!Pairs
              /\ store[k] = Absent
<1>1. Absent \notin Values
  BY ConsoleAssumption
<1>2. \A v \in Values : <<k, v>> \in Commands!Service!Pairs <=> v = store[k]
  <2> SUFFICES ASSUME NEW v \in Values
               PROVE  <<k, v>> \in Commands!Service!Pairs <=> v = store[k]
    OBVIOUS
  <2>1. <<k, v>> \in Commands!Service!Pairs => v = store[k]
    BY DEF Commands!Service!Pairs
  <2>2. v = store[k] => <<k, v>> \in Commands!Service!Pairs
    BY <1>1 DEF Commands!Service!Pairs
  <2> QED
    BY <2>1, <2>2
<1> HIDE DEF Commands!Service!Pairs
<1> QED
  BY <1>2

\* When a command takes effect, its result is right about every key, if the user
\* knew rightly before.
LEMMA ResultTells ==
  ASSUME ConsoleType, NEW q \in Commands!Remote,
         \A k \in Keys : known[k] \in {Unknown, store[k]}
  PROVE  /\ Commands!Agrees(q, Commands!Service!ResultOf(q))
         /\ \A k \in Keys : Told(q, Commands!Service!ResultOf(q), k)
                              \in {Unknown, Commands!Service!Stored(q)[k]}
<1> DEFINE e == Commands!Service!ResultOf(q)
<1>1. store \in [Keys -> Values \cup {Absent}] /\ Absent \notin Values /\ Absent # Ok
  BY ConsoleAssumption DEF ConsoleType
<1>2. CASE q \in [cmd : {"set"}, key : Keys, value : Values]
  <2>1. q.cmd = "set" /\ q.key \in Keys
    BY <1>2
  <2>2. Commands!Service!Stored(q) = [store EXCEPT ![q.key] = q.value]
    BY <2>1 DEF Commands!Service!Stored
  <2>3. \A k \in Keys : Told(q, e, k) = IF q.key = k THEN q.value ELSE known[k]
    BY <2>1 DEF Told
  <2>4. Commands!Agrees(q, e)
    BY <2>1 DEF Commands!Agrees
  <2> HIDE DEF e
  <2>5. \A k \in Keys : Told(q, e, k) \in {Unknown, Commands!Service!Stored(q)[k]}
    BY <1>1, <2>1, <2>2, <2>3
  <2> QED
    BY <2>4, <2>5 DEF e
<1>3. CASE q \in [cmd : {"del"}, key : Keys]
  <2>1. q.cmd = "del" /\ q.key \in Keys
    BY <1>3
  <2>2. /\ Commands!Service!Stored(q) = [store EXCEPT ![q.key] = Absent]
        /\ e = IF store[q.key] = Absent THEN Absent ELSE Ok
    BY <2>1 DEF Commands!Service!Stored, Commands!Service!ResultOf
  <2> HIDE DEF e
  <2>3. \A k \in Keys : Told(q, e, k) = IF q.key = k THEN Absent ELSE known[k]
    BY <2>1 DEF Told
  <2>4. Commands!Agrees(q, e)
    <3>1. known[q.key] # Unknown => (e = Ok <=> known[q.key] \in Values)
      BY <1>1, <2>1, <2>2
    <3> QED
      BY <2>1, <3>1 DEF Commands!Agrees
  <2>5. \A k \in Keys : Told(q, e, k) \in {Unknown, Commands!Service!Stored(q)[k]}
    BY <1>1, <2>1, <2>2, <2>3
  <2> QED
    BY <2>4, <2>5 DEF e
<1>4. CASE q \in [cmd : {"get"}, key : Keys]
  <2>1. q.cmd = "get" /\ q.key \in Keys
    BY <1>4
  <2>2. Commands!Service!Stored(q) = store /\ e = store[q.key]
    BY <2>1 DEF Commands!Service!Stored, Commands!Service!ResultOf
  <2> HIDE DEF e
  <2>3. \A k \in Keys : Told(q, e, k) = IF q.key = k THEN e ELSE known[k]
    BY <2>1 DEF Told
  <2>4. Commands!Agrees(q, e)
    BY <2>1, <2>2 DEF Commands!Agrees
  <2> QED
    BY <2>1, <2>2, <2>3, <2>4 DEF e
<1>5. CASE q \in [cmd : {"keys"}]
  <2>1. q.cmd = "keys"
    BY <1>5
  <2>2. Commands!Service!Stored(q) = store /\ e = [listing |-> Commands!Service!Pairs]
    BY <2>1 DEF Commands!Service!Stored, Commands!Service!ResultOf
  <2> HIDE DEF e
  <2>3. e.listing = Commands!Service!Pairs
    BY <2>2
  <2>4. \A k \in Keys :
          Told(q, e, k) = IF \E v \in Values : <<k, v>> \in e.listing
                            THEN CHOOSE v \in Values : <<k, v>> \in e.listing ELSE Absent
    BY <2>1 DEF Told
  <2>5. \A k \in Keys : Told(q, e, k) = store[k]
    BY <1>1, <2>3, <2>4, ListingTells
  <2>6. \A k \in Keys : known[k] # Unknown =>
          (known[k] \in Values <=> \E v \in Values : <<k, v>> \in e.listing)
    BY <1>1, <2>3, ListingTells
  <2>7. Commands!Agrees(q, e)
    BY <2>1, <2>6 DEF Commands!Agrees
  <2> QED
    BY <2>2, <2>5, <2>7 DEF e
<1>6. CASE q \in [cmd : {"other", "refused"}]
  <2>1. q.cmd \in {"other", "refused"}
    BY <1>6
  <2>2. Commands!Service!Stored(q) = store /\ Commands!Agrees(q, e)
    BY <2>1 DEF Commands!Service!Stored, Commands!Agrees
  <2>3. \A k \in Keys : Told(q, e, k) = known[k]
    BY <2>1 DEF Told
  <2> QED
    BY <2>2, <2>3
<1> QED
  BY <1>2, <1>3, <1>4, <1>5, <1>6 DEF Commands!Remote, Commands!Changes

-----------------------------------------------------------------------------
\* The steps of the server and its other clients.

LEMMA ExecuteStep ==
  ASSUME ConsoleInv, Commands!Execute
  PROVE  ConsoleInv'
<1> DEFINE q == console.command
           e == Commands!Service!ResultOf(q)
<1>1. /\ q # None /\ effect = None /\ effect' = e /\ store' = Commands!Service!Stored(q)
      /\ UNCHANGED <<console, late, known, disturbed>>
  BY DEF Commands!Execute
<1>2. q \in Commands!Remote /\ store \in [Keys -> Values \cup {Absent}]
  BY <1>1 DEF ConsoleInv, ConsoleType, Console
<1>3. \A k \in Keys : known[k] \in {Unknown, store[k]}
  BY <1>1 DEF ConsoleInv, KnownRight
<1>4. /\ Commands!Agrees(q, e)
      /\ \A k \in Keys : Told(q, e, k) \in {Unknown, store'[k]}
  BY <1>1, <1>2, <1>3, ResultTells DEF ConsoleInv
<1>5. store' \in [Keys -> Values \cup {Absent}] /\ effect' \in Response
  BY <1>1, <1>2, Results
<1>6. ConsoleType'
  BY <1>1, <1>5 DEF ConsoleInv, ConsoleType
<1>7. effect' # None
  BY <1>5, NoneAssumption
<1>8. ASSUME NEW k \in Keys PROVE store'[k] = store[k] \/ (q \in Commands!Changes /\ q.key = k)
  <2>1. CASE q.cmd \in {"set", "del"}
    <3>1. q \in Commands!Changes
      BY <1>2, <2>1 DEF Commands!Remote
    <3> QED
      BY <1>1, <1>2, <3>1 DEF Commands!Changes, Commands!Service!Stored
  <2>2. CASE q.cmd \notin {"set", "del"}
    BY <1>1, <2>2 DEF Commands!Service!Stored
  <2> QED
    BY <2>1, <2>2
<1> HIDE DEF e
<1>9. KnownRight'
  BY <1>1, <1>3, <1>7, <1>8 DEF KnownRight
<1>10. /\ Commands!Agrees(console.command, effect)'
       /\ \A k \in Keys : Told(console.command, effect, k)' = Told(q, e, k)
  BY <1>1, <1>4 DEF Commands!Agrees, Told
<1>11. EffectRight'
  BY <1>1, <1>4, <1>10 DEF EffectRight
<1> QED
  BY <1>6, <1>9, <1>11 DEF ConsoleInv

\* Whoever changes a key makes it unknown.
LEMMA DisturbStep ==
  ASSUME ConsoleInv, NEW k \in Keys, Commands!Disturb(k),
         store' \in [Keys -> Values \cup {Absent}],
         \A h \in Keys \ {k} : store'[h] = store[h],
         UNCHANGED <<console, effect>>, late' \subseteq Commands!Changes
  PROVE  ConsoleInv'
<1>1. /\ known' = [known EXCEPT ![k] = Unknown]
      /\ disturbed' = disturbed \cup {k}
  BY DEF Commands!Disturb
<1>2. known \in [Keys -> Values \cup {Absent, Unknown}]
  BY DEF ConsoleInv, ConsoleType
<1>3. ConsoleType'
  BY <1>1 DEF ConsoleInv, ConsoleType
<1>4. KnownRight'
  BY <1>1, <1>2 DEF ConsoleInv, KnownRight
<1>5. ASSUME effect # None
      PROVE  /\ console.command # None
             /\ Commands!Agrees(console.command, effect)'
             /\ \A h \in Keys \ disturbed' :
                  Told(console.command, effect, h)' \in {Unknown, store'[h]}
  <2> DEFINE q == console.command
  <2>1. /\ q # None /\ Commands!Agrees(q, effect)
        /\ \A h \in Keys \ disturbed : Told(q, effect, h) \in {Unknown, store[h]}
    BY <1>5 DEF ConsoleInv, EffectRight
  <2>2. \A h \in Keys : known'[h] = Unknown \/ known'[h] = known[h]
    BY <1>1, <1>2
  <2>3. q \in Commands!Remote
    BY <2>1 DEF ConsoleInv, ConsoleType, Console
  <2>4. q.cmd \in {"get", "del"} => q.key \in Keys
    BY <2>3 DEF Commands!Remote, Commands!Changes
  <2>5. Commands!Agrees(console.command, effect)'
    BY <2>1, <2>2, <2>4 DEF Commands!Agrees
  <2>6. ASSUME NEW h \in Keys \ disturbed' PROVE Told(q, effect, h)' = Told(q, effect, h)
    <3>1. known'[h] = known[h] /\ q' = q /\ effect' = effect
      BY <1>1, <1>2, <2>6
    <3> QED
      BY <3>1 DEF Told
  <2>7. \A h \in Keys \ disturbed' : h \in Keys \ disturbed /\ h # k
    BY <1>1
  <2> QED
    BY <2>1, <2>5, <2>6, <2>7
<1>6. EffectRight'
  BY <1>5 DEF EffectRight
<1> QED
  BY <1>3, <1>4, <1>6 DEF ConsoleInv

LEMMA ConsoleServer ==
  ASSUME ConsoleInv, Commands!ServerNext
  PROVE  ConsoleInv'
<1>1. store \in [Keys -> Values \cup {Absent}] /\ late \subseteq Commands!Changes
  BY DEF ConsoleInv, ConsoleType
<1>2. ASSUME NEW q \in Commands!Changes, Commands!ExecuteLate(q) PROVE ConsoleInv'
  <2>1. q \in Commands!Remote /\ q.key \in Keys
    BY DEF Commands!Changes, Commands!Remote
  <2>2. store' = Commands!Service!Stored(q) /\ Commands!Disturb(q.key)
    BY <1>2 DEF Commands!ExecuteLate
  <2>3. store' \in [Keys -> Values \cup {Absent}]
    BY <1>1, <2>1, <2>2, Results
  <2>4. \A h \in Keys \ {q.key} : store'[h] = store[h]
    BY <1>1, <2>1, <2>2 DEF Commands!Service!Stored
  <2>5. UNCHANGED <<console, effect>> /\ late' \subseteq Commands!Changes
    BY <1>1, <1>2 DEF Commands!ExecuteLate
  <2> QED
    BY <2>1, <2>2, <2>3, <2>4, <2>5, DisturbStep
<1>3. ASSUME NEW k \in Keys, NEW v \in Values \cup {Absent}, Commands!Other(k, v)
      PROVE  ConsoleInv'
  <2>1. store' \in [Keys -> Values \cup {Absent}] /\ \A h \in Keys \ {k} : store'[h] = store[h]
    BY <1>1, <1>3 DEF Commands!Other
  <2> QED
    BY <1>1, <1>3, <2>1, DisturbStep DEF Commands!Other
<1> QED
  BY <1>2, <1>3, ExecuteStep DEF Commands!ServerNext

-----------------------------------------------------------------------------
\* The steps of the console itself.

LEMMA RunLocalStep ==
  ASSUME ConsoleInv, NEW line \in Commands!Local, Commands!RunLocal(line)
  PROVE  ConsoleInv' /\ console'.command = console.command
<1> DEFINE entry == [ok |-> line.cmd = "help", response |-> None]
           log == IF line.cmd = "clear" THEN <<>> ELSE Commands!Logged(console.log, entry)
<1>1. console \in Console /\ console.log \in Seq(Entry) /\ Len(console.log) <= MaxLog
  BY DEF ConsoleInv, ConsoleType, Console
<1>2. entry \in Entry
  BY DEF Entry
<1>3. console' = [console EXCEPT !.hint = (line.cmd = "unknown"), !.log = log]
  BY DEF Commands!RunLocal
<1> HIDE DEF entry
<1>4. log \in Seq(Entry) /\ Len(log) <= MaxLog
  <2>1. <<>> \in Seq(Entry) /\ Len(<<>>) <= MaxLog
    BY ConsoleAssumption
  <2>2. /\ Commands!Logged(console.log, entry) \in Seq(Entry)
        /\ Len(Commands!Logged(console.log, entry)) \in 1..MaxLog
    BY <1>1, <1>2, LoggedProperties
  <2>3. Len(Commands!Logged(console.log, entry)) <= MaxLog
    BY <2>2, ConsoleAssumption
  <2> QED
    BY <2>1, <2>2, <2>3
<1> HIDE DEF log
<1>5. console' \in Console /\ console'.log = log /\ console'.loading = console.loading
      /\ console'.command = console.command
  BY <1>1, <1>3, <1>4 DEF Console
<1>6. UNCHANGED <<store, effect, late, known, disturbed>>
  BY DEF Commands!RunLocal
<1>7. ConsoleType'
  BY <1>4, <1>5, <1>6 DEF ConsoleInv, ConsoleType
<1>8. KnownRight'
  BY <1>5, <1>6 DEF ConsoleInv, KnownRight
<1>9. EffectRight'
  BY <1>5, <1>6 DEF ConsoleInv, EffectRight, Told, Commands!Agrees
<1> QED
  BY <1>5, <1>7, <1>8, <1>9 DEF ConsoleInv

LEMMA RunRemoteStep ==
  ASSUME ConsoleInv, NEW line \in Commands!Remote, Commands!RunRemote(line)
  PROVE  ConsoleInv' /\ console'.command # None
<1>1. ~console.loading /\ console.command = None /\ effect = None
  BY DEF Commands!RunRemote, Commands!MayRun, ConsoleInv, ConsoleType, EffectRight
<1>2. /\ console' = [console EXCEPT !.loading = TRUE, !.hint = FALSE, !.command = line]
      /\ effect' = None /\ disturbed' = {} /\ UNCHANGED <<store, late, known>>
  BY DEF Commands!RunRemote
<1>3. line # None
  BY NoneAssumption
<1>4. /\ console' \in Console /\ console'.loading /\ console'.command = line
      /\ console'.log = console.log
  BY <1>2 DEF ConsoleInv, ConsoleType, Console
<1>5. ConsoleType'
  BY <1>2, <1>3, <1>4 DEF ConsoleInv, ConsoleType
<1>6. KnownRight' /\ EffectRight'
  BY <1>1, <1>2 DEF ConsoleInv, KnownRight, EffectRight
<1> QED
  BY <1>3, <1>4, <1>5, <1>6 DEF ConsoleInv

\* The command ends with an entry of its own, the last of the log.
LEMMA FinishStep ==
  ASSUME ConsoleInv, NEW ok \in BOOLEAN, NEW response \in Response \cup {Error, None},
         Commands!Finish(ok, response)
  PROVE  /\ console' \in Console /\ Len(console'.log) \in 1..MaxLog
         /\ ~console'.loading /\ console'.command = None
         /\ console'.log[Len(console'.log)].response = response
<1> DEFINE entry == [ok |-> ok, response |-> response]
           log == Commands!Logged(console.log, entry)
<1>1. console \in Console /\ console.log \in Seq(Entry) /\ Len(console.log) <= MaxLog
  BY DEF ConsoleInv, ConsoleType, Console
<1>2. entry \in Entry /\ entry.response = response
  BY DEF Entry
<1>3. console' = [console EXCEPT !.loading = FALSE, !.command = None, !.log = log]
  BY DEF Commands!Finish
<1> HIDE DEF entry
<1>4. log \in Seq(Entry) /\ Len(log) \in 1..MaxLog /\ log[Len(log)] = entry
  BY <1>1, <1>2, LoggedProperties
<1> HIDE DEF log
<1>5. console' \in Console /\ console'.log = log /\ ~console'.loading /\ console'.command = None
  BY <1>1, <1>3, <1>4 DEF Console
<1> QED
  BY <1>2, <1>4, <1>5

\* What both continuations leave: no command under way, and nothing learnt wrongly.
LEMMA FinishInv ==
  ASSUME ConsoleInv, console' \in Console, Len(console'.log) \in 1..MaxLog,
         ~console'.loading, console'.command = None, effect' = None,
         store' = store, late' \subseteq Commands!Changes, disturbed' = disturbed,
         NEW told, known' = [k \in Keys |-> IF k \in disturbed THEN Unknown ELSE told[k]],
         \A k \in Keys \ disturbed : told[k] \in {Unknown, store[k]}
  PROVE  ConsoleInv'
<1>1. store \in [Keys -> Values \cup {Absent}] /\ disturbed \subseteq Keys
  BY DEF ConsoleInv, ConsoleType
<1>2. known' \in [Keys -> Values \cup {Absent, Unknown}]
  BY <1>1
<1>3. ConsoleType'
  <2>1. Len(console'.log) <= MaxLog
    BY ConsoleAssumption
  <2> QED
    BY <1>1, <1>2, <2>1 DEF ConsoleType
<1>4. KnownRight' /\ EffectRight'
  BY DEF KnownRight, EffectRight
<1> QED
  BY <1>3, <1>4 DEF ConsoleInv

LEMMA AnsweredStep ==
  ASSUME ConsoleInv, Commands!Answered
  PROVE  /\ ConsoleInv' /\ console'.command = None
         /\ Commands!Agrees(console.command, effect)
         /\ Len(console'.log) \in 1..MaxLog
         /\ console'.log[Len(console'.log)].response = effect
<1> DEFINE q == console.command
           told == [k \in Keys |-> Told(q, effect, k)]
           ok == (q.cmd # "get" \/ effect # Absent)
<1>1. /\ q # None /\ effect # None /\ Commands!Finish(ok, effect)
      /\ UNCHANGED <<late, disturbed>>
  BY DEF Commands!Answered
<1>2. effect' = None /\ store' = store
  BY <1>1 DEF Commands!Finish
<1>3. effect \in Response /\ ok \in BOOLEAN
  BY <1>1 DEF ConsoleInv, ConsoleType
<1> HIDE DEF ok
<1>4. /\ console' \in Console /\ Len(console'.log) \in 1..MaxLog
      /\ ~console'.loading /\ console'.command = None
      /\ console'.log[Len(console'.log)].response = effect
  BY <1>1, <1>3, FinishStep
<1>5. /\ Commands!Agrees(q, effect)
      /\ \A k \in Keys \ disturbed : told[k] \in {Unknown, store[k]}
  BY <1>1 DEF ConsoleInv, EffectRight
<1>6. known' = [k \in Keys |-> IF k \in disturbed THEN Unknown ELSE told[k]]
  BY DEF Commands!Answered, Commands!Learn, Told
<1> HIDE DEF told
<1>7. ConsoleInv'
  BY <1>1, <1>2, <1>4, <1>5, <1>6, FinishInv DEF ConsoleInv, ConsoleType
<1> QED
  BY <1>4, <1>5, <1>7

LEMMA GivenUpType ==
  ASSUME ConsoleInv
  PROVE  Commands!GivenUp \subseteq Commands!Changes
BY DEF ConsoleInv, ConsoleType, Commands!GivenUp

LEMMA FailedStep ==
  ASSUME ConsoleInv, Commands!Failed
  PROVE  /\ ConsoleInv' /\ console'.command = None
         /\ Len(console'.log) \in 1..MaxLog
         /\ console'.log[Len(console'.log)].response = Error
<1> DEFINE q == console.command
           told == [k \in Keys |->
                      IF q \in Commands!Changes /\ q.key = k THEN Unknown ELSE known[k]]
<1>1. /\ q # None /\ Commands!Finish(FALSE, Error)
      /\ late' = Commands!GivenUp /\ disturbed' = disturbed
  BY DEF Commands!Failed
<1>2. effect' = None /\ store' = store
  BY <1>1 DEF Commands!Finish
<1>3. /\ console' \in Console /\ Len(console'.log) \in 1..MaxLog
      /\ ~console'.loading /\ console'.command = None
      /\ console'.log[Len(console'.log)].response = Error
  BY <1>1, FinishStep
<1>4. \A k \in Keys : told[k] \in {Unknown, store[k]}
  BY DEF ConsoleInv, KnownRight
<1>5. known' = [k \in Keys |-> IF k \in disturbed THEN Unknown ELSE told[k]]
  BY DEF Commands!Failed, Commands!Learn
<1> HIDE DEF told
<1>6. ConsoleInv'
  BY <1>1, <1>2, <1>3, <1>4, <1>5, FinishInv, GivenUpType
<1> QED
  BY <1>3, <1>6

LEMMA ExitStep ==
  ASSUME ConsoleInv, Commands!Exit
  PROVE  ConsoleInv' /\ console'.log = <<>>
<1>1. /\ console' = Commands!Blank /\ effect' = None /\ late' = Commands!GivenUp
      /\ known' = [k \in Keys |-> Unknown] /\ disturbed' = {} /\ store' = store
  BY DEF Commands!Exit
<1>2. /\ console' \in Console /\ console'.log = <<>> /\ Len(console'.log) <= MaxLog
      /\ ~console'.loading /\ console'.command = None
  <2>1. <<>> \in Seq(Entry) /\ Len(<<>>) <= MaxLog
    BY ConsoleAssumption
  <2> QED
    BY <1>1, <2>1 DEF Commands!Blank, Console
<1>3. ConsoleType'
  BY <1>1, <1>2, GivenUpType DEF ConsoleInv, ConsoleType
<1>4. KnownRight' /\ EffectRight'
  BY <1>1 DEF KnownRight, EffectRight
<1> QED
  BY <1>2, <1>3, <1>4 DEF ConsoleInv

LEMMA ConsoleStep ==
  ASSUME ConsoleInv, [Next]_shellVars
  PROVE  ConsoleInv'
<1>1. ASSUME UNCHANGED consoleVars PROVE ConsoleInv'
  <2>1. ConsoleType'
    BY <1>1 DEF ConsoleInv, ConsoleType, consoleVars
  <2>2. KnownRight'
    BY <1>1 DEF ConsoleInv, KnownRight, consoleVars
  <2>3. EffectRight'
    BY <1>1 DEF ConsoleInv, EffectRight, Told, Commands!Agrees, consoleVars
  <2> QED
    BY <2>1, <2>2, <2>3 DEF ConsoleInv
<1>2. CASE Commands!PageNext
  BY <1>2, RunLocalStep, RunRemoteStep, AnsweredStep, FailedStep DEF Commands!PageNext
<1>3. \/ UNCHANGED consoleVars \/ Commands!PageNext \/ Commands!ServerNext \/ Commands!Exit
  <2>1. ASSUME NEW href \in NAV_ITEMS, Navigate(href)
        PROVE  UNCHANGED consoleVars \/ Commands!Exit
    BY <2>1 DEF Navigate
  <2>2. CASE CommandsStep(Commands!PageNext \/ Commands!ServerNext)
    BY <2>2 DEF CommandsStep
  <2>3. ASSUME \/ PollingStep(Polling!Next)
               \/ ChatStep(Chat!PageNext \/ Chat!ServiceNext)
               \/ BenchmarksStep(Benchmarks!PageNext \/ Benchmarks!BackendNext)
               \/ SettingsStep(Settings!PageNext)
        PROVE  UNCHANGED consoleVars
    BY <2>3 DEF PollingStep, ChatStep, BenchmarksStep, SettingsStep
  <2>4. CASE UNCHANGED shellVars
    BY <2>4 DEF shellVars
  <2> QED
    BY <2>1, <2>2, <2>3, <2>4 DEF Next
<1> QED
  BY <1>1, <1>2, <1>3, ConsoleServer, ExitStep

LEMMA ConsoleInvariant == Spec => []ConsoleInv
<1>1. Init => ConsoleInv
  <2> SUFFICES ASSUME Init PROVE ConsoleInv
    OBVIOUS
  <2>1. /\ console = Commands!Blank /\ effect = None /\ late = {}
        /\ known = [k \in Keys |-> Unknown] /\ disturbed = {}
        /\ store \in [Keys -> Values \cup {Absent}]
    BY DEF Init, Commands!Init
  <2>2. <<>> \in Seq(Entry) /\ Len(<<>>) <= MaxLog
    BY ConsoleAssumption
  <2>3. ConsoleType
    BY <2>1, <2>2 DEF Commands!Blank, Console, ConsoleType
  <2>4. KnownRight /\ EffectRight
    BY <2>1 DEF KnownRight, EffectRight
  <2> QED
    BY <2>3, <2>4 DEF ConsoleInv
<1>2. ConsoleInv /\ [Next]_shellVars => ConsoleInv'
  BY ConsoleStep
<1> QED
  BY <1>1, <1>2, PTL DEF Spec

\* An answer of the log agrees with the entries before it, except about keys that
\* others, the clock or a command reported as failed have changed (run's two
\* continuations), for every set of keys and values and any number of late changes.
THEOREM LogRight == Spec => LogConsistent
<1> DEFINE Last(s) == s[Len(s)]
<1>1. ASSUME ConsoleInv, [Next]_shellVars, NEW q \in Commands!Remote,
             console.command = q, console'.command = None, Commands!Printed' # <<>>,
             Commands!Printed'[Len(Commands!Printed')].text # Error
      PROVE  Commands!Agrees(q, Commands!Printed'[Len(Commands!Printed')].text)
  <2> DEFINE log == console'.log
  <2>1. q # None
    BY NoneAssumption
  <2>2. CASE Commands!Answered \/ Commands!Failed
    <3>1. /\ ConsoleInv' /\ Len(log) \in 1..MaxLog
          /\ \/ log[Len(log)].response = Error
             \/ log[Len(log)].response = effect /\ Commands!Agrees(q, effect)
      BY <1>1, <2>2, AnsweredStep, FailedStep
    <3>2. log \in Seq(Entry)
      BY <3>1 DEF ConsoleInv, ConsoleType, Console
    <3>3. Len(Commands!Printed') = Len(log)
      <4>1. DOMAIN log = 1..Len(log)
        BY <3>2
      <4>2. Commands!Printed' =
              [i \in DOMAIN log |-> [text |-> log[i].response,
                                     color |-> IF log[i].ok THEN "green" ELSE "red"]]
        BY DEF Commands!Printed
      <4>3. DOMAIN Commands!Printed' = 1..Len(log) /\ Len(log) \in Nat
        BY <3>2, <4>1, <4>2
      <4> QED
        BY <4>3
    <3>4. Commands!Printed'[Len(log)].text = log[Len(log)].response
      BY <3>1, <3>2 DEF Commands!Printed
    <3> QED
      BY <1>1, <3>1, <3>3, <3>4
  <2>3. CASE Commands!Exit
    <3>1. console'.log = <<>>
      BY <1>1, <2>3, ExitStep
    <3>2. Commands!Printed' = <<>>
      BY <3>1 DEF Commands!Printed
    <3> QED
      BY <1>1, <3>2
  <2>4. ~(\E line \in Commands!Local : Commands!RunLocal(line))
    BY <1>1, <2>1, RunLocalStep
  <2>5. ~(\E line \in Commands!Remote : Commands!RunRemote(line))
    BY <1>1, RunRemoteStep
  <2>6. ~Commands!ServerNext /\ ~UNCHANGED consoleVars
    BY <1>1, <2>1 DEF Commands!ServerNext, Commands!Execute, Commands!ExecuteLate,
                      Commands!Other, consoleVars
  <2>7. \/ UNCHANGED consoleVars \/ Commands!PageNext \/ Commands!ServerNext \/ Commands!Exit
    BY <1>1 DEF Next, Navigate, PollingStep, CommandsStep, ChatStep, BenchmarksStep,
                SettingsStep, shellVars
  <2> QED
    BY <2>2, <2>3, <2>4, <2>5, <2>6, <2>7 DEF Commands!PageNext
<1>2. ConsoleInv /\ [Next]_shellVars =>
        [\A q \in Commands!Remote :
           console.command = q /\ console'.command = None /\ Commands!Printed' # <<>>
             /\ Commands!Printed'[Len(Commands!Printed')].text # Error
           => Commands!Agrees(q, Commands!Printed'[Len(Commands!Printed')].text)]_Commands!consoleVars
  BY <1>1
<1> QED
  BY <1>2, ConsoleInvariant, PTL DEF Spec, LogConsistent, Commands!LogConsistent

-----------------------------------------------------------------------------
\* The benchmarks page.

\* What runs in the backend is what was given up and what the form waits for, which
\* keeps the button disabled.
BenchInv ==
  /\ form \in [numOps : OPS_OPTIONS, loading : BOOLEAN, error : BOOLEAN,
               result : OPS_OPTIONS \cup {None}]
  /\ request \in Benchmark \cup {None}
  /\ running \in Nat /\ givenUp \in Nat
  /\ request # None => form.loading
  /\ running = givenUp + (IF request # None /\ ~request.done THEN 1 ELSE 0)

LEMMA BenchStep ==
  ASSUME BenchInv, Benchmarks!PageNext \/ Benchmarks!BackendNext \/ Benchmarks!Exit
  PROVE  BenchInv'
<1> USE NoneAssumption DEF BenchInv, Benchmark
<1>1. CASE \E n \in OPS_OPTIONS : Benchmarks!Slide(n)
  BY <1>1 DEF Benchmarks!Slide
<1>2. CASE Benchmarks!Run
  <2>1. request = None /\ ~form.loading
    BY <1>2 DEF Benchmarks!Run, Benchmarks!MayRun
  <2>2. request' = [num_ops |-> form.numOps, done |-> FALSE]
    BY <1>2 DEF Benchmarks!Run
  <2>3. request' \in Benchmark /\ ~request'.done
    BY <2>2
  <2>4. request' # None
    BY <2>3
  <2>5. running' = running + 1 /\ givenUp' = givenUp
    BY <1>2 DEF Benchmarks!Run
  <2>6. /\ form' \in [numOps : OPS_OPTIONS, loading : BOOLEAN, error : BOOLEAN,
                      result : OPS_OPTIONS \cup {None}]
        /\ form'.loading
    BY <1>2 DEF Benchmarks!Run
  <2> QED
    BY <2>1, <2>3, <2>4, <2>5, <2>6
<1>3. CASE Benchmarks!Answered
  <2>1. request # None /\ request.done /\ request \in Benchmark
    BY <1>3 DEF Benchmarks!Answered
  <2>2. /\ request' = None /\ running' = running /\ givenUp' = givenUp
        /\ form' = [form EXCEPT !.loading = FALSE, !.result = request.num_ops]
    BY <1>3 DEF Benchmarks!Answered
  <2>3. request.num_ops \in OPS_OPTIONS
    BY <2>1
  <2>4. form' \in [numOps : OPS_OPTIONS, loading : BOOLEAN, error : BOOLEAN,
                  result : OPS_OPTIONS \cup {None}]
    BY <2>2, <2>3
  <2> QED
    BY <2>1, <2>2, <2>4
<1>4. CASE Benchmarks!Failed
  <2>1. /\ request' = None /\ running' = running
        /\ givenUp' = givenUp + IF request # None /\ ~request.done THEN 1 ELSE 0
        /\ form' = [form EXCEPT !.loading = FALSE, !.error = TRUE]
    BY <1>4 DEF Benchmarks!Failed, Benchmarks!Abandoned
  <2>2. form' \in [numOps : OPS_OPTIONS, loading : BOOLEAN, error : BOOLEAN,
                  result : OPS_OPTIONS \cup {None}]
    BY <2>1
  <2>3. givenUp' \in Nat /\ running' = givenUp'
    BY <2>1
  <2> QED
    BY <2>1, <2>2, <2>3
<1>5. CASE Benchmarks!RunEnds
  <2>1. request \in Benchmark /\ request # None /\ ~request.done
    BY <1>5 DEF Benchmarks!RunEnds
  <2>2. /\ request' = [request EXCEPT !.done = TRUE]
        /\ running' = running - 1 /\ UNCHANGED <<form, givenUp>>
    BY <1>5 DEF Benchmarks!RunEnds
  <2>3. request' \in Benchmark /\ request'.done
    BY <2>1, <2>2
  <2>4. running = givenUp + 1
    BY <2>1
  <2>5. form'.loading
    BY <2>1, <2>2
  <2> QED
    BY <2>2, <2>3, <2>4, <2>5
<1>6. CASE Benchmarks!LostRunEnds
  BY <1>6 DEF Benchmarks!LostRunEnds
<1>7. CASE Benchmarks!Exit
  BY <1>7 DEF Benchmarks!Exit, Benchmarks!Abandoned, Benchmarks!Blank
<1> QED
  BY <1>1, <1>2, <1>3, <1>4, <1>5, <1>6, <1>7
  DEF Benchmarks!PageNext, Benchmarks!BackendNext

\* A run overlaps only with runs the page has given up (handleRun; axios's timeout).
THEOREM OverlapsRight == Spec => []OverlapsGivenUp
<1>1. Init => BenchInv
  <2> SUFFICES ASSUME Init PROVE BenchInv
    OBVIOUS
  <2>1. PICK n \in OPS_OPTIONS : form = Benchmarks!Blank(n)
    BY DEF Init, Benchmarks!Init
  <2>2. form \in [numOps : OPS_OPTIONS, loading : BOOLEAN, error : BOOLEAN,
                 result : OPS_OPTIONS \cup {None}]
    BY <2>1 DEF Benchmarks!Blank
  <2> QED
    BY <2>2 DEF Init, Benchmarks!Init, BenchInv
<1>2. BenchInv /\ [Next]_shellVars => BenchInv'
  <2> SUFFICES ASSUME BenchInv, [Next]_shellVars PROVE BenchInv'
    OBVIOUS
  <2>1. ASSUME UNCHANGED benchVars PROVE BenchInv'
    BY <2>1 DEF BenchInv, benchVars
  <2>2. \/ UNCHANGED benchVars
        \/ Benchmarks!PageNext \/ Benchmarks!BackendNext \/ Benchmarks!Exit
    BY DEF Next, Navigate, PollingStep, CommandsStep, ChatStep, BenchmarksStep,
           SettingsStep, shellVars
  <2> QED
    BY <2>1, <2>2, BenchStep
<1>3. BenchInv => OverlapsGivenUp
  BY DEF BenchInv, OverlapsGivenUp, Benchmarks!OverlapsGivenUp
<1> QED
  BY <1>1, <1>2, <1>3, PTL DEF Spec

-----------------------------------------------------------------------------
\* The AI page.

Side(n) == IF n % 2 = 1 THEN "user" ELSE "assistant"
Talk == {s \in Seq(Chat!Message) : \A i \in 1..Len(s) : s[i].role = Side(i)}

\* A conversation alternates, and ends with a question while it waits; the service
\* has a question and what was said before it.
ChatInv ==
  /\ chat \in [messages : Talk, loading : BOOLEAN]
  /\ chat.loading <=> Len(chat.messages) % 2 = 1
  /\ chat.loading <=> ask # None
  /\ ask \in Ask \cup {None}
  /\ ask # None => /\ ask.message.role = "user"
                   /\ ask.history \in Talk /\ Len(ask.history) % 2 = 0
  /\ prompt \in Talk /\ (prompt # <<>> => Len(prompt) % 2 = 1)

LEMMA Parity ==
  ASSUME NEW n \in Nat
  PROVE  /\ n % 2 = 0 => (n + 1) % 2 = 1 /\ Side(n + 1) = "user"
         /\ n % 2 = 1 => (n + 1) % 2 = 0 /\ Side(n + 1) = "assistant"
<1>1. (n % 2 = 0 => (n + 1) % 2 = 1) /\ (n % 2 = 1 => (n + 1) % 2 = 0)
  OBVIOUS
<1> QED
  BY <1>1 DEF Side

\* A message on the right side continues a conversation.
LEMMA AppendTalk ==
  ASSUME NEW s \in Talk, NEW m \in Chat!Message, m.role = Side(Len(s) + 1)
  PROVE  Append(s, m) \in Talk /\ Len(Append(s, m)) = Len(s) + 1
<1>1. s \in Seq(Chat!Message)
  BY DEF Talk
<1>2. Append(s, m) \in Seq(Chat!Message) /\ Len(Append(s, m)) = Len(s) + 1
  BY <1>1
<1>3. \A i \in 1..Len(s) : Append(s, m)[i].role = Side(i)
  BY <1>1 DEF Talk
<1>4. Append(s, m)[Len(s) + 1].role = Side(Len(s) + 1)
  BY <1>1
<1>5. \A i \in 1..(Len(s) + 1) : i \in 1..Len(s) \/ i = Len(s) + 1
  BY <1>1
<1> QED
  BY <1>2, <1>3, <1>4, <1>5 DEF Talk

\* What history[-10:] leaves of a conversation that ends with an answer is one.
LEMMA LastTalk ==
  ASSUME NEW s \in Talk, Len(s) % 2 = 0
  PROVE  Chat!Last(s) \in Talk /\ Len(Chat!Last(s)) % 2 = 0
<1> DEFINE first == IF Len(s) <= Window THEN 1 ELSE Len(s) + 1 - Window
<1>1. s \in Seq(Chat!Message) /\ Len(s) \in Nat
  BY DEF Talk
<1>2. first \in 1..(Len(s) + 1) /\ first % 2 = 1
  <2>1. Window \in Nat \ {0} /\ Window % 2 = 0
    BY ChatAssumption
  <2>2. CASE Len(s) <= Window
    BY <1>1, <2>2
  <2>3. CASE Len(s) > Window
    <3>1. first = Len(s) + 1 - Window
      BY <1>1, <2>1, <2>3
    <3>2. ASSUME NEW n \in Nat, NEW w \in Nat, n % 2 = 0, w % 2 = 0, n > w
          PROVE  (n + 1 - w) % 2 = 1
      BY <3>2
    <3> HIDE DEF first
    <3> QED
      BY <1>1, <2>1, <2>3, <3>1, <3>2
  <2>4. Len(s) <= Window \/ Len(s) > Window
    BY <1>1, <2>1
  <2> HIDE DEF first
  <2> QED
    BY <2>2, <2>3, <2>4
<1> HIDE DEF first
<1>3. /\ SubSeq(s, first, Len(s)) \in Seq(Chat!Message)
      /\ Len(SubSeq(s, first, Len(s))) = Len(s) + 1 - first
  BY <1>1, <1>2
<1>4. (Len(s) + 1 - first) % 2 = 0
  BY <1>1, <1>2
<1>5. ASSUME NEW i \in 1..(Len(s) + 1 - first)
      PROVE  SubSeq(s, first, Len(s))[i].role = Side(i)
  <2>1. first + i - 1 \in 1..Len(s)
    BY <1>1, <1>2
  <2>2. SubSeq(s, first, Len(s))[i] = s[first + i - 1]
    BY <1>1, <1>2
  <2>3. (first + i - 1) % 2 = i % 2
    BY <1>1, <1>2
  <2> QED
    BY <2>1, <2>2, <2>3 DEF Talk, Side
<1>6. Chat!Last(s) = SubSeq(s, first, Len(s))
  BY DEF Chat!Last, first
<1> QED
  BY <1>3, <1>4, <1>5, <1>6 DEF Talk

LEMMA SendStep ==
  ASSUME ChatInv, NEW topic \in Chat!Topics, Chat!Send(topic)
  PROVE  ChatInv'
<1> DEFINE question == [role |-> "user", topic |-> topic]
<1>1. question \in Chat!Message /\ question.role = "user"
  BY DEF Chat!Message
<1> HIDE DEF question
<1>2. /\ chat.messages \in Talk /\ Len(chat.messages) \in Nat
      /\ Len(chat.messages) % 2 = 0
  BY DEF ChatInv, Talk, Chat!Send, Chat!MaySend
<1>3. question.role = Side(Len(chat.messages) + 1) /\ (Len(chat.messages) + 1) % 2 = 1
  BY <1>1, <1>2, Parity
<1>4. /\ Append(chat.messages, question) \in Talk
      /\ Len(Append(chat.messages, question)) = Len(chat.messages) + 1
  BY <1>1, <1>2, <1>3, AppendTalk
<1>5. /\ chat' = [messages |-> Append(chat.messages, question), loading |-> TRUE]
      /\ ask' = [message |-> question, history |-> chat.messages,
                 stage |-> "stats", raw |-> FALSE]
      /\ prompt' = prompt
  BY DEF Chat!Send, Chat!Sent, question
<1>6. chat.messages \in Seq(Chat!Message)
  BY <1>2 DEF Talk
<1>7. ask' \in Ask
  BY <1>1, <1>5, <1>6 DEF Ask
<1>8. ask' # None
  BY <1>7, NoneAssumption
<1> QED
  BY <1>1, <1>2, <1>3, <1>4, <1>5, <1>7, <1>8 DEF ChatInv

LEMMA ReplyStep ==
  ASSUME ChatInv, ask # None, Chat!Reply
  PROVE  ChatInv'
<1> DEFINE answer == [role |-> "assistant", topic |-> ask.message.topic]
<1>1. ask.message \in Chat!Message
  BY DEF ChatInv, Ask
<1>2. answer \in Chat!Message /\ answer.role = "assistant"
  BY <1>1 DEF Chat!Message
<1> HIDE DEF answer
<1>3. /\ chat.messages \in Talk /\ Len(chat.messages) \in Nat
      /\ Len(chat.messages) % 2 = 1
  BY DEF ChatInv, Talk
<1>4. answer.role = Side(Len(chat.messages) + 1) /\ (Len(chat.messages) + 1) % 2 = 0
  BY <1>2, <1>3, Parity
<1>5. /\ Append(chat.messages, answer) \in Talk
      /\ Len(Append(chat.messages, answer)) = Len(chat.messages) + 1
  BY <1>2, <1>3, <1>4, AppendTalk
<1>6. /\ chat' = [messages |-> Append(chat.messages, answer), loading |-> FALSE]
      /\ ask' = None /\ prompt' = prompt
  BY DEF Chat!Reply, answer, ChatInv
<1> QED
  BY <1>3, <1>4, <1>5, <1>6 DEF ChatInv

LEMMA ServiceStep ==
  ASSUME ChatInv, Chat!ServiceNext
  PROVE  ChatInv'
<1>1. ask # None /\ ask \in Ask
  BY DEF ChatInv, Chat!ServiceNext, Chat!AskStats, Chat!AskOpenAI, Chat!AskRules
<1>2. /\ ask' \in Ask /\ ask'.message = ask.message /\ ask'.history = ask.history
      /\ chat' = chat
  <2>1. CASE Chat!AskStats
    BY <1>1, <2>1 DEF Chat!AskStats, Ask
  <2>2. CASE Chat!AskOpenAI
    BY <1>1, <2>2 DEF Chat!AskOpenAI, Ask
  <2>3. CASE Chat!AskRules
    BY <1>1, <2>3 DEF Chat!AskRules, Ask
  <2> QED
    BY <2>1, <2>2, <2>3 DEF Chat!ServiceNext
<1>3. ask' # None
  BY <1>2, NoneAssumption
<1>4. prompt' \in Talk /\ (prompt' # <<>> => Len(prompt') % 2 = 1)
  <2>1. CASE Chat!AskOpenAI
    <3> DEFINE past == Chat!Last(ask.history)
    <3>1. past \in Talk /\ Len(past) % 2 = 0
      BY <1>1, LastTalk DEF ChatInv
    <3> HIDE DEF past
    <3>2. ask.message \in Chat!Message /\ ask.message.role = "user"
      BY <1>1 DEF ChatInv, Ask
    <3>3. Len(past) \in Nat
      BY <3>1 DEF Talk
    <3>4. ask.message.role = Side(Len(past) + 1) /\ (Len(past) + 1) % 2 = 1
      BY <3>1, <3>2, <3>3, Parity
    <3>5. /\ Append(past, ask.message) \in Talk
          /\ Len(Append(past, ask.message)) = Len(past) + 1
      BY <3>1, <3>2, <3>4, AppendTalk
    <3>6. prompt' = Append(past, ask.message)
      BY <2>1 DEF Chat!AskOpenAI, past
    <3> QED
      BY <3>4, <3>5, <3>6
  <2>2. CASE UNCHANGED prompt
    BY <2>2 DEF ChatInv
  <2> QED
    BY <2>1, <2>2 DEF Chat!ServiceNext, Chat!AskStats, Chat!AskRules
<1> QED
  BY <1>1, <1>2, <1>3, <1>4 DEF ChatInv

LEMMA NoTalk == <<>> \in Talk /\ Len(<<>>) % 2 = 0
BY DEF Talk

LEMMA ChatStepInv ==
  ASSUME ChatInv, Chat!PageNext \/ Chat!ServiceNext \/ Chat!Exit
  PROVE  ChatInv'
<1>1. CASE \E topic \in Chat!Topics : Chat!Send(topic)
  BY <1>1, SendStep
<1>2. CASE Chat!Answered \/ Chat!Failed
  BY <1>2, ReplyStep DEF Chat!Answered, Chat!Failed
<1>3. CASE Chat!InsightsSettle
  BY <1>3 DEF Chat!InsightsSettle, ChatInv
<1>4. CASE Chat!Exit
  BY <1>4, NoTalk DEF Chat!Exit, Chat!Blank, ChatInv
<1> QED
  BY <1>1, <1>2, <1>3, <1>4, ServiceStep DEF Chat!PageNext

LEMMA ChatInvariant == Spec => []ChatInv
<1>1. Init => ChatInv
  BY NoTalk DEF Init, Chat!Init, Chat!Blank, ChatInv
<1>2. ChatInv /\ [Next]_shellVars => ChatInv'
  <2> SUFFICES ASSUME ChatInv, [Next]_shellVars PROVE ChatInv'
    OBVIOUS
  <2>1. ASSUME UNCHANGED chatVars PROVE ChatInv'
    BY <2>1 DEF ChatInv, chatVars
  <2>2. \/ UNCHANGED chatVars
        \/ Chat!PageNext \/ Chat!ServiceNext \/ Chat!Exit
    BY DEF Next, Navigate, PollingStep, CommandsStep, ChatStep, BenchmarksStep,
           SettingsStep, shellVars
  <2> QED
    BY <2>1, <2>2, ChatStepInv
<1> QED
  BY <1>1, <1>2, PTL DEF Spec

\* Questions and answers alternate on the AI page, and only the last question may
\* wait (send), however long the conversation and whatever fails.
THEOREM ConversationRight == Spec => []Conversation
<1>1. ChatInv => Conversation
  <2> SUFFICES ASSUME ChatInv PROVE Conversation
    OBVIOUS
  <2>1. /\ chat.messages \in Seq(Chat!Message)
        /\ \A i \in 1..Len(chat.messages) : chat.messages[i].role = Side(i)
    BY DEF ChatInv, Talk
  <2>2. /\ DOMAIN Chat!Screen.bubbles = 1..Len(chat.messages)
        /\ Len(Chat!Screen.bubbles) = Len(chat.messages)
    <3>1. Chat!Screen.bubbles = [i \in 1..Len(chat.messages) |->
            [role |-> IF chat.messages[i].role = "user" THEN "user" ELSE "assistant"]]
      BY <2>1 DEF Chat!Screen
    <3>2. DOMAIN Chat!Screen.bubbles = 1..Len(chat.messages)
      BY <3>1
    <3>3. Len(chat.messages) \in Nat
      BY <2>1
    <3> QED
      BY <3>2, <3>3
  <2>3. \A i \in 1..Len(chat.messages) : Chat!Screen.bubbles[i].role = Side(i)
    BY <2>1 DEF Chat!Screen, Side
  <2>4. Chat!Alternate(Chat!Screen.bubbles)
    BY <2>2, <2>3 DEF Chat!Alternate, Side
  <2>5. Chat!Screen.thinking = chat.loading
    BY DEF Chat!Screen
  <2> QED
    BY <2>2, <2>4, <2>5 DEF ChatInv, Conversation, Chat!Conversation
<1> QED
  BY <1>1, ChatInvariant, PTL

\* OpenAI is sent a whole conversation (chat, history[-10:]), for every even window.
THEOREM PromptRight == Spec => []PromptWhole
<1>1. ChatInv => PromptWhole
  BY DEF ChatInv, Talk, Side, PromptWhole, Chat!PromptWhole, Chat!Alternate
<1> QED
  BY <1>1, ChatInvariant, PTL

-----------------------------------------------------------------------------
\* Types.

\* A question is only sent if its answer will fit, too.
ChatFits ==
  /\ insights \in {"loading", "shown", "failed"}
  /\ Len(chat.messages) + (IF chat.loading THEN 1 ELSE 0) <= MaxMessages

LEMMA ChatFitsStep ==
  ASSUME ChatInv, ChatInv', ChatFits,
         Chat!PageNext \/ Chat!ServiceNext \/ Chat!Exit \/ UNCHANGED chatVars
  PROVE  ChatFits'
<1>1. /\ chat.messages \in Seq(Chat!Message) /\ Len(chat.messages) \in Nat
      /\ chat.loading \in BOOLEAN
  <2>1. chat.messages \in Talk /\ chat.loading \in BOOLEAN
    BY DEF ChatInv
  <2>2. chat.messages \in Seq(Chat!Message)
    BY <2>1 DEF Talk
  <2> QED
    BY <2>1, <2>2
<1>2. MaxMessages \in Nat
  BY ChatAssumption
<1>3. ASSUME NEW topic \in Chat!Topics, Chat!Send(topic) PROVE ChatFits'
  <2> DEFINE question == [role |-> "user", topic |-> topic]
  <2>1. Len(chat.messages) + 2 <= MaxMessages /\ insights' = insights
    BY <1>3 DEF Chat!Send, Chat!MaySend
  <2>2. chat' = [messages |-> Append(chat.messages, question), loading |-> TRUE]
    BY <1>3 DEF Chat!Send
  <2>3. question \in Chat!Message
    BY DEF Chat!Message
  <2> HIDE DEF question
  <2>4. Len(chat'.messages) = Len(chat.messages) + 1 /\ chat'.loading
    BY <1>1, <2>2, <2>3
  <2> QED
    BY <1>1, <1>2, <2>1, <2>4 DEF ChatFits
<1>4. CASE Chat!Answered \/ Chat!Failed
  <2> DEFINE answer == [role |-> "assistant", topic |-> ask.message.topic]
  <2>1. ask # None /\ Chat!Reply
    BY <1>4 DEF Chat!Answered, Chat!Failed
  <2>2. chat.loading /\ ask \in Ask
    BY <2>1 DEF ChatInv
  <2>3. answer \in Chat!Message
    BY <2>2 DEF Ask, Chat!Message
  <2>4. /\ chat' = [messages |-> Append(chat.messages, answer), loading |-> FALSE]
        /\ insights' = insights
    BY <2>1 DEF Chat!Reply, ChatInv
  <2> HIDE DEF answer
  <2>5. Len(chat'.messages) = Len(chat.messages) + 1 /\ ~chat'.loading
    BY <1>1, <2>3, <2>4
  <2> QED
    BY <1>1, <1>2, <2>2, <2>4, <2>5 DEF ChatFits
<1>5. CASE Chat!InsightsSettle \/ Chat!ServiceNext \/ UNCHANGED chatVars
  <2>1. chat' = chat /\ insights' \in {"loading", "shown", "failed"}
    BY <1>5 DEF Chat!InsightsSettle, Chat!ServiceNext, Chat!AskStats, Chat!AskOpenAI,
                Chat!AskRules, chatVars, ChatFits
  <2> QED
    BY <2>1 DEF ChatFits
<1>6. CASE Chat!Exit
  <2>1. chat'.messages = <<>> /\ ~chat'.loading /\ insights' = "loading"
    BY <1>6 DEF Chat!Exit, Chat!Blank
  <2>2. Len(<<>>) + 0 <= MaxMessages
    BY <1>2
  <2> QED
    BY <2>1, <2>2 DEF ChatFits
<1> QED
  BY <1>3, <1>4, <1>5, <1>6 DEF Chat!PageNext

\* The pages' variables keep their types: no history, log or conversation outgrows
\* its bound, no removed page awaits a poll, and what is given up or learnt in the
\* console is of the commands that exist (Push, run, send).
THEOREM AppTypeCorrect == Spec => []AppTypeOK
<1>1. Init => ChatFits
  <2> SUFFICES ASSUME Init PROVE ChatFits
    OBVIOUS
  <2>1. chat.messages = <<>> /\ ~chat.loading /\ insights = "loading"
    BY DEF Init, Chat!Init, Chat!Blank
  <2>2. Len(<<>>) + 0 <= MaxMessages
    BY ChatAssumption
  <2> QED
    BY <2>1, <2>2 DEF ChatFits
<1>2. ChatInv /\ ChatInv' /\ ChatFits /\ [Next]_shellVars => ChatFits'
  <2> SUFFICES ASSUME ChatInv, ChatInv', ChatFits, [Next]_shellVars PROVE ChatFits'
    OBVIOUS
  <2>1. Chat!PageNext \/ Chat!ServiceNext \/ Chat!Exit \/ UNCHANGED chatVars
    BY DEF Next, Navigate, PollingStep, CommandsStep, ChatStep, BenchmarksStep,
           SettingsStep, shellVars
  <2> QED
    BY <2>1, ChatFitsStep
<1>3. PollInv /\ TimersMatchPage => pathname \in NAV_ITEMS /\ Polling!PollingTypeOK
  <2> SUFFICES ASSUME PollInv, TimersMatchPage
               PROVE  pathname \in NAV_ITEMS /\ Polling!PollingTypeOK
    OBVIOUS
  <2>1. timers \subseteq Polling!PollingPages
    BY DEF TimersMatchPage, Polling!TimersMatchPage, Polling!PollingPages
  <2> QED
    BY <2>1 DEF PollInv, View, Longest, Page, Polling!PollingTypeOK
<1>4. ConsoleInv => Commands!CommandsTypeOK
  BY DEF ConsoleInv, ConsoleType, Commands!CommandsTypeOK
<1>5. ChatInv /\ ChatFits => Chat!ChatTypeOK
  <2> SUFFICES ASSUME ChatInv, ChatFits PROVE Chat!ChatTypeOK
    OBVIOUS
  <2>1. chat.messages \in Seq(Chat!Message) /\ Len(chat.messages) \in Nat
    <3>1. chat.messages \in Talk
      BY DEF ChatInv
    <3>2. chat.messages \in Seq(Chat!Message)
      BY <3>1 DEF Talk
    <3> QED
      BY <3>2
  <2>2. Len(chat.messages) <= MaxMessages
    <3>1. MaxMessages \in Nat
      BY ChatAssumption
    <3> DEFINE n == Len(chat.messages)
               more == IF chat.loading THEN 1 ELSE 0
    <3>2. n \in Nat /\ more \in Nat /\ n + more <= MaxMessages
      BY <2>1 DEF ChatFits
    <3> HIDE DEF n, more
    <3>3. n <= MaxMessages
      BY <3>1, <3>2
    <3> QED
      BY <3>3 DEF n
  <2>3. ask # None => ask.stage \in {"stats", "openai", "rules", "reply", "error", "unbound"}
    <3>1. ask # None => ask \in Ask
      BY DEF ChatInv
    <3> QED
      BY <3>1 DEF Ask
  <2> QED
    BY <2>1, <2>2, <2>3 DEF ChatFits, Chat!ChatTypeOK
<1>6. pathname \in NAV_ITEMS /\ Polling!PollingTypeOK /\ Commands!CommandsTypeOK
        /\ Chat!ChatTypeOK => AppTypeOK
  BY DEF AppTypeOK
<1> QED
  BY <1>1, <1>2, <1>3, <1>4, <1>5, <1>6,
     PollInvariant, TimersRight, ConsoleInvariant, ChatInvariant, PTL DEF Spec
=============================================================================
