------------------------------ MODULE AppShell ------------------------------
(***************************************************************************)
(* The frontend: the shell with its navigation, and the pages it shows one *)
(* at a time.  A page exists while its path is shown: leaving it runs the  *)
(* cleanup of its effects and forgets its state, and what it has asked of  *)
(* the backend goes on there without it.  What happens on the key explorer *)
(* is KeysPage's.                                                          *)
(***************************************************************************)
EXTENDS Naturals, Sequences, FiniteSets

CONSTANTS
  Polls, Figures, MAX_HISTORY, MAX,                          \* of PollingPage
  Keys, Values, MaxLog, MaxLate, Absent, Ok, Error, Unknown, \* of CommandsPage
  MaxMessages, Window,                                       \* of ChatPage
  OPS_OPTIONS, MaxRunning,                                   \* of BenchmarksPage
  Delay,                                                     \* of SettingsPage
  None

ASSUME PollingAssumption ==
  /\ {MAX_HISTORY, MAX} \subseteq Nat \ {0}
  /\ None \notin Figures \cup [sample : Figures \cup {None}]
ASSUME ConsoleAssumption ==
  /\ MaxLog \in Nat \ {0, 1} /\ MaxLate \in Nat
  /\ Absent \notin Values \cup {Ok}
ASSUME ChatAssumption ==
  /\ Window \in Nat \ {0} /\ Window % 2 = 0 \* it is 10
  /\ MaxMessages \in Nat
ASSUME BenchmarksAssumption == OPS_OPTIONS # {} /\ MaxRunning \in Nat
ASSUME SettingsAssumption == Delay \in Nat \ {0}

VARIABLES
  pathname,
  view, polls, timers, recovered,
  console, store, effect, late, known, disturbed,
  chat, insights, ask, prompt,
  form, request, running, givenUp,
  saved, timeouts

Polling == INSTANCE PollingPage
  WITH page <- IF pathname \in {"dashboard", "metrics", "clients"} THEN pathname ELSE None
Commands == INSTANCE CommandsPage
Chat == INSTANCE ChatPage
Benchmarks == INSTANCE BenchmarksPage
Settings == INSTANCE SettingsPage

pollingVars == <<view, polls, timers, recovered>>
consoleVars == <<console, store, effect, late, known, disturbed>>
chatVars == <<chat, insights, ask, prompt>>
benchVars == <<form, request, running, givenUp>>
settingsVars == <<saved, timeouts>>
shellVars == <<pathname, pollingVars, consoleVars, chatVars, benchVars, settingsVars>>

NAV_ITEMS ==
  {"dashboard", "keys", "metrics", "clients", "commands", "benchmarks", "ai", "settings"}

\* What the pages await of the backend.
Ask ==
  [message : Chat!Message, history : Seq(Chat!Message), raw : BOOLEAN,
   stage : {"stats", "openai", "rules", "reply", "error", "unbound"}]
Benchmark == [num_ops : OPS_OPTIONS, done : BOOLEAN]
Response == Values \cup {Absent, Ok} \cup [listing : SUBSET (Keys \X Values)]
ASSUME NoneAssumption ==
  None \notin NAV_ITEMS \cup Ask \cup Benchmark \cup Commands!Remote \cup Response

\* The root redirects to the dashboard.
Init ==
  /\ pathname = "dashboard"
  /\ Polling!Init /\ Commands!Init /\ Chat!Init /\ Benchmarks!Init /\ Settings!Init

\* A link of the navigation, or the browser's history.
Navigate(href) ==
  /\ href # pathname /\ pathname' = href
  /\ Polling!Show(href)
  /\ IF pathname = "commands" THEN Commands!Exit ELSE UNCHANGED consoleVars
  /\ IF pathname = "ai" THEN Chat!Exit ELSE UNCHANGED chatVars
  /\ IF pathname = "benchmarks" THEN Benchmarks!Exit ELSE UNCHANGED benchVars
  /\ IF pathname = "settings" THEN Settings!Exit ELSE UNCHANGED settingsVars

-----------------------------------------------------------------------------
\* The steps of the pages and of the backend on their behalf.  What a page that was
\* left has set going there shows only when the user comes back, so it waits for
\* that.

PollingStep(A) ==
  A /\ UNCHANGED <<pathname, consoleVars, chatVars, benchVars, settingsVars>>
CommandsStep(A) ==
  /\ pathname = "commands" /\ A
  /\ UNCHANGED <<pathname, pollingVars, chatVars, benchVars, settingsVars>>
ChatStep(A) ==
  /\ pathname = "ai" /\ A
  /\ UNCHANGED <<pathname, pollingVars, consoleVars, benchVars, settingsVars>>
BenchmarksStep(A) ==
  /\ pathname = "benchmarks" /\ A
  /\ UNCHANGED <<pathname, pollingVars, consoleVars, chatVars, settingsVars>>
SettingsStep(A) ==
  /\ pathname = "settings" /\ A
  /\ UNCHANGED <<pathname, pollingVars, consoleVars, chatVars, benchVars>>

Next ==
  \/ \E href \in NAV_ITEMS : Navigate(href)
  \/ PollingStep(Polling!Next)
  \/ CommandsStep(Commands!PageNext \/ Commands!ServerNext)
  \/ ChatStep(Chat!PageNext \/ Chat!ServiceNext)
  \/ BenchmarksStep(Benchmarks!PageNext \/ Benchmarks!BackendNext)
  \/ SettingsStep(Settings!PageNext)

Spec == Init /\ [][Next]_shellVars

\* Timers fire, answers are handled when they have come, and axios gives up a
\* request after 30 seconds; the backend owes an answer only once it has recovered.
FairSpec ==
  /\ Spec
  /\ \A p \in Polls :
       /\ WF_shellVars(PollingStep(Polling!Settle(p)))
       /\ WF_shellVars(PollingStep(Polling!Tick(p)))
       /\ WF_shellVars(PollingStep(recovered /\ Polling!Serve(p)))
  /\ WF_shellVars(CommandsStep(Commands!Answered \/ Commands!Failed))
  /\ WF_shellVars(ChatStep(Chat!Answered \/ Chat!Failed))
  /\ WF_shellVars(BenchmarksStep(Benchmarks!Answered \/ Benchmarks!Failed))
  /\ WF_shellVars(SettingsStep(Settings!Tick))

-----------------------------------------------------------------------------
\* The variables of each page, with the bounds of its histories and its log.
AppTypeOK ==
  /\ pathname \in NAV_ITEMS
  /\ Polling!PollingTypeOK /\ Commands!CommandsTypeOK /\ Chat!ChatTypeOK

\* What PollingPage states, of whichever page is shown.
CardsMatchCharts == Polling!CardsMatchCharts
TimersMatchPage == Polling!TimersMatchPage
PageShown == Polling!PageShown
AlertClears == Polling!AlertClears

\* What CommandsPage states.
LogConsistent == Commands!LogConsistent

\* What ChatPage states.
Conversation == Chat!Conversation
PromptWhole == Chat!PromptWhole
RulesAnswer == Chat!RulesAnswer

\* What BenchmarksPage states.
OverlapsGivenUp == Benchmarks!OverlapsGivenUp
OneBenchmark == Benchmarks!OneBenchmark

\* A page that waits for an answer, and disables its button or takes no line until
\* then, does not wait for ever, though the backend or the server may be dead; and
\* the message of the settings goes, however often they are saved meanwhile.
Waiting == console.loading \/ chat.loading \/ form.loading
WaitingEnds == (Waiting ~> ~Waiting) /\ Settings!MessageGoes
=============================================================================
