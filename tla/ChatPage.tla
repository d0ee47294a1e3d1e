------------------------------ MODULE ChatPage ------------------------------
(***************************************************************************)
(* The AI page and the backend service behind it.  A question becomes one  *)
(* request with the conversation so far; the service awaits the server's   *)
(* counters, then either OpenAI (external), with the last ten messages, or *)
(* answers by rules.  Questions are told apart by whether their rule reads *)
(* the counters.                                                           *)
(***************************************************************************)
EXTENDS Sequences, FiniteSets, Naturals

CONSTANTS
  MaxMessages, \* bound on the conversation
  Window,      \* the messages OpenAI is given (10)
  None

VARIABLES
  chat,       \* the page: messages, loading
  insights,   \* the panel: "loading", "shown", "failed"
  ask,        \* the request under way, and how far the service has come with it
  prompt      \* history: what OpenAI was sent last

chatVars == <<chat, insights, ask, prompt>>

Topics == {"counters", "other"}
Blank == [messages |-> <<>>, loading |-> FALSE]

Init ==
  /\ chat = Blank /\ insights = "loading" /\ ask = None
  /\ prompt = <<>>

-----------------------------------------------------------------------------
\* The service: chat, in ai_service.py.

\* get_stats returns, or raises CacheClientError; "raw" is bound only if it returns.
\* Whether OpenAI is configured is settled when the backend starts; it may start
\* again between two questions.
AskStats ==
  /\ ask # None /\ ask.stage = "stats"
  /\ \E reachable \in BOOLEAN, by \in {"openai", "rules"} :
       ask' = [ask EXCEPT !.stage = by, !.raw = reachable]
  /\ UNCHANGED <<chat, insights, prompt>>

\* history[-10:]
Last(history) ==
  SubSeq(history, IF Len(history) <= Window THEN 1 ELSE Len(history) + 1 - Window, Len(history))

\* OpenAI answers, or its call raises.
AskOpenAI ==
  /\ ask # None /\ ask.stage = "openai"
  /\ prompt' = Append(Last(ask.history), ask.message)
  /\ \E outcome \in {"reply", "error"} : ask' = [ask EXCEPT !.stage = outcome]
  /\ UNCHANGED <<chat, insights>>

\* By rules.  One that reads the counters fails if there are none: "raw" is unbound.
AskRules ==
  /\ ask # None /\ ask.stage = "rules"
  /\ ask' = [ask EXCEPT !.stage =
       IF ask.message.topic = "counters" /\ ~ask.raw THEN "unbound" ELSE "reply"]
  /\ UNCHANGED <<chat, insights, prompt>>

-----------------------------------------------------------------------------
\* Fault: the request outlives the page, and its answer finds the next one.
ExitAsking ==
  /\ chat' = Blank /\ insights' = "loading"
  /\ UNCHANGED <<ask, prompt>>

\* What the page awaits when the user leaves finds no page.
Exit ==
  /\ chat' = Blank /\ insights' = "loading" /\ ask' = None
  /\ prompt' = <<>>

\* The page asks for the insights when it is mounted.  get_insights answers without
\* counters too; a timeout, or an exception, fails.
InsightsSettle ==
  /\ insights = "loading"
  /\ insights' \in {"shown", "failed"}
  /\ UNCHANGED <<chat, ask, prompt>>

\* Fault: a message may be sent while another is under way.
MaySendAlways == Len(chat.messages) + 2 <= MaxMessages

MaySend == ~chat.loading /\ Len(chat.messages) + 2 <= MaxMessages

\* Fault: the history contains the question that is sent with it.
SentTwice(question) == Append(chat.messages, question)

\* The messages of this render: those before the question.
Sent(question) == chat.messages

\* send, up to its await: of what was typed, or of a suggested question.
Send(topic) ==
  LET question == [role |-> "user", topic |-> topic] IN
  /\ MaySend
  /\ chat' = [messages |-> Append(chat.messages, question), loading |-> TRUE]
  /\ ask' = [message |-> question, history |-> Sent(question),
             stage |-> "stats", raw |-> FALSE]
  /\ UNCHANGED <<insights, prompt>>

Reply ==
  /\ ask' = None
  /\ chat' = [chat EXCEPT !.loading = FALSE, !.messages = Append(@,
       [role |-> "assistant", topic |-> ask.message.topic])]
  /\ UNCHANGED <<insights, prompt>>

\* The reply (marked as GPT's if the backend has a key, whoever made it) ...
Answered == ask # None /\ ask.stage = "reply" /\ Reply

\* ... or "Sorry, ...": the route's status 500, or axios's timeout at any stage.
Failed == ask # None /\ Reply

PageNext ==
  \/ InsightsSettle
  \/ \E topic \in Topics : Send(topic)
  \/ Answered \/ Failed

ServiceNext == AskStats \/ AskOpenAI \/ AskRules

-----------------------------------------------------------------------------
\* What the page renders: each message on the side of its role, "Thinking..." beneath.
Screen ==
  [bubbles |-> [i \in DOMAIN chat.messages |->
      [role |-> IF chat.messages[i].role = "user" THEN "user" ELSE "assistant"]],
   thinking |-> chat.loading]

Message == [role : {"user", "assistant"}, topic : Topics]

Alternate(s) ==
  \A i \in DOMAIN s : s[i].role = IF i % 2 = 1 THEN "user" ELSE "assistant"

ChatTypeOK ==
  /\ chat.messages \in Seq(Message) /\ Len(chat.messages) <= MaxMessages
  /\ insights \in {"loading", "shown", "failed"}
  /\ ask # None => ask.stage \in {"stats", "openai", "rules", "reply", "error", "unbound"}

\* Every question on the page has one answer, below it, whatever fails and in
\* whatever visit; only the last may still wait for it.
Conversation ==
  /\ Alternate(Screen.bubbles)
  /\ Screen.thinking <=> Len(Screen.bubbles) % 2 = 1
  /\ Screen.thinking <=> ask # None

\* OpenAI is sent a whole conversation: question and answer in turn, from a
\* question on and up to the one to be answered, though the window cuts it.
PromptWhole == Alternate(prompt) /\ (prompt # <<>> => Len(prompt) % 2 = 1)

\* ai_service.chat: "Uses OpenAI GPT if configured, otherwise falls back to
\* rule-based."  So without OpenAI the service answers every question.
RulesAnswer == ask # None => ask.stage # "unbound"
=============================================================================
