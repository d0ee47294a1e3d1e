---------------------------- MODULE CommandsPage ----------------------------
(***************************************************************************)
(* The command console: a line is parsed in the page and becomes at most   *)
(* one request; the log gets one entry per line.  As on the other pages a  *)
(* command that fails for the page may take effect later.  Of a log entry  *)
(* the response is kept.                                                   *)
(***************************************************************************)
EXTENDS Sequences, FiniteSets, Naturals

CONSTANTS
  Keys, Values,
  MaxLog,   \* entries the log keeps
  MaxLate,  \* bound on the changes given up and not in effect
  Absent,   \* no value
  Ok,       \* "OK", "1"
  Error,    \* any other error
  Unknown,  \* a value the user cannot know
  None

VARIABLES
  console,  \* the page: log, loading, hint, and the command under way
  store,    \* the value of each key
  effect,   \* the result of the command under way, once it is in effect
  late,     \* changes that were given up and are not in effect yet
  known,    \* history: what the log says of each key
  disturbed \* history: the keys changed by others during this command

consoleVars == <<console, store, effect, late, known, disturbed>>

Service == INSTANCE CacheService WITH Calls <- {}, Menu <- {}, Exception <- Error,
       request <- console, answer <- effect, broken <- {}

Changes == [cmd : {"set"}, key : Keys, value : Values] \cup [cmd : {"del"}, key : Keys]

\* What becomes a request.  "other" is STATS, and GET without a key, which the
\* route of KEYS answers; DEL without a key is refused by every route.
Remote ==
  Changes \cup [cmd : {"get"}, key : Keys] \cup [cmd : {"keys", "other", "refused"}]

\* What is answered in the page: HELP, CLEAR, SET without a value, anything else.
Local == [cmd : {"help", "clear", "usage", "unknown"}]

Blank == [log |-> <<>>, loading |-> FALSE, hint |-> FALSE, command |-> None]

Init ==
  /\ console = Blank
  /\ store \in [Keys -> Values \cup {Absent}]
  /\ effect = None /\ late = {}
  /\ known = [k \in Keys |-> Unknown] /\ disturbed = {}

-----------------------------------------------------------------------------
\* The server, and its other clients.

Disturb(k) ==
  /\ known' = [known EXCEPT ![k] = Unknown]
  /\ disturbed' = disturbed \cup {k}

Execute ==
  /\ console.command # None /\ console.command.cmd # "refused" /\ effect = None
  /\ effect' = Service!ResultOf(console.command)
  /\ store' = Service!Stored(console.command)
  /\ UNCHANGED <<console, late, known, disturbed>>

ExecuteLate(q) ==
  /\ q \in late /\ late' = late \ {q}
  /\ store' = Service!Stored(q)
  /\ Disturb(q.key)
  /\ UNCHANGED <<console, effect>>

Other(k, v) ==
  /\ store[k] # v
  /\ store' = [store EXCEPT ![k] = v]
  /\ Disturb(k)
  /\ UNCHANGED <<console, effect, late>>

-----------------------------------------------------------------------------
\* Leaving the page leaves the command that is under way to the server.
GivenUp ==
  IF console.command \in Changes /\ effect = None THEN late \cup {console.command} ELSE late

Exit ==
  /\ console' = Blank /\ effect' = None /\ late' = GivenUp
  /\ known' = [k \in Keys |-> Unknown] /\ disturbed' = {}
  /\ UNCHANGED store

\* Fault: prev.slice(-200).
LoggedLonger(log, entry) ==
  Append(IF Len(log) <= MaxLog THEN log ELSE SubSeq(log, Len(log) + 1 - MaxLog, Len(log)), entry)

\* prev.slice(-199) and the new entry.
Logged(log, entry) ==
  Append(IF Len(log) < MaxLog THEN log ELSE SubSeq(log, Len(log) + 2 - MaxLog, Len(log)), entry)

\* Enter, and the button, which a spinner replaces; the field itself may be
\* filled at any time, from the quick reference too.
MayRun == ~console.loading

\* run, for a line without a request: it does not await.
RunLocal(line) ==
  /\ MayRun
  /\ console' =
       [console EXCEPT
          !.hint = (line.cmd = "unknown"),
          !.log = IF line.cmd = "clear" THEN <<>>
                  ELSE Logged(@, [ok |-> line.cmd = "help", response |-> None])]
  /\ UNCHANGED <<store, effect, late, known, disturbed>>

\* run, for the others, up to its await ...
RunRemote(line) ==
  /\ MayRun /\ (line \in Changes => Cardinality(late) < MaxLate)
  /\ console' = [console EXCEPT !.loading = TRUE, !.hint = FALSE, !.command = line]
  /\ effect' = None /\ disturbed' = {}
  /\ UNCHANGED <<store, late, known>>

\* ... and from there on.
Finish(ok, response) ==
  /\ console' = [console EXCEPT
       !.loading = FALSE, !.command = None,
       !.log = Logged(@, [ok |-> ok, response |-> response])]
  /\ effect' = None
  /\ UNCHANGED store

\* What the entry tells of the keys nobody else has changed meanwhile.
Learn(key(_)) ==
  known' = [k \in Keys |-> IF k \in disturbed THEN Unknown ELSE key(k)]

\* A key that is not there is answered by status 404, which is an error here.
Answered ==
  LET q == console.command
      told(k) ==
        CASE q.cmd = "keys" ->
               IF \E v \in Values : <<k, v>> \in effect.listing
                 THEN CHOOSE v \in Values : <<k, v>> \in effect.listing ELSE Absent
          [] q.cmd = "set" /\ q.key = k -> q.value
          [] q.cmd = "del" /\ q.key = k -> Absent
          [] q.cmd = "get" /\ q.key = k -> effect
          [] OTHER -> known[k]
  IN /\ q # None /\ effect # None
     /\ Finish(q.cmd # "get" \/ effect # Absent, effect)
     /\ Learn(told)
     /\ UNCHANGED <<late, disturbed>>

\* Fault: the error is caught and the command logged as done.
FailedAsDone ==
  LET q == console.command
      told(k) ==
        IF q.cmd \in {"set", "del"} /\ q.key = k
          THEN IF q.cmd = "set" THEN q.value ELSE Absent
          ELSE known[k]
  IN /\ q # None
     /\ Finish(TRUE, Error)
     /\ Learn(told)
     /\ late' = GivenUp
     /\ UNCHANGED disturbed

Failed ==
  LET q == console.command
      told(k) == IF q \in Changes /\ q.key = k THEN Unknown ELSE known[k]
  IN /\ q # None
     /\ Finish(FALSE, Error)
     /\ Learn(told)
     /\ late' = GivenUp
     /\ UNCHANGED disturbed

PageNext ==
  \/ \E line \in Local : RunLocal(line)
  \/ \E line \in Remote : RunRemote(line)
  \/ Answered \/ Failed

ServerNext ==
  \/ Execute
  \/ \E q \in Changes : ExecuteLate(q)
  \/ \E k \in Keys, v \in Values \cup {Absent} : Other(k, v)

\* What the page renders of its log: responses in green, and errors in red.
Printed ==
  [i \in DOMAIN console.log |->
     [text |-> console.log[i].response,
      color |-> IF console.log[i].ok THEN "green" ELSE "red"]]

-----------------------------------------------------------------------------
CommandsTypeOK ==
  /\ store \in [Keys -> Values \cup {Absent}]
  /\ late \subseteq Changes /\ disturbed \subseteq Keys
  /\ known \in [Keys -> Values \cup {Absent, Unknown}]
  /\ Len(console.log) <= MaxLog

\* Reading the log tells what is in the store: an answer says of a key what the
\* entries before it say, unless another client, the clock, or a command that was
\* reported as failed has changed it since.
Agrees(line, response) ==
  LET said(k) == known[k] \in Values IN
  CASE line.cmd = "get" -> known[line.key] \in {Unknown, response}
    [] line.cmd = "del" -> known[line.key] # Unknown => (response = Ok <=> said(line.key))
    [] line.cmd = "keys" ->
         \A k \in Keys : known[k] # Unknown =>
           (said(k) <=> \E v \in Values : <<k, v>> \in response.listing)
    [] OTHER -> TRUE

LogConsistent ==
  [][\A q \in Remote :
       console.command = q /\ console'.command = None /\ Printed' # <<>>
         /\ Printed'[Len(Printed')].text # Error
         => Agrees(q, Printed'[Len(Printed')].text)]_consoleVars
=============================================================================
