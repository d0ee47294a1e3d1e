---------------------------- MODULE CacheClient ----------------------------
(***************************************************************************)
(* The backend's cache client: each call opens a connection, sends one     *)
(* command, reads one line, or lines up to END for KEYS, and closes.  Only *)
(* connecting and reading have a timeout; sending and closing have none.   *)
(* All calls share one asyncio event loop: a step is what one call does    *)
(* between two awaits.  The server is what TcpServer and KVStore show of   *)
(* it: it runs a command at once or, if the client has gone, perhaps not   *)
(* at all; it may send only a part of an answer, be slow, die and start    *)
(* again.                                                                  *)
(***************************************************************************)
CONSTANTS
  Calls,     \* the calls, each made once
  Menu,      \* the commands a call may send
  Keys, Values,
  LongValues, \* values whose line exceeds 64 KiB: StreamReader's limit, and the most
              \* a transport buffers before drain() waits
  Absent,    \* no value; also the answer NOT_FOUND
  Ok,        \* the answer OK
  End,       \* the line END
  Error,     \* CacheClientError
  Exception, \* any other exception
  None       \* nothing yet

VARIABLES
  up,        \* the server runs
  store,     \* the value of each key
  wire,      \* what became of each command: "none"; "full" while drain() waits for
             \* the transport's buffer; "buffered" while close() would; "unread" once
             \* it is sent; "read" or "lost"
  response,  \* what process_command returned for it
  link,      \* the connection as the client sees it
  inbox,     \* lines of the response the client has not read
  tail,      \* what a cut line after them reads as at the end of the file
  pc,        \* where each call is
  request,   \* its command
  lines,     \* the lines KEYS has read
  answer     \* what the caller is told once the call is done

serverVars == <<up, store, wire, response>>
callVars == <<pc, request, lines, answer>>
clientVars == <<serverVars, link, inbox, tail, callVars>>

Command ==
  [cmd : {"set"}, key : Keys, value : Values]
    \cup [cmd : {"get", "del"}, key : Keys] \cup [cmd : {"keys", "stats"}]

Result ==
  Values \cup {Absent, Ok} \cup [listing : SUBSET (Keys \X Values)]

\* A proper prefix of a value.
Cut == [cut : Values]

ASSUME MenuAssumption == Menu \subseteq Command
ASSUME ModelValues ==
  /\ None \notin Command \cup Result \cup Cut \cup {Error, Exception, End}
  /\ End \notin (Keys \X Values) \cup Cut \cup {Error, Exception}
  /\ Absent \notin Values /\ Ok \notin Values

\* The server may hold entries already.
Init ==
  /\ up = TRUE
  /\ store \in [Keys -> Values \cup {Absent}]
  /\ wire = [r \in Calls |-> "none"]
  /\ response = [r \in Calls |-> None]
  /\ link = [r \in Calls |-> "none"]
  /\ inbox = [r \in Calls |-> {}]
  /\ tail = [r \in Calls |-> None]
  /\ pc = [r \in Calls |-> "idle"]
  /\ request = [r \in Calls |-> None]
  /\ lines = [r \in Calls |-> {}]
  /\ answer = [r \in Calls |-> None]

-----------------------------------------------------------------------------
\* The server.

Pairs == {<<k, store[k]>> : k \in {h \in Keys : store[h] # Absent}}

\* What process_command answers to q, and the store it leaves.
ResultOf(q) ==
  CASE q.cmd = "get" -> store[q.key]
    [] q.cmd = "del" -> IF store[q.key] = Absent THEN Absent ELSE Ok
    [] q.cmd = "keys" -> [listing |-> Pairs]
    [] OTHER -> Ok

Stored(q) ==
  CASE q.cmd = "set" -> [store EXCEPT ![q.key] = q.value]
    [] q.cmd = "del" -> [store EXCEPT ![q.key] = Absent]
    [] OTHER -> store

LinesOf(q, result) == IF q.cmd = "keys" THEN result.listing \cup {End} ELSE {result}

TooLong(line) == line \in LongValues \/ line \in Keys \X LongValues

\* readline() returns a line without its end once the file ends, and raises before
\* that if it is too long.  What the caller makes of it: the same answer if only
\* the line end is missing, a shorter value, or nothing it knows.  (To KEYS one
\* line of the listing is like any other: it goes on reading.)
ReadsAs(line) ==
  {Error}
    \cup (IF TooLong(line) THEN {Exception} ELSE {line} \ (Keys \X Values))
    \cup (IF line \in Values THEN {[cut |-> line]} ELSE {})

\* The answer goes out whole, or its end does not fit into the socket and is
\* lost, be it between two lines or inside one.
Send(r, whole) ==
  \/ inbox' = [inbox EXCEPT ![r] = whole] /\ UNCHANGED tail
  \/ \E next \in whole : \E part \in SUBSET (whole \ {End, next}) :
       /\ next = End => part = whole \ {End}
       /\ inbox' = [inbox EXCEPT ![r] = part]
       /\ \E t \in {None} \cup ReadsAs(next) : tail' = [tail EXCEPT ![r] = t]

\* A client that closes reads no more.
Execute(r) ==
  /\ up /\ wire[r] = "unread"
  /\ wire' = [wire EXCEPT ![r] = "read"]
  /\ response' = [response EXCEPT ![r] = ResultOf(request[r])]
  /\ store' = Stored(request[r])
  /\ IF pc[r] \in {"draining", "reading"}
       THEN Send(r, LinesOf(request[r], ResultOf(request[r])))
       ELSE UNCHANGED <<inbox, tail>>
  /\ UNCHANGED <<up, link, callVars>>

\* The server reads on, or its kernel does, so that more of the command fits.
Flow(r) ==
  /\ up
  /\ \/ wire[r] = "full" /\ wire' = [wire EXCEPT ![r] = "buffered"]
     \/ wire[r] \in {"full", "buffered"} /\ wire' = [wire EXCEPT ![r] = "unread"]
  /\ UNCHANGED <<up, store, response, link, inbox, tail, callVars>>

\* handle_read meets the client's end of file together with the command.
Discard(r) ==
  /\ up /\ wire[r] = "unread" /\ link[r] = "closed"
  /\ wire' = [wire EXCEPT ![r] = "lost"]
  /\ UNCHANGED <<up, store, response, link, inbox, tail, callVars>>

\* Expiry and eviction.
Lose(k) ==
  /\ store[k] # Absent
  /\ store' = [store EXCEPT ![k] = Absent]
  /\ UNCHANGED <<up, wire, response, link, inbox, tail, callVars>>

Pending == {r \in Calls : wire[r] \in {"full", "buffered", "unread"}}

\* Unread commands go with the server, and its kernel resets their connections
\* (or ends them, if they had not been delivered).  What it has sent arrives.
Crash ==
  /\ up
  /\ up' = FALSE
  /\ store' = [k \in Keys |-> Absent]
  /\ wire' = [r \in Calls |-> IF r \in Pending THEN "lost" ELSE wire[r]]
  /\ \E undelivered \in SUBSET {r \in Calls : wire[r] = "unread"} :
       link' = [r \in Calls |->
                  IF link[r] # "open" THEN link[r]
                  ELSE IF r \in Pending \ undelivered THEN "reset" ELSE "eof"]
  /\ UNCHANGED <<response, inbox, tail, callVars>>

Restart ==
  /\ ~up
  /\ up' = TRUE
  /\ UNCHANGED <<store, wire, response, link, inbox, tail, callVars>>

-----------------------------------------------------------------------------
\* The client.

\* Python 3.12's wait_for does not yield when readline() can return at once: a
\* call that keeps reading at the end of the file keeps the event loop.
LoopFree == \A r \in Calls : pc[r] # "spinning"

Call(r, q) ==
  /\ LoopFree /\ pc[r] = "idle"
  /\ pc' = [pc EXCEPT ![r] = "connecting"]
  /\ request' = [request EXCEPT ![r] = q]
  /\ UNCHANGED <<serverVars, link, inbox, tail, lines, answer>>

\* Refused, or not established within _TIMEOUT.
ConnectFails(r) ==
  /\ LoopFree /\ pc[r] = "connecting"
  /\ pc' = [pc EXCEPT ![r] = "done"]
  /\ answer' = [answer EXCEPT ![r] = Error]
  /\ UNCHANGED <<serverVars, link, inbox, tail, request, lines>>

Large(q) == q.cmd = "set" /\ q.value \in LongValues

\* write() sends what fits into the socket and buffers the rest; drain() waits only
\* if that is much.
Connect(r) ==
  /\ LoopFree /\ pc[r] = "connecting" /\ up
  /\ \E left \in IF Large(request[r]) THEN {"full", "buffered", "unread"}
                                      ELSE {"unread"} :
       /\ wire' = [wire EXCEPT ![r] = left]
       /\ pc' = [pc EXCEPT ![r] = IF left = "full" THEN "draining" ELSE "reading"]
  /\ link' = [link EXCEPT ![r] = "open"]
  /\ UNCHANGED <<up, store, response, inbox, tail, request, lines, answer>>

\* drain() returns.
Drained(r) ==
  /\ LoopFree /\ pc[r] = "draining"
  /\ wire[r] # "full" /\ link[r] # "reset"
  /\ pc' = [pc EXCEPT ![r] = "reading"]
  /\ UNCHANGED <<serverVars, link, inbox, tail, request, lines, answer>>

\* What the call will tell is known; "finally" closes its connection first.
Finish(r, a) ==
  /\ pc' = [pc EXCEPT ![r] = "closing"]
  /\ answer' = [answer EXCEPT ![r] = a]
  /\ inbox' = [inbox EXCEPT ![r] = {}]
  /\ tail' = [tail EXCEPT ![r] = None]
  /\ UNCHANGED <<serverVars, link, request, lines>>

\* wait_closed() returns: what was buffered is sent, or the connection is reset.
Close(r) ==
  /\ LoopFree /\ pc[r] = "closing"
  /\ wire[r] \notin {"full", "buffered"}
  /\ pc' = [pc EXCEPT ![r] = "done"]
  /\ link' = [link EXCEPT ![r] = "closed"]
  /\ UNCHANGED <<serverVars, inbox, tail, request, lines, answer>>

\* Fault: a response that does not come is waited for without a timeout.
TimeoutNever(r) == FALSE /\ UNCHANGED clientVars

\* readline() has taken longer than _TIMEOUT.
Timeout(r) ==
  /\ LoopFree /\ pc[r] = "reading"
  /\ Finish(r, Error)

\* The lines of a response arrive in its order, which is arbitrary (the map's)
\* but for END at the end.
ReadTooLong(r) ==
  /\ LoopFree /\ pc[r] = "reading"
  /\ \/ \E line \in inbox[r] \ {End} : TooLong(line)
     \/ inbox[r] = {} /\ tail[r] = Exception
  /\ Finish(r, Exception)

ReadAnswer(r, line) ==
  /\ LoopFree /\ pc[r] = "reading"
  /\ request[r].cmd # "keys"
  /\ ~TooLong(line)
  /\ Finish(r, line)

ReadKey(r, line) ==
  /\ LoopFree /\ pc[r] = "reading"
  /\ request[r].cmd = "keys"
  /\ line # End /\ ~TooLong(line)
  /\ lines' = [lines EXCEPT ![r] = @ \cup {line}]
  /\ inbox' = [inbox EXCEPT ![r] = @ \ {line}]
  /\ UNCHANGED <<serverVars, link, tail, pc, request, answer>>

ReadEnd(r) ==
  /\ LoopFree /\ pc[r] = "reading"
  /\ request[r].cmd = "keys"
  /\ inbox[r] = {End}
  /\ Finish(r, [listing |-> lines[r]])

\* Fault: an empty read ends the listing of KEYS.
ReadEofEnds(r) ==
  /\ LoopFree /\ pc[r] = "reading"
  /\ link[r] = "eof" /\ inbox[r] = {}
  /\ Finish(r, IF request[r].cmd = "keys" THEN [listing |-> lines[r]] ELSE Error)

\* At the end of the file readline() returns the line that was cut, and after it
\* nothing.  No response starts with nothing, so a single line is an error; KEYS
\* goes on reading, unless what it lacks is the line end of END.
ReadEof(r) ==
  /\ LoopFree /\ pc[r] = "reading"
  /\ link[r] = "eof" /\ inbox[r] = {} /\ tail[r] # Exception
  /\ \/ /\ request[r].cmd # "keys"
        /\ Finish(r, IF tail[r] = None THEN Error ELSE tail[r])
     \/ /\ request[r].cmd = "keys" /\ tail[r] = End
        /\ Finish(r, [listing |-> lines[r]])
     \/ /\ request[r].cmd = "keys" /\ tail[r] # End
        /\ pc' = [pc EXCEPT ![r] = "spinning"]
        /\ UNCHANGED <<serverVars, link, inbox, tail, request, lines, answer>>

\* decode() raises if the cut went through a character of a key or a value.
ReadGarbled(r) ==
  /\ LoopFree /\ pc[r] = "reading"
  /\ link[r] = "eof" /\ inbox[r] = {}
  /\ \/ tail[r] \in Cut
     \/ request[r].cmd = "keys" /\ tail[r] = Error /\ lines[r] # response[r].listing
  /\ Finish(r, Exception)

\* ConnectionResetError, from drain() or readline(): only a timeout is caught.
ReadReset(r) ==
  /\ LoopFree /\ pc[r] \in {"draining", "reading"} /\ link[r] = "reset"
  /\ Finish(r, Exception)

Resume(r) ==
  \/ Connect(r) \/ ConnectFails(r) \/ Drained(r) \/ Close(r)
  \/ Timeout(r) \/ ReadTooLong(r)
  \/ \E line \in inbox[r] : ReadAnswer(r, line) \/ ReadKey(r, line)
  \/ ReadEnd(r) \/ ReadEof(r) \/ ReadGarbled(r) \/ ReadReset(r)

Next ==
  \/ \E r \in Calls : \/ Execute(r) \/ Flow(r) \/ Discard(r)
                      \/ \E q \in Menu : Call(r, q)
                      \/ Resume(r)
  \/ \E k \in Keys : Lose(k)
  \/ Crash \/ Restart

Spec == Init /\ [][Next]_clientVars

\* The event loop resumes every call that can go on; nothing is assumed of the
\* server.
FairSpec == Spec /\ \A r \in Calls : WF_clientVars(Resume(r))

-----------------------------------------------------------------------------
Line == (Keys \X Values) \cup Values \cup {Absent, Ok, End}

ClientTypeOK ==
  /\ up \in BOOLEAN
  /\ store \in [Keys -> Values \cup {Absent}]
  /\ wire \in [Calls -> {"none", "full", "buffered", "unread", "read", "lost"}]
  /\ response \in [Calls -> Result \cup {None}]
  /\ link \in [Calls -> {"none", "open", "eof", "reset", "closed"}]
  /\ inbox \in [Calls -> SUBSET Line]
  /\ tail \in [Calls -> Values \cup Cut
                         \cup {Absent, Ok, End, Error, Exception, None}]
  /\ pc \in [Calls -> {"idle", "connecting", "draining", "reading", "spinning",
                       "closing", "done"}]
  /\ request \in [Calls -> Command \cup {None}]
  /\ lines \in [Calls -> SUBSET (Keys \X Values)]
  /\ answer \in [Calls -> Result \cup Cut \cup {Error, Exception, None}]

\* The client keeps its promise although servers die between any two steps of a
\* call, answers are cut and commands outlive the calls that sent them: an answer
\* is the result at one moment of the call, a listing is a whole snapshot, a value
\* is whole unless the server died during the call, and no command runs twice.
Service == INSTANCE CacheService
  WITH effect <- response,
       broken <- {r \in Calls : link[r] = "eof" /\ answer[r] = None}

ImplementsService == Service!Spec

Ends(r) == (pc[r] # "idle") ~> (pc[r] = "done")

\* The transport still holds a part of the command, which the server does not take.
Held(r) == wire[r] \in {"full", "buffered"}

\* The server has died inside a listing.
ListingCut(r) ==
  /\ pc[r] \in {"reading", "spinning"} /\ request[r].cmd = "keys"
  /\ link[r] = "eof" /\ End \notin inbox[r] /\ tail[r] # End

\* There are two ways for a call not to end, and no third: the server dies inside a
\* listing, which stops all calls, or leaves a part of a large SET in the client's
\* buffer for ever.  Otherwise each ends, whatever else is slow, cut or missing.
CallsEndServed ==
  []~(\E r \in Calls : ListingCut(r)) => \A r \in Calls : []<>~Held(r) => Ends(r)

\* While the server stays up each call ends, as connecting and reading have timeouts.
CallsEndWhileUp == []up => \A r \in Calls : Ends(r)

\* CacheClientError is "Raised when the cache server returns an error or is
\* unreachable", and each read has a timeout: so each call ends.
CallsEnd == \A r \in Calls : Ends(r)

\* The same docstring: a call fails with CacheClientError and nothing else.
ErrorsReported == \A r \in Calls : answer[r] # Exception

\* get_key: "Return the value for *key*, or None if not found / expired."  So what
\* is returned is a value that was stored, not the beginning of one.
ValuesWhole == \A r \in Calls : answer[r] \notin Cut

\* The same line: a value that was stored and whose line has arrived whole is returned.
ValuesReadable ==
  [][\A r \in Calls :
       pc[r] = "reading" /\ request[r].cmd = "get" /\ inbox[r] # {}
         /\ link[r] = "open" => answer'[r] \in {None, Error, response[r]}]_clientVars
=============================================================================
