------------------------- MODULE CacheClientProofs -------------------------
(***************************************************************************)
(* Proofs about CacheClient, for any number of calls and every set of      *)
(* keys, values and commands: types, and that it implements CacheService.  *)
(***************************************************************************)
EXTENDS CacheClient, TLAPS

\* How far a call, its command and its response can be from one another.
CallInv(r) ==
  /\ pc[r] = "idle" => request[r] = None
  /\ pc[r] # "idle" => request[r] \in Command
  /\ pc[r] \in {"idle", "connecting"} => wire[r] = "none" /\ link[r] = "none"
  /\ pc[r] \in {"closing", "done"} <=> answer[r] # None
  /\ wire[r] = "read" <=> response[r] # None
  /\ response[r] = None => inbox[r] = {} /\ lines[r] = {} /\ tail[r] = None

\* What has arrived belongs to the response; if END has, everything has.
InboxInv(r) ==
  response[r] # None =>
    /\ request[r].cmd = "keys" =>
         /\ response[r] \in [listing : SUBSET (Keys \X Values)]
         /\ inbox[r] \cup lines[r] \subseteq response[r].listing \cup {End}
         /\ End \in inbox[r] \/ tail[r] = End
              => response[r].listing \subseteq inbox[r] \cup lines[r]
    /\ request[r].cmd # "keys" => inbox[r] \subseteq {response[r]}

\* A cut line that is taken for an answer is the response, or begins like the value
\* that GET answers with.
TailInv(r) ==
  tail[r] # None =>
    \/ request[r].cmd = "keys"
    \/ tail[r] \in {Error, Exception, response[r]}
    \/ /\ request[r].cmd = "get" /\ response[r] \in Values
       /\ tail[r] = [cut |-> response[r]]

ClientInv ==
  /\ ClientTypeOK
  /\ \A r \in Calls : CallInv(r)
  /\ \A r \in Calls : InboxInv(r)
  /\ \A r \in Calls : TailInv(r)

\* process_command's result has the type its command calls for.
LEMMA ResultType ==
  ASSUME ClientTypeOK, NEW q \in Command
  PROVE  /\ ResultOf(q) \in Result
         /\ ResultOf(q) \in Values => q.cmd \in {"get", "keys"}
         /\ q.cmd = "keys" => ResultOf(q) \in [listing : SUBSET (Keys \X Values)]
         /\ LinesOf(q, ResultOf(q)) \subseteq Line
         /\ Stored(q) \in [Keys -> Values \cup {Absent}]
<1>1. Pairs \subseteq Keys \X Values
  BY DEF Pairs, ClientTypeOK
<1> USE ModelValues
<1>2. CASE q.cmd = "get"
  BY <1>2 DEF ResultOf, LinesOf, Stored, Result, Line, ClientTypeOK, Command
<1>3. CASE q.cmd = "del"
  BY <1>3 DEF ResultOf, LinesOf, Stored, Result, Line, ClientTypeOK, Command
<1>4. CASE q.cmd = "keys"
  <2>1. ResultOf(q) = [listing |-> Pairs]
    BY <1>4 DEF ResultOf
  <2>2. ResultOf(q).listing = Pairs
    BY <2>1
  <2>3. Stored(q) = store
    BY <1>4 DEF Stored
  <2> QED
    BY <1>1, <1>4, <2>1, <2>2, <2>3 DEF LinesOf, Result, Line, ClientTypeOK
<1>5. CASE q.cmd \in {"set", "stats"}
  BY <1>5 DEF ResultOf, LinesOf, Stored, Result, Line, ClientTypeOK, Command
<1> QED
  BY <1>2, <1>3, <1>4, <1>5 DEF Command

LEMMA InitInv == Init => ClientInv
BY DEF Init, ClientInv, ClientTypeOK, CallInv, InboxInv, TailInv

-----------------------------------------------------------------------------
\* However a call ends, it leaves nothing to read.
LEMMA FinishInv ==
  ASSUME ClientInv, NEW r \in Calls, NEW a \in Result \cup Cut \cup {Error, Exception},
         pc[r] \in {"draining", "reading"}, Finish(r, a)
  PROVE  ClientInv'
<1>1. ClientTypeOK'
  BY DEF ClientInv, ClientTypeOK, Finish, serverVars
<1>2. a # None
  BY ModelValues
<1>3. ASSUME NEW c \in Calls PROVE CallInv(c)'
  BY <1>2, <1>3 DEF ClientInv, ClientTypeOK, CallInv, Finish, serverVars
<1>4. ASSUME NEW c \in Calls PROVE InboxInv(c)' /\ TailInv(c)'
  <2>1. /\ UNCHANGED <<response, request, lines>>
        /\ IF c = r THEN inbox'[c] = {} /\ tail'[c] = None
                    ELSE inbox'[c] = inbox[c] /\ tail'[c] = tail[c]
    BY <1>4 DEF ClientInv, ClientTypeOK, Finish, serverVars
  <2>2. None # End
    BY ModelValues
  <2>3. InboxInv(c) /\ TailInv(c)
    BY <1>4 DEF ClientInv
  <2>4. InboxInv(c)'
    BY <2>1, <2>2, <2>3 DEF InboxInv
  <2>5. TailInv(c)'
    BY <2>1, <2>3 DEF TailInv
  <2> QED
    BY <2>4, <2>5
<1> QED
  BY <1>1, <1>3, <1>4 DEF ClientInv

\* A line that ends a call answers with the response.
LEMMA AnswerIsResponse ==
  ASSUME ClientInv, NEW r \in Calls, NEW line \in inbox[r], ReadAnswer(r, line)
  PROVE  response[r] # None /\ line = response[r]
<1>1. response[r] # None
  BY DEF ClientInv, CallInv
<1> QED
  BY <1>1 DEF ClientInv, InboxInv, ReadAnswer

\* END, with its line end or without, ends a listing that is the whole of the response.
LEMMA ListingIsResponse ==
  ASSUME ClientInv, NEW r \in Calls, request[r].cmd = "keys",
         inbox[r] = {End} \/ (inbox[r] = {} /\ tail[r] = End)
  PROVE  response[r] # None /\ [listing |-> lines[r]] = response[r]
<1>1. response[r] # None
  BY ModelValues DEF ClientInv, CallInv
<1>2. /\ response[r] \in [listing : SUBSET (Keys \X Values)]
      /\ lines[r] \subseteq response[r].listing \cup {End}
      /\ response[r].listing \subseteq {End} \cup lines[r]
  BY <1>1 DEF ClientInv, InboxInv
<1>3. lines[r] \subseteq Keys \X Values /\ response[r].listing \subseteq Keys \X Values
  BY <1>2 DEF ClientInv, ClientTypeOK
<1>4. End \notin Keys \X Values
  BY ModelValues
<1>5. lines[r] = response[r].listing
  BY <1>2, <1>3, <1>4
<1> QED
  BY <1>1, <1>2, <1>5

\* A cut line is read as an error, as the answer, or as the beginning of a value.
LEMMA TailIsAnswer ==
  ASSUME ClientInv, NEW r \in Calls, request[r].cmd # "keys",
         tail[r] \notin {None, Error, Exception}
  PROVE  /\ response[r] # None
         /\ \/ tail[r] = response[r]
            \/ /\ request[r].cmd = "get" /\ response[r] \in Values
               /\ tail[r] = [cut |-> response[r]]
<1>1. response[r] # None
  BY DEF ClientInv, CallInv
<1> QED
  BY <1>1 DEF ClientInv, TailInv

-----------------------------------------------------------------------------
\* What goes out of an answer, and what a line of it that is cut may read as.
LEMMA SendType ==
  ASSUME NEW r \in Calls, NEW whole \in SUBSET Line, ClientTypeOK, Send(r, whole)
  PROVE  /\ \A c \in Calls \ {r} : inbox'[c] = inbox[c] /\ tail'[c] = tail[c]
         /\ inbox' \in [Calls -> SUBSET Line]
         /\ tail' \in [Calls -> Values \cup Cut
                                 \cup {Absent, Ok, End, Error, Exception, None}]
         /\ inbox'[r] \subseteq whole
         /\ End \in inbox'[r] => inbox'[r] = whole
         /\ \/ tail'[r] \in {None, tail[r]}
            \/ \E next \in whole : /\ tail'[r] \in ReadsAs(next)
                                   /\ next = End => inbox'[r] = whole \ {End}
<1>1. CASE inbox' = [inbox EXCEPT ![r] = whole] /\ UNCHANGED tail
  BY <1>1 DEF ClientTypeOK
<1>2. ASSUME NEW next \in whole, NEW part \in SUBSET (whole \ {End, next}),
             next = End => part = whole \ {End},
             inbox' = [inbox EXCEPT ![r] = part],
             NEW t \in {None} \cup ReadsAs(next), tail' = [tail EXCEPT ![r] = t]
      PROVE  /\ \A c \in Calls \ {r} : inbox'[c] = inbox[c] /\ tail'[c] = tail[c]
             /\ inbox'[r] = part /\ tail'[r] = t
             /\ inbox' \in [Calls -> SUBSET Line]
             /\ tail' \in [Calls -> Values \cup Cut
                                     \cup {Absent, Ok, End, Error, Exception, None}]
  <2>1. ReadsAs(next) \subseteq Values \cup Cut \cup {Absent, Ok, End, Error, Exception}
    BY DEF ReadsAs, Line, Cut
  <2> QED
    BY <1>2, <2>1 DEF ClientTypeOK
<1>3. CASE ~(inbox' = [inbox EXCEPT ![r] = whole] /\ UNCHANGED tail)
  <2>1. PICK next \in whole :
          \E part \in SUBSET (whole \ {End, next}) :
            /\ next = End => part = whole \ {End}
            /\ inbox' = [inbox EXCEPT ![r] = part]
            /\ \E t \in {None} \cup ReadsAs(next) : tail' = [tail EXCEPT ![r] = t]
    BY <1>3 DEF Send
  <2>2. PICK part \in SUBSET (whole \ {End, next}) :
          /\ next = End => part = whole \ {End}
          /\ inbox' = [inbox EXCEPT ![r] = part]
          /\ \E t \in {None} \cup ReadsAs(next) : tail' = [tail EXCEPT ![r] = t]
    BY <2>1
  <2>3. PICK t \in {None} \cup ReadsAs(next) : tail' = [tail EXCEPT ![r] = t]
    BY <2>2
  <2>4. /\ \A c \in Calls \ {r} : inbox'[c] = inbox[c] /\ tail'[c] = tail[c]
        /\ inbox'[r] = part /\ tail'[r] = t
        /\ inbox' \in [Calls -> SUBSET Line]
        /\ tail' \in [Calls -> Values \cup Cut
                                \cup {Absent, Ok, End, Error, Exception, None}]
    BY <1>2, <2>2, <2>3
  <2>5. t = None \/ t \in ReadsAs(next)
    BY <2>3
  <2> QED
    BY <2>2, <2>4, <2>5
<1> QED
  BY <1>1, <1>3

LEMMA ExecuteInv ==
  ASSUME ClientInv, NEW r \in Calls, Execute(r)
  PROVE  ClientInv'
<1> DEFINE q == request[r]
           result == ResultOf(q)
           whole == LinesOf(q, result)
<1>1. /\ q \in Command /\ response[r] = None
      /\ inbox[r] = {} /\ lines[r] = {} /\ tail[r] = None
      /\ pc[r] \notin {"idle", "connecting"}
  BY DEF ClientInv, CallInv, ClientTypeOK, Execute
<1>2. /\ result \in Result
      /\ result \in Values => q.cmd \in {"get", "keys"}
      /\ q.cmd = "keys" => result \in [listing : SUBSET (Keys \X Values)]
      /\ whole \subseteq Line
      /\ Stored(q) \in [Keys -> Values \cup {Absent}]
  BY <1>1, ResultType DEF ClientInv
<1>3. /\ response' = [response EXCEPT ![r] = result]
      /\ store' = Stored(q)
      /\ wire' = [wire EXCEPT ![r] = "read"]
      /\ UNCHANGED <<up, link, pc, request, lines, answer>>
  BY DEF Execute, callVars
<1>4. Send(r, whole) \/ UNCHANGED <<inbox, tail>>
  BY DEF Execute
<1>5. whole = IF q.cmd = "keys" THEN result.listing \cup {End} ELSE {result}
  BY DEF LinesOf
<1>6. result # None
  BY <1>2, ModelValues
<1> HIDE DEF result, whole
<1>7. /\ \A c \in Calls \ {r} : inbox'[c] = inbox[c] /\ tail'[c] = tail[c]
      /\ inbox' \in [Calls -> SUBSET Line]
      /\ tail' \in [Calls -> Values \cup Cut
                              \cup {Absent, Ok, End, Error, Exception, None}]
      /\ inbox'[r] \subseteq whole
      /\ End \in inbox'[r] => inbox'[r] = whole
      /\ \/ tail'[r] = None
         \/ \E next \in whole : /\ tail'[r] \in ReadsAs(next)
                                /\ next = End => inbox'[r] = whole \ {End}
  <2>1. CASE Send(r, whole)
    <3>1. whole \in SUBSET Line /\ ClientTypeOK
      BY <1>2 DEF ClientInv
    <3> QED
      BY <1>1, <2>1, <3>1, SendType
  <2>2. CASE UNCHANGED <<inbox, tail>>
    BY <1>1, <2>2 DEF ClientInv, ClientTypeOK
  <2> QED
    BY <1>4, <2>1, <2>2
<1>8. ClientTypeOK'
  <2>1. response' \in [Calls -> Result \cup {None}]
    BY <1>2, <1>3 DEF ClientInv, ClientTypeOK
  <2>2. wire' \in [Calls -> {"none", "full", "buffered", "unread", "read", "lost"}]
    BY <1>3 DEF ClientInv, ClientTypeOK
  <2> QED
    BY <1>2, <1>3, <1>7, <2>1, <2>2 DEF ClientInv, ClientTypeOK
<1>9. ASSUME NEW c \in Calls PROVE CallInv(c)'
  <2>1. CASE c = r
    BY <1>1, <1>3, <1>6, <2>1 DEF ClientInv, ClientTypeOK, CallInv
  <2>2. CASE c # r
    <3>1. /\ inbox'[c] = inbox[c] /\ tail'[c] = tail[c]
          /\ response'[c] = response[c] /\ wire'[c] = wire[c]
      BY <1>3, <1>7, <1>9, <2>2 DEF ClientInv, ClientTypeOK
    <3> QED
      BY <1>3, <1>9, <3>1 DEF ClientInv, CallInv
  <2> QED
    BY <2>1, <2>2
<1>10. ASSUME NEW c \in Calls, c # r PROVE InboxInv(c)' /\ TailInv(c)'
  <2>1. /\ inbox'[c] = inbox[c] /\ tail'[c] = tail[c]
        /\ response'[c] = response[c]
    BY <1>3, <1>7, <1>10 DEF ClientInv, ClientTypeOK
  <2> QED
    BY <1>3, <1>10, <2>1 DEF ClientInv, InboxInv, TailInv
<1>11. /\ response'[r] = result /\ lines'[r] = {} /\ request'[r] = q
  BY <1>1, <1>3 DEF ClientInv, ClientTypeOK
<1>12. ASSUME q.cmd = "keys", tail'[r] = End PROVE result.listing \subseteq inbox'[r]
  <2>1. PICK next \in whole : /\ tail'[r] \in ReadsAs(next)
                              /\ next = End => inbox'[r] = whole \ {End}
    BY <1>7, <1>12, ModelValues
  <2>2. next = End
    <3>1. End \notin {Error, Exception} \cup Cut
      BY ModelValues
    <3> QED
      BY <1>12, <2>1, <3>1 DEF ReadsAs, Cut
  <2>3. End \notin result.listing
    BY <1>2, <1>12, ModelValues
  <2> QED
    BY <1>5, <1>12, <2>1, <2>2, <2>3
<1>13. InboxInv(r)'
  <2>1. CASE q.cmd = "keys"
    <3>1. result \in [listing : SUBSET (Keys \X Values)]
      BY <1>2, <2>1
    <3>2. inbox'[r] \cup lines'[r] \subseteq result.listing \cup {End}
      BY <1>5, <1>7, <1>11, <2>1
    <3>3. End \in inbox'[r] \/ tail'[r] = End
            => result.listing \subseteq inbox'[r] \cup lines'[r]
      BY <1>5, <1>7, <1>11, <1>12, <2>1
    <3> QED
      BY <1>11, <2>1, <3>1, <3>2, <3>3 DEF InboxInv
  <2>2. CASE q.cmd # "keys"
    BY <1>5, <1>7, <1>11, <2>2 DEF InboxInv
  <2> QED
    BY <2>1, <2>2
<1>14. TailInv(r)'
  <2>1. CASE tail'[r] = None \/ q.cmd = "keys"
    BY <1>11, <2>1 DEF TailInv
  <2>2. CASE tail'[r] # None /\ q.cmd # "keys"
    <3>1. tail'[r] \in ReadsAs(result)
      BY <1>5, <1>7, <2>2
    <3>2. \/ tail'[r] \in {Error, Exception, result}
          \/ result \in Values /\ tail'[r] = [cut |-> result]
      BY <3>1 DEF ReadsAs
    <3>3. result \in Values => q.cmd = "get"
      BY <1>2, <2>2
    <3> QED
      BY <1>11, <3>2, <3>3 DEF TailInv
  <2> QED
    BY <2>1, <2>2
<1> QED
  BY <1>8, <1>9, <1>10, <1>13, <1>14 DEF ClientInv

LEMMA ReadKeyInv ==
  ASSUME ClientInv, NEW r \in Calls, NEW line \in inbox[r], ReadKey(r, line)
  PROVE  ClientInv'
<1>1. response[r] # None
  BY DEF ClientInv, CallInv
<1>2. /\ response[r] \in [listing : SUBSET (Keys \X Values)]
      /\ inbox[r] \cup lines[r] \subseteq response[r].listing \cup {End}
      /\ End \in inbox[r] \/ tail[r] = End
           => response[r].listing \subseteq inbox[r] \cup lines[r]
  BY <1>1 DEF ClientInv, InboxInv, ReadKey
<1>3. line \in Keys \X Values
  BY <1>2 DEF ReadKey
<1>4. /\ lines' = [lines EXCEPT ![r] = lines[r] \cup {line}]
      /\ inbox' = [inbox EXCEPT ![r] = inbox[r] \ {line}]
      /\ UNCHANGED <<up, store, wire, response, link, tail, pc, request, answer>>
      /\ line # End
  BY DEF ReadKey, serverVars
<1>5. ClientTypeOK'
  <2>1. lines' \in [Calls -> SUBSET (Keys \X Values)]
    BY <1>3, <1>4 DEF ClientInv, ClientTypeOK
  <2>2. inbox' \in [Calls -> SUBSET Line]
    BY <1>4 DEF ClientInv, ClientTypeOK
  <2> QED
    BY <1>4, <2>1, <2>2 DEF ClientInv, ClientTypeOK
<1>6. ASSUME NEW c \in Calls PROVE CallInv(c)'
  BY <1>1, <1>4, <1>6 DEF ClientInv, ClientTypeOK, CallInv
<1>7. ASSUME NEW c \in Calls PROVE InboxInv(c)'
  <2>1. CASE c = r
    <3>1. inbox'[r] = inbox[r] \ {line} /\ lines'[r] = lines[r] \cup {line}
      BY <1>4 DEF ClientInv, ClientTypeOK
    <3>2. inbox'[r] \cup lines'[r] = inbox[r] \cup lines[r]
      BY <3>1
    <3> QED
      BY <1>2, <1>4, <2>1, <3>1, <3>2 DEF InboxInv, ReadKey
  <2>2. CASE c # r
    BY <1>4, <1>7, <2>2 DEF ClientInv, ClientTypeOK, InboxInv
  <2> QED
    BY <2>1, <2>2
<1>8. ASSUME NEW c \in Calls PROVE TailInv(c)'
  BY <1>4, <1>8 DEF ClientInv, TailInv
<1> QED
  BY <1>5, <1>6, <1>7, <1>8 DEF ClientInv

LEMMA CrashInv ==
  ASSUME ClientInv, Crash
  PROVE  ClientInv'
<1>1. /\ up' = FALSE
      /\ store' = [k \in Keys |-> Absent]
      /\ wire' = [c \in Calls |-> IF c \in Pending THEN "lost" ELSE wire[c]]
      /\ UNCHANGED <<response, inbox, tail, pc, request, lines, answer>>
  BY DEF Crash, callVars
<1>2. /\ link' \in [Calls -> {"none", "open", "eof", "reset", "closed"}]
      /\ \A c \in Calls : link[c] = "none" => link'[c] = "none"
  BY DEF Crash, ClientInv, ClientTypeOK
<1>3. ClientTypeOK'
  BY <1>1, <1>2 DEF ClientInv, ClientTypeOK
<1>4. ASSUME NEW c \in Calls PROVE CallInv(c)'
  BY <1>1, <1>2, <1>4 DEF ClientInv, ClientTypeOK, CallInv, Pending
<1>5. ASSUME NEW c \in Calls PROVE InboxInv(c)' /\ TailInv(c)'
  BY <1>1, <1>5 DEF ClientInv, InboxInv, TailInv
<1> QED
  BY <1>3, <1>4, <1>5 DEF ClientInv

\* Steps that only move a call and its connection on.
LEMMA MoveInv ==
  ASSUME ClientInv, NEW r \in Calls,
         Connect(r) \/ Drained(r) \/ Close(r) \/ Flow(r) \/ Discard(r)
  PROVE  ClientInv'
<1>1. UNCHANGED <<up, store, response, inbox, tail, request, lines, answer>>
  BY DEF Connect, Drained, Close, Flow, Discard, serverVars, callVars
<1>2. ClientTypeOK'
  BY DEF Connect, Drained, Close, Flow, Discard, serverVars, callVars, ClientInv, ClientTypeOK
<1>3. ASSUME NEW c \in Calls PROVE CallInv(c)'
  <2>1. CallInv(c)
    BY <1>3 DEF ClientInv
  <2>2. CASE Connect(r)
    BY <1>1, <1>3, <2>1, <2>2 DEF Connect, ClientInv, ClientTypeOK, CallInv
  <2>3. CASE Drained(r)
    BY <1>1, <1>3, <2>1, <2>3 DEF Drained, serverVars, ClientInv, ClientTypeOK, CallInv
  <2>4. CASE Close(r)
    BY <1>1, <1>3, <2>1, <2>4 DEF Close, serverVars, ClientInv, ClientTypeOK, CallInv
  <2>5. CASE Flow(r)
    BY <1>1, <1>3, <2>1, <2>5 DEF Flow, callVars, ClientInv, ClientTypeOK, CallInv
  <2>6. CASE Discard(r)
    BY <1>1, <1>3, <2>1, <2>6 DEF Discard, callVars, ClientInv, ClientTypeOK, CallInv
  <2> QED
    BY <2>2, <2>3, <2>4, <2>5, <2>6
<1>4. ASSUME NEW c \in Calls PROVE InboxInv(c)' /\ TailInv(c)'
  BY <1>1, <1>4 DEF ClientInv, InboxInv, TailInv
<1> QED
  BY <1>2, <1>3, <1>4 DEF ClientInv

\* What a call tells has the type of an answer.
LEMMA AnswerType ==
  ASSUME ClientInv, NEW r \in Calls
  PROVE  /\ \A line \in inbox[r] : ReadAnswer(r, line) => line \in Result
         /\ [listing |-> lines[r]] \in Result
         /\ request[r].cmd # "keys" /\ tail[r] \notin {None, Exception}
              => tail[r] \in Result \cup Cut \cup {Error}
<1>1. ASSUME NEW line \in inbox[r], ReadAnswer(r, line) PROVE line \in Result
  <2>1. response[r] # None /\ line = response[r]
    BY <1>1, AnswerIsResponse
  <2> QED
    BY <2>1 DEF ClientInv, ClientTypeOK
<1>2. [listing |-> lines[r]] \in Result
  BY DEF ClientInv, ClientTypeOK, Result
<1>3. ASSUME request[r].cmd # "keys", tail[r] \notin {None, Exception}
      PROVE  tail[r] \in Result \cup Cut \cup {Error}
  <2>1. CASE tail[r] = Error
    BY <2>1
  <2>2. CASE tail[r] # Error
    <3>1. /\ response[r] \in Result
          /\ \/ tail[r] = response[r]
             \/ response[r] \in Values /\ tail[r] = [cut |-> response[r]]
      BY <1>3, <2>2, TailIsAnswer DEF ClientInv, ClientTypeOK
    <3> QED
      BY <3>1 DEF Cut
  <2> QED
    BY <2>1, <2>2
<1> QED
  BY <1>1, <1>2, <1>3

LEMMA StepInv == ClientInv /\ [Next]_clientVars => ClientInv'
<1> SUFFICES ASSUME ClientInv, [Next]_clientVars PROVE ClientInv'
  OBVIOUS
<1> USE DEF serverVars, callVars
<1>1. ASSUME NEW r \in Calls, Execute(r) PROVE ClientInv'
  BY <1>1, ExecuteInv
<1>2. ASSUME NEW r \in Calls,
             Connect(r) \/ Drained(r) \/ Close(r) \/ Flow(r) \/ Discard(r)
      PROVE  ClientInv'
  BY <1>2, MoveInv
<1>3. ASSUME NEW r \in Calls, NEW q \in Menu, Call(r, q) PROVE ClientInv'
  <2>1. q \in Command
    BY MenuAssumption
  <2>2. response[r] = None /\ inbox[r] = {} /\ tail[r] = None /\ wire[r] = "none"
    BY <1>3 DEF Call, ClientInv, ClientTypeOK, CallInv
  <2>3. ClientTypeOK'
    BY <1>3, <2>1 DEF Call, ClientInv, ClientTypeOK
  <2>4. ASSUME NEW c \in Calls PROVE CallInv(c)'
    BY <1>3, <2>1, <2>4 DEF Call, ClientInv, ClientTypeOK, CallInv
  <2>5. ASSUME NEW c \in Calls PROVE InboxInv(c)' /\ TailInv(c)'
    BY <1>3, <2>2, <2>5 DEF Call, ClientInv, ClientTypeOK, InboxInv, TailInv
  <2> QED
    BY <2>3, <2>4, <2>5 DEF ClientInv
<1>4. ASSUME NEW r \in Calls, ConnectFails(r) PROVE ClientInv'
  <2>1. Error # None
    BY ModelValues
  <2>2. ClientTypeOK'
    BY <1>4 DEF ConnectFails, ClientInv, ClientTypeOK
  <2>3. ASSUME NEW c \in Calls PROVE CallInv(c)'
    BY <1>4, <2>1, <2>3 DEF ConnectFails, ClientInv, ClientTypeOK, CallInv
  <2>4. ASSUME NEW c \in Calls PROVE InboxInv(c)' /\ TailInv(c)'
    BY <1>4, <2>4 DEF ConnectFails, ClientInv, InboxInv, TailInv
  <2> QED
    BY <2>2, <2>3, <2>4 DEF ClientInv
<1>5. ASSUME NEW r \in Calls, NEW a \in Result \cup Cut \cup {Error, Exception},
             pc[r] \in {"draining", "reading"}, Finish(r, a)
      PROVE  ClientInv'
  BY <1>5, FinishInv
<1>6. ASSUME NEW r \in Calls, Timeout(r) \/ ReadTooLong(r) \/ ReadGarbled(r)
             \/ ReadReset(r)
      PROVE  ClientInv'
  <2>1. PICK a \in {Error, Exception} : Finish(r, a)
    BY <1>6 DEF Timeout, ReadTooLong, ReadGarbled, ReadReset
  <2>2. pc[r] \in {"draining", "reading"}
    BY <1>6 DEF Timeout, ReadTooLong, ReadGarbled, ReadReset
  <2> QED
    BY <1>5, <2>1, <2>2
<1>7. ASSUME NEW r \in Calls, NEW line \in inbox[r], ReadAnswer(r, line)
      PROVE  ClientInv'
  BY <1>5, <1>7, AnswerType DEF ReadAnswer
<1>8. ASSUME NEW r \in Calls, NEW line \in inbox[r], ReadKey(r, line)
      PROVE  ClientInv'
  BY <1>8, ReadKeyInv
<1>9. ASSUME NEW r \in Calls, ReadEnd(r) PROVE ClientInv'
  BY <1>5, <1>9, AnswerType DEF ReadEnd
<1>10. ASSUME NEW r \in Calls, ReadEof(r) PROVE ClientInv'
  <2>1. CASE request[r].cmd # "keys"
    <3>1. PICK a : a = (IF tail[r] = None THEN Error ELSE tail[r]) /\ Finish(r, a)
      BY <1>10, <2>1 DEF ReadEof
    <3>2. a \in Result \cup Cut \cup {Error, Exception}
      BY <1>10, <2>1, <3>1, AnswerType DEF ReadEof
    <3> QED
      BY <1>5, <1>10, <3>1, <3>2 DEF ReadEof
  <2>2. CASE request[r].cmd = "keys" /\ tail[r] = End
    BY <1>5, <1>10, <2>2, AnswerType DEF ReadEof
  <2>3. CASE request[r].cmd = "keys" /\ tail[r] # End
    <3>1. /\ pc' = [pc EXCEPT ![r] = "spinning"] /\ pc[r] = "reading"
          /\ UNCHANGED <<up, store, wire, response, link, inbox, tail, request,
                         lines, answer>>
      BY <1>10, <2>3 DEF ReadEof
    <3>2. ClientTypeOK'
      BY <3>1 DEF ClientInv, ClientTypeOK
    <3>3. ASSUME NEW c \in Calls PROVE CallInv(c)'
      BY <3>1, <3>3 DEF ClientInv, ClientTypeOK, CallInv
    <3>4. ASSUME NEW c \in Calls PROVE InboxInv(c)' /\ TailInv(c)'
      BY <3>1, <3>4 DEF ClientInv, InboxInv, TailInv
    <3> QED
      BY <3>2, <3>3, <3>4 DEF ClientInv
  <2> QED
    BY <2>1, <2>2, <2>3
<1>11. ASSUME NEW k \in Keys, Lose(k) PROVE ClientInv'
  BY <1>11 DEF Lose, ClientInv, ClientTypeOK, CallInv, InboxInv, TailInv
<1>12. CASE Crash
  BY <1>12, CrashInv
<1>13. CASE Restart
  BY <1>13 DEF Restart, ClientInv, ClientTypeOK, CallInv, InboxInv, TailInv
<1>14. CASE UNCHANGED clientVars
  BY <1>14 DEF clientVars, ClientInv, ClientTypeOK, CallInv, InboxInv, TailInv
<1> QED
  BY <1>1, <1>2, <1>3, <1>4, <1>6, <1>7, <1>8, <1>9, <1>10, <1>11, <1>12, <1>13,
     <1>14 DEF Next, Resume

THEOREM ClientInvariance == Spec => []ClientInv
BY InitInv, StepInv, PTL DEF Spec

\* Every variable keeps its type: a call is told a result, the beginning of a value
\* or a failure, and nothing of a response is in its stream that is no line.
THEOREM ClientTypeCorrect == Spec => []ClientTypeOK
<1>1. ClientInv => ClientTypeOK
  BY DEF ClientInv
<1> QED
  BY <1>1, ClientInvariance, PTL

-----------------------------------------------------------------------------
\* The calls under way whose connection the server's end has ended.
Broken == {r \in Calls : link[r] = "eof" /\ answer[r] = None}

\* Each step is one of CacheService, or none.
LEMMA ClientSimulates ==
  ClientInv /\ [Next]_clientVars => [Service!Next]_Service!serviceVars
<1> SUFFICES ASSUME ClientInv, [Next]_clientVars
             PROVE  Service!Next \/ UNCHANGED Service!serviceVars
  OBVIOUS
<1> USE DEF serverVars, callVars
<1>1. ASSUME NEW r \in Calls, Execute(r) PROVE Service!TakeEffect(r)
  <2>1. request[r] # None /\ response[r] = None
    BY <1>1, ModelValues DEF Execute, ClientInv, ClientTypeOK, CallInv
  <2>2. ResultOf(request[r]) = Service!ResultOf(request[r])
    BY DEF ResultOf, Service!ResultOf, Pairs, Service!Pairs
  <2>3. Stored(request[r]) = Service!Stored(request[r])
    BY DEF Stored, Service!Stored
  <2>4. UNCHANGED <<request, answer, link>>
    BY <1>1 DEF Execute
  <2> QED
    BY <1>1, <2>1, <2>2, <2>3, <2>4 DEF Execute, Service!TakeEffect
<1>2. ASSUME NEW r \in Calls, NEW q \in Menu, Call(r, q) PROVE Service!Invoke(r, q)
  BY <1>2 DEF Call, Service!Invoke, ClientInv, CallInv
<1>3. ASSUME NEW r \in Calls, pc[r] \in {"connecting", "draining", "reading"}
      PROVE  request[r] # None /\ answer[r] = None
  BY <1>3, ModelValues DEF ClientInv, CallInv
<1>4. ASSUME NEW r \in Calls, Finish(r, response[r]), response[r] # None,
             pc[r] = "reading"
      PROVE  Service!Answer(r)
  <2>1. /\ answer' = [answer EXCEPT ![r] = response[r]]
        /\ UNCHANGED <<store, request, response, link>>
    BY <1>4 DEF Finish
  <2>2. Broken' = Broken \ {r}
    BY <1>4, <2>1 DEF Broken, ClientInv, ClientTypeOK
  <2> QED
    BY <1>3, <1>4, <2>1, <2>2 DEF Service!Answer, Service!Tell, Broken
<1>5. ASSUME NEW r \in Calls, NEW a \in {Error, Exception}, Finish(r, a),
             pc[r] \in {"draining", "reading"}
      PROVE  Service!Fail(r)
  <2>1. /\ answer' = [answer EXCEPT ![r] = a]
        /\ UNCHANGED <<store, request, response, link>>
    BY <1>5 DEF Finish
  <2>2. Broken' = Broken \ {r}
    BY <2>1, ModelValues DEF Broken, ClientInv, ClientTypeOK
  <2> QED
    BY <1>3, <1>5, <2>1, <2>2 DEF Service!Fail, Service!Tell, Broken
<1>6. ASSUME NEW r \in Calls, ConnectFails(r) PROVE Service!Fail(r)
  <2>1. /\ answer' = [answer EXCEPT ![r] = Error] /\ pc[r] = "connecting"
        /\ UNCHANGED <<store, request, response, link>>
    BY <1>6 DEF ConnectFails
  <2>2. Broken' = Broken \ {r}
    BY <2>1, ModelValues DEF Broken, ClientInv, ClientTypeOK, CallInv
  <2> QED
    BY <1>3, <2>1, <2>2 DEF Service!Fail, Service!Tell, Broken
<1>7. ASSUME NEW r \in Calls, ReadEof(r)
      PROVE  \/ Service!Fail(r) \/ Service!Answer(r) \/ Service!AnswerCut(r)
             \/ UNCHANGED Service!serviceVars
  <2>1. pc[r] = "reading" /\ link[r] = "eof" /\ tail[r] # Exception
    BY <1>7 DEF ReadEof
  <2>2. CASE request[r].cmd # "keys" /\ tail[r] \in {None, Error}
    BY <1>5, <1>7, <2>1, <2>2 DEF ReadEof
  <2>3. CASE request[r].cmd # "keys" /\ tail[r] \notin {None, Error}
    <3>1. /\ response[r] # None
          /\ \/ tail[r] = response[r]
             \/ /\ request[r].cmd = "get" /\ response[r] \in Values
                /\ tail[r] = [cut |-> response[r]]
      BY <2>1, <2>3, TailIsAnswer
    <3>2. Finish(r, tail[r])
      BY <1>7, <2>3 DEF ReadEof
    <3>3. CASE tail[r] = response[r]
      BY <1>4, <2>1, <3>1, <3>2, <3>3
    <3>4. CASE /\ request[r].cmd = "get" /\ response[r] \in Values
               /\ tail[r] = [cut |-> response[r]]
      <4>1. /\ answer' = [answer EXCEPT ![r] = [cut |-> response[r]]]
            /\ UNCHANGED <<store, request, response, link>>
        BY <3>2, <3>4 DEF Finish
      <4>2. [cut |-> response[r]] # None
        BY <3>4, ModelValues DEF Cut
      <4>3. r \in Broken /\ Broken' = Broken \ {r}
        BY <1>3, <2>1, <4>1, <4>2 DEF Broken, ClientInv, ClientTypeOK
      <4> QED
        BY <1>3, <2>1, <3>4, <4>1, <4>3 DEF Service!AnswerCut, Service!Tell, Broken
    <3> QED
      BY <3>1, <3>3, <3>4
  <2>4. CASE request[r].cmd = "keys" /\ tail[r] = End
    BY <1>4, <1>7, <2>1, <2>4, ListingIsResponse DEF ReadEof
  <2>5. CASE request[r].cmd = "keys" /\ tail[r] # End
    BY <1>7, <2>5 DEF ReadEof, Service!serviceVars
  <2> QED
    BY <2>2, <2>3, <2>4, <2>5
<1>8. ASSUME NEW r \in Calls, Connect(r) PROVE UNCHANGED Service!serviceVars
  <2>1. /\ link[r] = "none" /\ link' = [link EXCEPT ![r] = "open"]
        /\ UNCHANGED <<store, request, response, answer>>
    BY <1>8 DEF Connect, ClientInv, CallInv
  <2>2. Broken' = Broken
    BY <2>1 DEF Broken, ClientInv, ClientTypeOK
  <2> QED
    BY <2>1, <2>2 DEF Service!serviceVars, Broken
<1>9. ASSUME NEW r \in Calls, Close(r) PROVE UNCHANGED Service!serviceVars
  <2>1. /\ answer[r] # None /\ link' = [link EXCEPT ![r] = "closed"]
        /\ UNCHANGED <<store, request, response, answer>>
    BY <1>9 DEF Close, ClientInv, CallInv
  <2>2. Broken' = Broken
    BY <2>1 DEF Broken, ClientInv, ClientTypeOK
  <2> QED
    BY <2>1, <2>2 DEF Service!serviceVars, Broken
<1>10. ASSUME NEW r \in Calls, Resume(r)
       PROVE  \/ Service!Fail(r) \/ Service!Answer(r) \/ Service!AnswerCut(r)
              \/ UNCHANGED Service!serviceVars
  <2>1. CASE Drained(r)
    BY <2>1 DEF Drained, Service!serviceVars
  <2>2. CASE Timeout(r) \/ ReadTooLong(r) \/ ReadGarbled(r)
             \/ ReadReset(r)
    BY <2>2, <1>5 DEF Timeout, ReadTooLong, ReadGarbled, ReadReset
  <2>3. ASSUME NEW line \in inbox[r], ReadAnswer(r, line) PROVE Service!Answer(r)
    BY <2>3, <1>4, AnswerIsResponse DEF ReadAnswer
  <2>4. ASSUME NEW line \in inbox[r], ReadKey(r, line)
        PROVE  UNCHANGED Service!serviceVars
    BY <2>4 DEF ReadKey, Service!serviceVars
  <2>5. CASE ReadEnd(r)
    BY <2>5, <1>4, ListingIsResponse DEF ReadEnd
  <2> QED
    BY <1>6, <1>7, <1>8, <1>9, <1>10, <2>1, <2>2, <2>3, <2>4, <2>5 DEF Resume
<1>11. ASSUME NEW k \in Keys, Lose(k) PROVE Service!Lose(k)
  BY <1>11 DEF Lose, Service!Lose
<1>12. CASE Crash
  <2>1. /\ store' = [k \in Keys |-> Absent]
        /\ UNCHANGED <<request, response, answer>>
        /\ \A r \in Calls : /\ link[r] = "eof" => link'[r] = "eof"
                            /\ link'[r] = "eof" => link[r] \in {"open", "eof"}
    BY <1>12 DEF Crash
  <2>2. \A r \in Calls : link[r] \in {"open", "eof"} => request[r] # None
    BY ModelValues DEF ClientInv, CallInv
  <2>3. /\ Broken' \subseteq {r \in Calls : request[r] # None /\ answer[r] = None}
        /\ Broken \subseteq Broken'
    BY <2>1, <2>2 DEF Broken
  <2>4. Service!Die
    BY <2>1, <2>3 DEF Service!Die, Broken
  <2> QED
    BY <2>4 DEF Service!Next
<1>13. ASSUME NEW r \in Calls, Discard(r) \/ Flow(r)
       PROVE  UNCHANGED Service!serviceVars
  BY <1>13 DEF Discard, Flow, Service!serviceVars
<1>14. CASE Restart \/ UNCHANGED clientVars
  BY <1>14 DEF Restart, clientVars, Service!serviceVars
<1> QED
  BY <1>1, <1>2, <1>10, <1>11, <1>12, <1>13, <1>14 DEF Next, Service!Next

\* A caller of the client may rely on CacheService, however many calls overlap
\* and whenever the server dies: answers are results of one moment of the call,
\* listings are whole, a value is cut only if the server has died during the call,
\* no command takes effect twice.
THEOREM ClientRefinement == Spec => ImplementsService
<1>1. Init => Service!Init
  BY DEF Init, Service!Init
<1> QED
  BY <1>1, ClientInvariance, ClientSimulates, PTL
     DEF Spec, ImplementsService, Service!Spec
=============================================================================
