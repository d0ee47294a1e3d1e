---------------------------- MODULE CacheService ----------------------------
(***************************************************************************)
(* What a caller of the backend's cache client may rely on.  A command     *)
(* takes effect at most once and never before it is called; an answer is   *)
(* the result at that moment, which lies inside the call.  A call that     *)
(* fails says nothing: its command may have taken effect, may still, or    *)
(* may never.  Entries may go at any time (expiry, eviction), and all of   *)
(* them do when the server dies.  A value is whole, unless the server died *)
(* while it was being answered.                                            *)
(***************************************************************************)
CONSTANTS
  Calls,     \* the calls, each made once
  Menu,      \* the commands a call may send
  Keys, Values,
  Absent,    \* no value; also the answer NOT_FOUND
  Ok,        \* the answer OK
  Error,     \* CacheClientError
  Exception, \* any other exception
  None       \* nothing yet

VARIABLES
  store,     \* the value of each key
  request,   \* what each call asks for
  effect,    \* the result of its command, once it has taken effect
  answer,    \* what the caller is told
  broken     \* the calls under way whose connection the server's end has ended

serviceVars == <<store, request, effect, answer, broken>>

Pairs == {<<k, store[k]>> : k \in {h \in Keys : store[h] # Absent}}

ResultOf(q) ==
  CASE q.cmd = "get" -> store[q.key]
    [] q.cmd = "del" -> IF store[q.key] = Absent THEN Absent ELSE Ok
    [] q.cmd = "keys" -> [listing |-> Pairs]
    [] OTHER -> Ok

Stored(q) ==
  CASE q.cmd = "set" -> [store EXCEPT ![q.key] = q.value]
    [] q.cmd = "del" -> [store EXCEPT ![q.key] = Absent]
    [] OTHER -> store

\* The server may hold entries already.
Init ==
  /\ store \in [Keys -> Values \cup {Absent}]
  /\ request = [r \in Calls |-> None]
  /\ effect = [r \in Calls |-> None]
  /\ answer = [r \in Calls |-> None]
  /\ broken = {}

Invoke(r, q) ==
  /\ request[r] = None
  /\ request' = [request EXCEPT ![r] = q]
  /\ UNCHANGED <<store, effect, answer, broken>>

TakeEffect(r) ==
  /\ request[r] # None /\ effect[r] = None
  /\ effect' = [effect EXCEPT ![r] = ResultOf(request[r])]
  /\ store' = Stored(request[r])
  /\ UNCHANGED <<request, answer, broken>>

Tell(r, a) ==
  /\ request[r] # None /\ answer[r] = None
  /\ answer' = [answer EXCEPT ![r] = a]
  /\ broken' = broken \ {r}
  /\ UNCHANGED <<store, request, effect>>

Answer(r) == effect[r] # None /\ Tell(r, effect[r])

\* [cut |-> v] stands for what begins like v and is shorter.
AnswerCut(r) ==
  /\ r \in broken
  /\ request[r].cmd = "get" /\ effect[r] \in Values
  /\ Tell(r, [cut |-> effect[r]])

Fail(r) == \E failure \in {Error, Exception} : Tell(r, failure)

Lose(k) ==
  /\ store' = [store EXCEPT ![k] = Absent]
  /\ UNCHANGED <<request, effect, answer, broken>>

\* The server dies.
Die ==
  /\ store' = [k \in Keys |-> Absent]
  /\ broken' \in SUBSET {r \in Calls : request[r] # None /\ answer[r] = None}
  /\ broken \subseteq broken'
  /\ UNCHANGED <<request, effect, answer>>

Next ==
  \/ \E r \in Calls : \/ \E q \in Menu : Invoke(r, q)
                      \/ TakeEffect(r) \/ Answer(r) \/ AnswerCut(r) \/ Fail(r)
  \/ \E k \in Keys : Lose(k)
  \/ Die

Spec == Init /\ [][Next]_serviceVars
=============================================================================
