------------------------------ MODULE KeysPage ------------------------------
(***************************************************************************)
(* The key explorer: the page, its form and its table, in the browser.     *)
(* The routes, the cache client and the server behind them are what        *)
(* CacheService promises: a request takes effect at most once, its answer  *)
(* is the result at that moment, and one that fails for the page (an error *)
(* status, axios's timeout) may take effect later all the same.  The event *)
(* loop of the browser runs a handler up to its await, and later its       *)
(* continuation; requests overlap, and are answered in any order.          *)
(***************************************************************************)
EXTENDS Naturals, FiniteSets

CONSTANTS
  MaxCalls, \* bound on the requests under way
  Keys, Values,
  Absent,   \* no value
  Ok,       \* the answer to SET and to DEL of a key that was there
  Error,    \* a failure
  None      \* nothing

Calls == 1..MaxCalls
Pair == Keys \X Values
Listing == [cmd |-> "keys"]
SetKey(k, v) == [cmd |-> "set", key |-> k, value |-> v]
GetKey(k) == [cmd |-> "get", key |-> k]
DelKey(k) == [cmd |-> "del", key |-> k]
Request ==
  [cmd : {"keys"}] \cup [cmd : {"get", "del"}, key : Keys]
    \cup [cmd : {"set"}, key : Keys, value : Values]
Result == [listing : SUBSET Pair] \cup Values \cup {Absent, Ok}

ASSUME KeysAssumption == MaxCalls \in Nat \ {0}
ASSUME KeysNone == None \notin Request \cup Result \cup {"success", "error"}
ASSUME KeysAbsent == Absent \notin Values

VARIABLES
  store,    \* the value of each key
  request,  \* the requests under way, and those given up that may take effect
  effect,   \* the result of each, once it has taken effect
  waiting,  \* the requests whose continuation the page will run
  mounted,  \* the page is on the screen
  keys, loading, error,     \* of the page
  setLoading, setMsg,              \* of the form, left
  getLoading, getResult, getError, \* of the form, right
  since,    \* history: the contents of the store since a change was made
  reported, \* history: the same, since the last change the user was told of
  newest,   \* history: the last fetch that was made, until it is settled
  inOrder   \* history: no fetch has been settled since then

Service == INSTANCE CacheService WITH Exception <- Error, answer <- effect, Menu <- {}, broken <- {}

serverVars == <<store, effect, since>>
tableVars == <<keys, loading, error, inOrder>>
setVars == <<setLoading, setMsg>>
getVars == <<getLoading, getResult, getError>>
keysVars ==
  <<serverVars, request, waiting, mounted, reported, newest, tableVars, setVars, getVars>>

Contents == Service!Pairs

Init ==
  /\ store \in [Keys -> Values \cup {Absent}]
  /\ request = [r \in Calls |-> None] /\ effect = request
  /\ waiting = {} /\ mounted = FALSE
  /\ keys = {} /\ loading = TRUE /\ error = FALSE
  /\ setLoading = FALSE /\ setMsg = None
  /\ getLoading = FALSE /\ getResult = None /\ getError = FALSE
  /\ since = [r \in Calls |-> {}] /\ reported = {Contents}
  /\ newest = 0 /\ inOrder = FALSE

Is(r, cmd) == request[r] # None /\ request[r].cmd = cmd
Pending(cmd) == {r \in waiting : Is(r, cmd)}
Changes == {r \in Calls : Is(r, "set") \/ Is(r, "del")}

-----------------------------------------------------------------------------
\* The server.

\* The histories go on with what the store has become; r has made it so.
Record(r) ==
  /\ since' = [c \in Calls |->
       IF since[c] # {} \/ c = r THEN since[c] \cup {Contents'} ELSE {}]
  /\ reported' = reported \cup {Contents'}

\* A request takes effect; nobody waits for the result of one that was given up.
Execute(r) ==
  /\ r \in waiting \cup Changes /\ effect[r] = None
  /\ store' = Service!Stored(request[r])
  /\ IF r \in waiting
       THEN /\ effect' = [effect EXCEPT ![r] = Service!ResultOf(request[r])]
            /\ UNCHANGED request
            /\ Record(IF r \in Changes THEN r ELSE 0)
       ELSE /\ request' = [request EXCEPT ![r] = None]
            /\ UNCHANGED effect
            /\ Record(0)
  /\ UNCHANGED <<waiting, mounted, newest, tableVars, setVars, getVars>>

\* Another client, expiry or eviction.
Other(k, v) ==
  /\ store[k] # v
  /\ store' = [store EXCEPT ![k] = v]
  /\ Record(0)
  /\ UNCHANGED <<request, effect, waiting, mounted, newest, tableVars,
                 setVars, getVars>>

-----------------------------------------------------------------------------
\* The page's end of a request.

Free == {r \in Calls : request[r] = None}
FreeCall == CHOOSE r \in Free : TRUE

\* A handler sends a request.
Send(q) ==
  /\ Free # {}
  /\ request' = [request EXCEPT ![FreeCall] = q]
  /\ waiting' = waiting \cup {FreeCall}
  /\ UNCHANGED <<effect, since, reported>>

\* Its promise resolves to the answer ...
Resolve(r) ==
  /\ r \in waiting /\ effect[r] # None
  /\ effect' = [effect EXCEPT ![r] = None]
  /\ since' = [since EXCEPT ![r] = {}]
  /\ reported' = IF r \in Changes THEN reported \cap since[r] ELSE reported

\* ... or rejects: the route answers with an error, the connection fails, or 30
\* seconds have passed.  A change that is not in effect yet may still come.
Reject(r) ==
  /\ r \in waiting
  /\ request' = IF r \in Changes /\ effect[r] = None THEN request
                ELSE [request EXCEPT ![r] = None]
  /\ effect' = [effect EXCEPT ![r] = None]
  /\ since' = [since EXCEPT ![r] = {}]
  /\ waiting' = waiting \ {r}
  /\ UNCHANGED reported

\* A continuation makes no further request ...
Return(r) ==
  /\ request' = [request EXCEPT ![r] = None]
  /\ waiting' = waiting \ {r}

\* ... or calls fetchKeys, which runs up to its await.
ReturnFetching(r) ==
  /\ request' = [request EXCEPT ![r] = Listing]
  /\ newest' = r
  /\ UNCHANGED waiting
  /\ loading' = TRUE
  /\ UNCHANGED <<keys, error, inOrder>>

-----------------------------------------------------------------------------
\* fetchKeys, on the first effect of the page and on the button, ...

FetchKeys ==
  /\ Send(Listing)
  /\ newest' = FreeCall
  /\ loading' = TRUE
  /\ UNCHANGED <<store, keys, error, inOrder, setVars, getVars>>

Mount == ~mounted /\ mounted' = TRUE /\ FetchKeys

Refresh == mounted /\ FetchKeys /\ UNCHANGED mounted

Settled(r) ==
  /\ inOrder' = (r = newest)
  /\ newest' = IF r = newest THEN 0 ELSE newest

\* ... and its continuations.
KeysAnswered(r) ==
  /\ Is(r, "keys") /\ Resolve(r) /\ Return(r)
  /\ keys' = effect[r].listing /\ error' = FALSE /\ loading' = FALSE
  /\ Settled(r)
  /\ UNCHANGED <<store, mounted, setVars, getVars>>

\* Fault: the spinner is turned off on success only.
KeysFailedSpins(r) ==
  /\ Is(r, "keys") /\ Reject(r)
  /\ error' = TRUE
  /\ Settled(r)
  /\ UNCHANGED <<store, mounted, keys, loading, setVars, getVars>>

KeysFailed(r) ==
  /\ Is(r, "keys") /\ Reject(r)
  /\ error' = TRUE /\ loading' = FALSE
  /\ Settled(r)
  /\ UNCHANGED <<store, mounted, keys, setVars, getVars>>

\* The user goes to another page: what this one awaits changes it no more, and it
\* is blank when the user comes back.
Leave ==
  /\ mounted /\ mounted' = FALSE
  /\ keys' = {} /\ loading' = TRUE /\ error' = FALSE
  /\ setLoading' = FALSE /\ setMsg' = None
  /\ getLoading' = FALSE /\ getResult' = None /\ getError' = FALSE
  /\ waiting' = {}
  /\ request' = [r \in Calls |->
       IF request[r] # None /\ (r \notin Changes \/ effect[r] # None)
         THEN None ELSE request[r]]
  /\ effect' = [r \in Calls |-> None] /\ since' = [r \in Calls |-> {}]
  /\ newest' = 0 /\ inOrder' = FALSE
  /\ UNCHANGED <<store, reported>>

-----------------------------------------------------------------------------
\* What the page shows of the listing: a spinner stands in for the table.
Table == IF loading THEN {} ELSE keys

\* handleDelete, from a button in a row of the table; a second delete may start
\* before the first is answered.  The snackbar says what became of it, which
\* "reported" records.

Delete(k) ==
  /\ mounted
  /\ \E v \in Values : <<k, v>> \in Table
  /\ Send(DelKey(k))
  /\ UNCHANGED <<store, mounted, newest, tableVars, setVars, getVars>>

\* Fault: the listing on the page is kept.
DeleteAnsweredKeeps(r) ==
  /\ Is(r, "del") /\ Resolve(r) /\ Return(r)
  /\ UNCHANGED <<store, mounted, newest, tableVars, setVars, getVars>>

DeleteAnswered(r) ==
  /\ Is(r, "del") /\ Resolve(r) /\ ReturnFetching(r)
  /\ UNCHANGED <<store, mounted, setVars, getVars>>

DeleteFailed(r) ==
  /\ Is(r, "del") /\ Reject(r)
  /\ UNCHANGED <<store, mounted, newest, tableVars, setVars, getVars>>

-----------------------------------------------------------------------------
\* The form: handleSet and handleGet.  The fields stay editable; a button is
\* disabled while its request is under way, and with it the Enter key.

\* Fault: the button stays enabled.
CanSetAgain == mounted

CanSet == mounted /\ ~setLoading

Set(k, v) ==
  /\ CanSet
  /\ Send(SetKey(k, v))
  /\ setLoading' = TRUE /\ setMsg' = None
  /\ UNCHANGED <<store, mounted, newest, tableVars, getVars>>

SetAnswered(r) ==
  /\ Is(r, "set") /\ Resolve(r) /\ ReturnFetching(r)
  /\ setLoading' = FALSE /\ setMsg' = "success"
  /\ UNCHANGED <<store, mounted, getVars>>

SetFailed(r) ==
  /\ Is(r, "set") /\ Reject(r)
  /\ setLoading' = FALSE /\ setMsg' = "error"
  /\ UNCHANGED <<store, mounted, newest, tableVars, getVars>>

CanGet == mounted /\ ~getLoading

Get(k) ==
  /\ CanGet
  /\ Send(GetKey(k))
  /\ getLoading' = TRUE /\ getResult' = None /\ getError' = FALSE
  /\ UNCHANGED <<store, mounted, newest, tableVars, setVars>>

GetAnswered(r) ==
  /\ Is(r, "get") /\ effect[r] # Absent /\ Resolve(r) /\ Return(r)
  /\ getLoading' = FALSE /\ getResult' = effect[r]
  /\ UNCHANGED <<store, mounted, newest, tableVars, setVars, getError>>

\* The promise of a key that is not there rejects too: the route answers 404.
GetFailed(r) ==
  /\ Is(r, "get") /\ Reject(r)
  /\ getLoading' = FALSE /\ getError' = TRUE
  /\ UNCHANGED <<store, mounted, newest, tableVars, setVars, getResult>>

-----------------------------------------------------------------------------
Continue(r) ==
  \/ KeysAnswered(r) \/ KeysFailed(r)
  \/ DeleteAnswered(r) \/ DeleteFailed(r)
  \/ SetAnswered(r) \/ SetFailed(r)
  \/ GetAnswered(r) \/ GetFailed(r)

Next ==
  \/ \E r \in Calls : Execute(r) \/ Continue(r)
  \/ \E k \in Keys : \/ Delete(k) \/ Get(k)
                     \/ \E v \in Values : Set(k, v)
                     \/ \E v \in Values \cup {Absent} : Other(k, v)
  \/ Mount \/ Refresh \/ Leave

Spec == Init /\ [][Next]_keysVars

\* axios gives up on a request after 30 seconds; nothing is assumed of the server.
FairSpec == Spec /\ \A r \in Calls : WF_keysVars(Continue(r))

-----------------------------------------------------------------------------
KeysTypeOK ==
  /\ store \in [Keys -> Values \cup {Absent}]
  /\ \A r \in Calls : effect[r] # None => r \in waiting
  /\ waiting \cap Free = {} /\ \A r \in Calls \ waiting : r \in Free \cup Changes
  /\ \A r \in Calls : since[r] \subseteq SUBSET Pair
  /\ reported \subseteq SUBSET Pair /\ Contents \in reported
  /\ keys \subseteq Pair /\ newest \in 0..MaxCalls
  /\ {mounted, loading, error, inOrder, setLoading, getLoading, getError} \subseteq BOOLEAN
  /\ setMsg \in {None, "success", "error"}
  /\ getResult \in Values \cup {None}

\* What the page has told the user of, it shows: once nothing is being fetched,
\* and unless the answers of two fetches came in the other order, the table is the
\* store as it was after every SET and DEL that was reported as done, whatever
\* overlapped, failed, or was left behind with an earlier visit to the page.
TableShowsChanges ==
  mounted /\ ~error /\ inOrder /\ Pending("keys") = {} => Table \in reported

\* Without that exception.  An older listing that arrives last stays on the page.
TableAlwaysShowsChanges ==
  mounted /\ ~error /\ Pending("keys") = {} => Table \in reported

\* A form shows the outcome of the request it sent last, and none before it is
\* known: no second request is under way that could replace it.
FormsShowLatest ==
  /\ Cardinality(Pending("set")) <= 1 /\ Cardinality(Pending("get")) <= 1
  /\ setMsg # None => Pending("set") = {}
  /\ getResult # None \/ getError => Pending("get") = {}
  /\ ~(getResult # None /\ getError)

\* Although fetches overlap, and a server may be slow or dead, the spinner that
\* stands in for the table does not turn for ever.
SpinnerStops == loading ~> ~loading \/ ~mounted
=============================================================================
