--------------------------- MODULE KeysPageProofs ---------------------------
(***************************************************************************)
(* Proofs about KeysPage, for any number of overlapping requests and every *)
(* set of keys and values: types, that the forms show the outcome of their *)
(* last request, and that the table shows what the user was told.          *)
(***************************************************************************)
EXTENDS KeysPage, FiniteSetTheorems, TLAPS

\* The page's fields and the histories.
PageType ==
  /\ store \in [Keys -> Values \cup {Absent}]
  /\ request \in [Calls -> Request \cup {None}]
  /\ effect \in [Calls -> Result \cup {None}]
  /\ waiting \subseteq Calls
  /\ since \in [Calls -> SUBSET (SUBSET Pair)]
  /\ reported \subseteq SUBSET Pair
  /\ keys \subseteq Pair /\ newest \in 0..MaxCalls
  /\ setMsg \in {None, "success", "error"}
  /\ getResult \in Values \cup {None}

Flags ==
  /\ mounted \in BOOLEAN /\ loading \in BOOLEAN /\ error \in BOOLEAN
  /\ inOrder \in BOOLEAN /\ setLoading \in BOOLEAN
  /\ getLoading \in BOOLEAN /\ getError \in BOOLEAN

\* What is awaited was asked for, what is not is a change that was given up; a result
\* is of the kind its request calls for; and while a change that is in effect waits to
\* be answered, its history has what the store is.
CallInv(r) ==
  /\ r \in waiting => request[r] # None
  /\ r \notin waiting /\ request[r] # None => r \in Changes
  /\ effect[r] # None => r \in waiting
  /\ effect[r] # None /\ Is(r, "keys") => effect[r] \in [listing : SUBSET Pair]
  /\ effect[r] # None /\ Is(r, "get") => effect[r] \in Values \cup {Absent}
  /\ effect[r] # None /\ r \in Changes => Contents \in since[r]

\* The newest fetch is under way, and what it has read was read since the last change
\* the user was told of: that change is what made it, or came before it.
FetchInv ==
  /\ Contents \in reported
  /\ newest # 0 => newest \in Pending("keys")
  /\ newest # 0 /\ effect[newest] # None => effect[newest].listing \in reported
  /\ inOrder /\ newest = 0 /\ ~error => keys \in reported
  /\ mounted /\ loading => Pending("keys") # {}

\* Each form waits for one request at most, and shows nothing meanwhile.
FormInv ==
  /\ \A r, s \in Pending("set") : r = s
  /\ \A r, s \in Pending("get") : r = s
  /\ Pending("set") # {} => setLoading /\ setMsg = None
  /\ Pending("get") # {} => getLoading /\ getResult = None /\ ~getError
  /\ ~(getResult # None /\ getError)

KeysInv == PageType /\ Flags /\ (\A r \in Calls : CallInv(r)) /\ FetchInv /\ FormInv

-----------------------------------------------------------------------------
\* The shapes of requests.
LEMMA Requests ==
  /\ Listing \in Request /\ Listing.cmd = "keys"
  /\ \A k \in Keys : GetKey(k) \in Request /\ GetKey(k).cmd = "get"
                     /\ DelKey(k) \in Request /\ DelKey(k).cmd = "del"
  /\ \A k \in Keys, v \in Values : SetKey(k, v) \in Request /\ SetKey(k, v).cmd = "set"
  /\ \A q \in Request : q # None
<1>1. Listing \in Request /\ Listing.cmd = "keys"
  BY DEF Request, Listing
<1>2. ASSUME NEW k \in Keys
      PROVE  /\ GetKey(k) \in Request /\ GetKey(k).cmd = "get"
             /\ DelKey(k) \in Request /\ DelKey(k).cmd = "del"
  BY DEF Request, GetKey, DelKey
<1>3. ASSUME NEW k \in Keys, NEW v \in Values
      PROVE  SetKey(k, v) \in Request /\ SetKey(k, v).cmd = "set"
  BY DEF Request, SetKey
<1>4. \A q \in Request : q # None
  BY KeysNone
<1> QED
  BY <1>1, <1>2, <1>3, <1>4

\* What the store becomes, and answers, when a request takes effect.
LEMMA Effects ==
  ASSUME store \in [Keys -> Values \cup {Absent}], NEW q \in Request
  PROVE  /\ Contents \in SUBSET Pair
         /\ Service!Stored(q) \in [Keys -> Values \cup {Absent}]
         /\ Service!ResultOf(q) \in Result
         /\ q.cmd = "keys" => /\ Service!ResultOf(q) = [listing |-> Contents]
                              /\ Service!Stored(q) = store
         /\ q.cmd = "get" => Service!ResultOf(q) \in Values \cup {Absent}
<1>1. Contents \in SUBSET Pair
  BY DEF Contents, Service!Pairs, Pair
<1>2. CASE q \in [cmd : {"keys"}]
  <2>1. q.cmd = "keys"
    BY <1>2
  <2>2. Service!ResultOf(q) = [listing |-> Contents] /\ Service!Stored(q) = store
    BY <2>1 DEF Service!ResultOf, Service!Stored, Contents
  <2> QED
    BY <1>1, <2>1, <2>2 DEF Result
<1>3. CASE q \in [cmd : {"get", "del"}, key : Keys]
  BY <1>1, <1>3 DEF Service!ResultOf, Service!Stored, Result
<1>4. CASE q \in [cmd : {"set"}, key : Keys, value : Values]
  BY <1>1, <1>4 DEF Service!ResultOf, Service!Stored, Result
<1> QED
  BY <1>2, <1>3, <1>4 DEF Request

LEMMA ContentsPrime ==
  ASSUME store' \in [Keys -> Values \cup {Absent}]
  PROVE  Contents' \in SUBSET Pair
BY DEF Contents, Service!Pairs, Pair

LEMMA InitInv == Init => KeysInv
<1> SUFFICES ASSUME Init PROVE KeysInv
  OBVIOUS
<1>1. Contents \in SUBSET Pair
  BY DEF Init, Contents, Service!Pairs, Pair
<1>2. PageType
  <2>1. newest \in 0..MaxCalls
    BY KeysAssumption DEF Init
  <2>2. since \in [Calls -> SUBSET (SUBSET Pair)]
    BY DEF Init
  <2>3. reported \subseteq SUBSET Pair
    BY <1>1 DEF Init
  <2> QED
    BY <2>1, <2>2, <2>3 DEF Init, PageType
<1>5. Flags
  BY DEF Init, Flags
<1>3. \A r \in Calls : CallInv(r)
  BY DEF Init, CallInv
<1>4. FetchInv /\ FormInv
  BY DEF Init, FetchInv, FormInv, Pending
<1> QED
  BY <1>2, <1>3, <1>4, <1>5 DEF KeysInv

-----------------------------------------------------------------------------
\* What every handler's request does to the requests under way.
LEMMA SendInv ==
  ASSUME KeysInv, NEW q \in Request, Send(q), store' = store
  PROVE  /\ FreeCall \in Calls \ waiting /\ FreeCall # newest
         /\ request' \in [Calls -> Request \cup {None}] /\ waiting' \subseteq Calls
         /\ Contents' = Contents
         /\ \A r \in Calls : CallInv(r)'
         /\ \A c \in {"keys", "set", "get"} :
              Pending(c)' = IF q.cmd = c THEN Pending(c) \cup {FreeCall} ELSE Pending(c)
<1>1. FreeCall \in Free
  BY DEF Send, FreeCall
<1>2. FreeCall \in Calls /\ request[FreeCall] = None /\ FreeCall \notin waiting
  BY <1>1 DEF Free, KeysInv, CallInv
<1>3. FreeCall # newest
  BY <1>2, KeysAssumption DEF KeysInv, FetchInv, Pending, Calls
<1>4. Contents' = Contents
  BY DEF Contents, Service!Pairs
<1>5. request' \in [Calls -> Request \cup {None}] /\ waiting' \subseteq Calls
  BY <1>2 DEF KeysInv, PageType, Send
<1>6. ASSUME NEW r \in Calls PROVE CallInv(r)'
  BY <1>2, <1>4, <1>6, Requests DEF KeysInv, PageType, CallInv, Send, Changes, Is
<1>7. ASSUME NEW c \in {"keys", "set", "get"}
      PROVE  Pending(c)' = IF q.cmd = c THEN Pending(c) \cup {FreeCall} ELSE Pending(c)
  BY <1>2, <1>7, Requests DEF KeysInv, PageType, Pending, Send, Is
<1> QED
  BY <1>2, <1>3, <1>4, <1>5, <1>6, <1>7

\* A continuation that makes no further request; of a change it makes one.
LEMMA ReturnInv ==
  ASSUME KeysInv, NEW r \in Calls, store' = store, Resolve(r), Return(r), r \notin Changes
  PROVE  /\ request' \in [Calls -> Request \cup {None}] /\ waiting' \subseteq Calls
         /\ effect' \in [Calls -> Result \cup {None}]
         /\ since' \in [Calls -> SUBSET (SUBSET Pair)]
         /\ Contents' = Contents /\ reported' = reported
         /\ \A s \in Calls : s # r => effect'[s] = effect[s]
         /\ \A s \in Calls : CallInv(s)'
         /\ \A c \in {"keys", "set", "get"} : Pending(c)' = Pending(c) \ {r}
<1>1. Contents' = Contents
  BY DEF Contents, Service!Pairs
<1>2. /\ request' \in [Calls -> Request \cup {None}] /\ waiting' \subseteq Calls
      /\ effect' \in [Calls -> Result \cup {None}]
      /\ since' \in [Calls -> SUBSET (SUBSET Pair)]
  BY DEF KeysInv, PageType, Resolve, Return
<1>3. ASSUME NEW s \in Calls PROVE CallInv(s)'
  BY <1>1, <1>3 DEF KeysInv, PageType, CallInv, Resolve, Return, Changes, Is
<1>4. ASSUME NEW c \in {"keys", "set", "get"} PROVE Pending(c)' = Pending(c) \ {r}
  BY <1>4 DEF KeysInv, PageType, Pending, Resolve, Return, Is
<1>5. reported' = reported /\ \A s \in Calls : s # r => effect'[s] = effect[s]
  BY DEF KeysInv, PageType, Resolve
<1> QED
  BY <1>1, <1>2, <1>3, <1>4, <1>5

LEMMA ReturnFetchingInv ==
  ASSUME KeysInv, NEW r \in Calls, store' = store, Resolve(r), ReturnFetching(r), r \in Changes
  PROVE  /\ request' \in [Calls -> Request \cup {None}]
         /\ effect' \in [Calls -> Result \cup {None}]
         /\ since' \in [Calls -> SUBSET (SUBSET Pair)]
         /\ reported' \subseteq SUBSET Pair
         /\ Contents' = Contents /\ Contents \in reported'
         /\ \A s \in Calls : CallInv(s)'
         /\ effect'[r] = None /\ r \in Pending("keys")'
         /\ \A c \in {"set", "get"} : Pending(c)' = Pending(c) \ {r}
<1>1. Contents' = Contents
  BY DEF Contents, Service!Pairs
<1>2. /\ request' \in [Calls -> Request \cup {None}]
      /\ effect' \in [Calls -> Result \cup {None}]
      /\ since' \in [Calls -> SUBSET (SUBSET Pair)]
      /\ effect'[r] = None
  BY Requests DEF KeysInv, PageType, Resolve, ReturnFetching
<1>3. reported' \subseteq SUBSET Pair /\ Contents \in reported'
  BY DEF KeysInv, PageType, CallInv, FetchInv, Resolve
<1>4. ASSUME NEW s \in Calls PROVE CallInv(s)'
  BY <1>1, <1>4, Requests
  DEF KeysInv, PageType, CallInv, Resolve, ReturnFetching, Changes, Is
<1>5. r \in Pending("keys")'
  BY Requests DEF KeysInv, PageType, Pending, Resolve, ReturnFetching, Is
<1>6. ASSUME NEW c \in {"set", "get"} PROVE Pending(c)' = Pending(c) \ {r}
  BY <1>6, Requests DEF KeysInv, PageType, Pending, Resolve, ReturnFetching, Is
<1> QED
  BY <1>1, <1>2, <1>3, <1>4, <1>5, <1>6

\* A request that fails, whether or not its change may still take effect.
LEMMA RejectInv ==
  ASSUME KeysInv, NEW r \in Calls, store' = store, Reject(r)
  PROVE  /\ request' \in [Calls -> Request \cup {None}] /\ waiting' \subseteq Calls
         /\ effect' \in [Calls -> Result \cup {None}]
         /\ since' \in [Calls -> SUBSET (SUBSET Pair)]
         /\ Contents' = Contents /\ reported' = reported
         /\ \A s \in Calls : s # r => effect'[s] = effect[s]
         /\ \A s \in Calls : CallInv(s)'
         /\ \A c \in {"keys", "set", "get"} : Pending(c)' = Pending(c) \ {r}
<1>1. Contents' = Contents
  BY DEF Contents, Service!Pairs
<1>2. /\ request' \in [Calls -> Request \cup {None}] /\ waiting' \subseteq Calls
      /\ effect' \in [Calls -> Result \cup {None}]
      /\ since' \in [Calls -> SUBSET (SUBSET Pair)]
  BY DEF KeysInv, PageType, Reject
<1>3. ASSUME NEW s \in Calls PROVE CallInv(s)'
  BY <1>1, <1>3 DEF KeysInv, PageType, CallInv, Reject, Changes, Is
<1>4. ASSUME NEW c \in {"keys", "set", "get"} PROVE Pending(c)' = Pending(c) \ {r}
  BY <1>4 DEF KeysInv, PageType, Pending, Reject, Is
<1>5. reported' = reported /\ \A s \in Calls : s # r => effect'[s] = effect[s]
  BY DEF KeysInv, PageType, Reject
<1> QED
  BY <1>1, <1>2, <1>3, <1>4, <1>5

-----------------------------------------------------------------------------
\* The steps of the page.

LEMMA FetchStep ==
  ASSUME KeysInv, FetchKeys, mounted' \in BOOLEAN
  PROVE  KeysInv'
<1>1. Listing \in Request /\ Listing.cmd = "keys" /\ Send(Listing) /\ store' = store
  BY Requests DEF FetchKeys
<1> DEFINE f == FreeCall
<1>2. /\ f \in Calls
      /\ request' \in [Calls -> Request \cup {None}] /\ waiting' \subseteq Calls
      /\ Contents' = Contents
      /\ \A r \in Calls : CallInv(r)'
      /\ Pending("keys")' = Pending("keys") \cup {f}
      /\ Pending("set")' = Pending("set") /\ Pending("get")' = Pending("get")
      /\ effect[f] = None
  BY <1>1, SendInv DEF KeysInv, CallInv
<1>3. PageType' /\ Flags'
  BY <1>1, <1>2 DEF KeysInv, PageType, Flags, FetchKeys, Send, setVars, getVars, Calls
<1>4. FetchInv'
  BY <1>1, <1>2, KeysAssumption DEF KeysInv, FetchInv, FetchKeys, Send, Calls
<1>5. FormInv'
  BY <1>2 DEF KeysInv, FormInv, FetchKeys, setVars, getVars
<1> QED
  BY <1>2, <1>3, <1>4, <1>5 DEF KeysInv

LEMMA KeysAnsweredStep ==
  ASSUME KeysInv, NEW r \in Calls, KeysAnswered(r)
  PROVE  KeysInv'
<1>1. store' = store /\ Resolve(r) /\ Return(r) /\ r \notin Changes /\ r \in Pending("keys")
  BY DEF KeysAnswered, Is, Changes, Resolve, Pending
<1>2. /\ request' \in [Calls -> Request \cup {None}] /\ waiting' \subseteq Calls
      /\ effect' \in [Calls -> Result \cup {None}]
      /\ since' \in [Calls -> SUBSET (SUBSET Pair)]
      /\ Contents' = Contents /\ reported' = reported
      /\ \A s \in Calls : s # r => effect'[s] = effect[s]
      /\ \A s \in Calls : CallInv(s)'
      /\ Pending("keys")' = Pending("keys") \ {r}
      /\ Pending("set")' = Pending("set") \ {r} /\ Pending("get")' = Pending("get") \ {r}
  BY <1>1, ReturnInv
<1>3. effect[r] \in [listing : SUBSET Pair]
  BY <1>1 DEF KeysInv, CallInv, KeysAnswered, Resolve
<1>4. PageType'
  BY <1>2, <1>3, KeysAssumption DEF KeysInv, PageType, KeysAnswered, Settled, setVars, getVars
<1>5. Flags'
  BY DEF KeysInv, Flags, KeysAnswered, Settled, setVars, getVars
<1>6. FetchInv'
  <2>1. /\ effect[r] # None /\ keys' = effect[r].listing
        /\ inOrder' => r = newest
        /\ newest' = IF r = newest THEN 0 ELSE newest
    BY DEF KeysAnswered, Settled, Resolve
  <2>2. r # 0 /\ 0 \notin Calls
    BY KeysAssumption DEF Calls
  <2>3. inOrder' => keys' \in reported'
    BY <1>2, <2>1, <2>2 DEF KeysInv, FetchInv
  <2>4. newest' # 0 => newest' \in Pending("keys")'
    BY <1>2, <2>1 DEF KeysInv, FetchInv
  <2>5. newest' # 0 /\ effect'[newest'] # None => effect'[newest'].listing \in reported'
    BY <1>2, <2>1 DEF KeysInv, FetchInv, Pending, PageType
  <2>6. Contents' \in reported' /\ loading' = FALSE
    BY <1>2 DEF KeysInv, FetchInv, KeysAnswered
  <2> QED
    BY <2>3, <2>4, <2>5, <2>6 DEF FetchInv
<1>7. FormInv'
  BY <1>2 DEF KeysInv, FormInv, KeysAnswered, setVars, getVars
<1> QED
  BY <1>2, <1>4, <1>5, <1>6, <1>7 DEF KeysInv

LEMMA KeysFailedStep ==
  ASSUME KeysInv, NEW r \in Calls, KeysFailed(r)
  PROVE  KeysInv'
<1>1. store' = store /\ Reject(r) /\ r \in Pending("keys")
  BY DEF KeysFailed, Reject, Pending
<1>2. /\ request' \in [Calls -> Request \cup {None}] /\ waiting' \subseteq Calls
      /\ effect' \in [Calls -> Result \cup {None}]
      /\ since' \in [Calls -> SUBSET (SUBSET Pair)]
      /\ Contents' = Contents /\ reported' = reported
      /\ \A s \in Calls : s # r => effect'[s] = effect[s]
      /\ \A s \in Calls : CallInv(s)'
      /\ Pending("keys")' = Pending("keys") \ {r}
      /\ Pending("set")' = Pending("set") \ {r} /\ Pending("get")' = Pending("get") \ {r}
  BY <1>1, RejectInv
<1>3. PageType'
  BY <1>2, KeysAssumption DEF KeysInv, PageType, KeysFailed, Settled, setVars, getVars
<1>4. Flags'
  BY DEF KeysInv, Flags, KeysFailed, Settled, setVars, getVars
<1>5. FetchInv'
  BY <1>2, <1>1, KeysAssumption DEF KeysInv, PageType, FetchInv, KeysFailed, Settled, Calls
<1>6. FormInv'
  BY <1>2 DEF KeysInv, FormInv, KeysFailed, setVars, getVars
<1> QED
  BY <1>2, <1>3, <1>4, <1>5, <1>6 DEF KeysInv

LEMMA GetAnsweredStep ==
  ASSUME KeysInv, NEW r \in Calls, GetAnswered(r)
  PROVE  KeysInv'
<1>1. store' = store /\ Resolve(r) /\ Return(r) /\ r \notin Changes /\ r \in Pending("get")
  BY DEF GetAnswered, Is, Changes, Resolve, Pending
<1>2. /\ request' \in [Calls -> Request \cup {None}] /\ waiting' \subseteq Calls
      /\ effect' \in [Calls -> Result \cup {None}]
      /\ since' \in [Calls -> SUBSET (SUBSET Pair)]
      /\ Contents' = Contents /\ reported' = reported
      /\ \A s \in Calls : s # r => effect'[s] = effect[s]
      /\ \A s \in Calls : CallInv(s)'
      /\ Pending("keys")' = Pending("keys") \ {r}
      /\ Pending("set")' = Pending("set") \ {r} /\ Pending("get")' = Pending("get") \ {r}
  BY <1>1, ReturnInv
<1>3. effect[r] \in Values /\ r \notin Pending("keys")
  BY <1>1 DEF KeysInv, CallInv, GetAnswered, Resolve, Is, Pending
<1>4. PageType'
  BY <1>2, <1>3 DEF KeysInv, PageType, GetAnswered, tableVars, setVars, getVars
<1>5. Flags'
  BY DEF KeysInv, Flags, GetAnswered, tableVars, setVars
<1>6. FetchInv'
  BY <1>2, <1>3 DEF KeysInv, PageType, FetchInv, GetAnswered, tableVars, Pending
<1>7. FormInv'
  BY <1>1, <1>2 DEF KeysInv, FormInv, GetAnswered, setVars
<1> QED
  BY <1>2, <1>4, <1>5, <1>6, <1>7 DEF KeysInv

LEMMA GetFailedStep ==
  ASSUME KeysInv, NEW r \in Calls, GetFailed(r)
  PROVE  KeysInv'
<1>1. store' = store /\ Reject(r) /\ r \in Pending("get") /\ r \notin Pending("keys")
  BY DEF GetFailed, Reject, Pending, Is
<1>2. /\ request' \in [Calls -> Request \cup {None}] /\ waiting' \subseteq Calls
      /\ effect' \in [Calls -> Result \cup {None}]
      /\ since' \in [Calls -> SUBSET (SUBSET Pair)]
      /\ Contents' = Contents /\ reported' = reported
      /\ \A s \in Calls : s # r => effect'[s] = effect[s]
      /\ \A s \in Calls : CallInv(s)'
      /\ Pending("keys")' = Pending("keys") \ {r}
      /\ Pending("set")' = Pending("set") \ {r} /\ Pending("get")' = Pending("get") \ {r}
  BY <1>1, RejectInv
<1>3. PageType'
  BY <1>2 DEF KeysInv, PageType, GetFailed, tableVars, setVars
<1>4. Flags'
  BY DEF KeysInv, Flags, GetFailed, tableVars, setVars
<1>5. FetchInv'
  BY <1>1, <1>2 DEF KeysInv, PageType, FetchInv, GetFailed, tableVars, Pending
<1>6. FormInv'
  BY <1>1, <1>2 DEF KeysInv, FormInv, GetFailed, setVars
<1> QED
  BY <1>2, <1>3, <1>4, <1>5, <1>6 DEF KeysInv

\* A change that is answered: its fetch is the newest, and what the page shows of
\* before does not count until it settles.
LEMMA ChangeAnsweredStep ==
  ASSUME KeysInv, NEW r \in Calls, SetAnswered(r) \/ DeleteAnswered(r)
  PROVE  KeysInv'
<1>1. store' = store /\ Resolve(r) /\ ReturnFetching(r) /\ r \in Changes
      /\ mounted' = mounted
  BY DEF SetAnswered, DeleteAnswered, Is, Changes
<1>2. /\ request' \in [Calls -> Request \cup {None}]
      /\ effect' \in [Calls -> Result \cup {None}]
      /\ since' \in [Calls -> SUBSET (SUBSET Pair)]
      /\ reported' \subseteq SUBSET Pair
      /\ Contents' = Contents /\ Contents \in reported'
      /\ \A s \in Calls : CallInv(s)'
      /\ effect'[r] = None /\ r \in Pending("keys")'
      /\ Pending("set")' = Pending("set") \ {r} /\ Pending("get")' = Pending("get") \ {r}
  BY <1>1, ReturnFetchingInv
<1>3. r # 0 /\ r \in 0..MaxCalls
  BY KeysAssumption DEF Calls
<1>4. /\ waiting' = waiting /\ newest' = r /\ loading' = TRUE
      /\ keys' = keys /\ error' = error /\ inOrder' = inOrder
  BY <1>1 DEF ReturnFetching
<1>5. FetchInv'
  BY <1>2, <1>3, <1>4 DEF FetchInv
<1>6. CASE SetAnswered(r)
  <2>1. r \in Pending("set")
    BY <1>1, <1>6 DEF SetAnswered, Pending, Resolve
  <2>2. /\ setLoading' = FALSE /\ setMsg' = "success"
        /\ getLoading' = getLoading /\ getResult' = getResult /\ getError' = getError
    BY <1>6 DEF SetAnswered, getVars
  <2>3. PageType'
    BY <1>1, <1>2, <1>3, <1>4, <2>2 DEF KeysInv, PageType
  <2>4. Flags'
    BY <1>1, <1>4, <2>2 DEF KeysInv, Flags
  <2>5. FormInv'
    BY <1>2, <2>1, <2>2 DEF KeysInv, FormInv
  <2> QED
    BY <1>2, <1>5, <2>3, <2>4, <2>5 DEF KeysInv
<1>7. CASE DeleteAnswered(r)
  <2>1. /\ setLoading' = setLoading /\ setMsg' = setMsg
        /\ getLoading' = getLoading /\ getResult' = getResult /\ getError' = getError
    BY <1>7 DEF DeleteAnswered, setVars, getVars
  <2>2. PageType'
    BY <1>1, <1>2, <1>3, <1>4, <2>1 DEF KeysInv, PageType
  <2>3. Flags'
    BY <1>1, <1>4, <2>1 DEF KeysInv, Flags
  <2>4. FormInv'
    BY <1>2, <2>1 DEF KeysInv, FormInv
  <2> QED
    BY <1>2, <1>5, <2>2, <2>3, <2>4 DEF KeysInv
<1> QED
  BY <1>6, <1>7

LEMMA ChangeFailedStep ==
  ASSUME KeysInv, NEW r \in Calls, SetFailed(r) \/ DeleteFailed(r)
  PROVE  KeysInv'
<1>1. /\ store' = store /\ Reject(r) /\ r \notin Pending("keys")
      /\ mounted' = mounted /\ newest' = newest /\ keys' = keys /\ loading' = loading
      /\ error' = error /\ inOrder' = inOrder
      /\ getLoading' = getLoading /\ getResult' = getResult /\ getError' = getError
  BY DEF SetFailed, DeleteFailed, Reject, Pending, Is, tableVars, getVars
<1>2. /\ request' \in [Calls -> Request \cup {None}] /\ waiting' \subseteq Calls
      /\ effect' \in [Calls -> Result \cup {None}]
      /\ since' \in [Calls -> SUBSET (SUBSET Pair)]
      /\ Contents' = Contents /\ reported' = reported
      /\ \A s \in Calls : s # r => effect'[s] = effect[s]
      /\ \A s \in Calls : CallInv(s)'
      /\ Pending("keys")' = Pending("keys") \ {r}
      /\ Pending("set")' = Pending("set") \ {r} /\ Pending("get")' = Pending("get") \ {r}
  BY <1>1, RejectInv
<1>3. FetchInv'
  BY <1>1, <1>2 DEF KeysInv, PageType, FetchInv, Pending
<1>4. CASE SetFailed(r)
  <2>1. setLoading' = FALSE /\ setMsg' = "error" /\ r \in Pending("set")
    BY <1>4 DEF SetFailed, Pending, Reject
  <2> QED
    BY <1>1, <1>2, <1>3, <2>1 DEF KeysInv, PageType, Flags, FormInv
<1>5. CASE DeleteFailed(r)
  <2>1. setLoading' = setLoading /\ setMsg' = setMsg
    BY <1>5 DEF DeleteFailed, setVars
  <2> QED
    BY <1>1, <1>2, <1>3, <2>1 DEF KeysInv, PageType, Flags, FormInv
<1> QED
  BY <1>4, <1>5

\* The requests of the table and of the form.
LEMMA DeleteStep ==
  ASSUME KeysInv, NEW k \in Keys, Delete(k)
  PROVE  KeysInv'
<1>1. /\ Send(DelKey(k)) /\ DelKey(k) \in Request /\ DelKey(k).cmd = "del"
      /\ store' = store /\ mounted' = mounted /\ newest' = newest
      /\ keys' = keys /\ loading' = loading /\ error' = error /\ inOrder' = inOrder
      /\ setLoading' = setLoading /\ setMsg' = setMsg
      /\ getLoading' = getLoading /\ getResult' = getResult /\ getError' = getError
  BY Requests DEF Delete, tableVars, setVars, getVars
<1>2. /\ request' \in [Calls -> Request \cup {None}] /\ waiting' \subseteq Calls
      /\ Contents' = Contents
      /\ \A r \in Calls : CallInv(r)'
      /\ \A c \in {"keys", "set", "get"} : Pending(c)' = Pending(c)
  BY <1>1, SendInv
<1>3. effect' = effect /\ since' = since /\ reported' = reported
  BY <1>1 DEF Send
<1> QED
  BY <1>1, <1>2, <1>3 DEF KeysInv, PageType, Flags, FetchInv, FormInv

LEMMA SetStep ==
  ASSUME KeysInv, NEW k \in Keys, NEW v \in Values, Set(k, v)
  PROVE  KeysInv'
<1>1. /\ Send(SetKey(k, v)) /\ SetKey(k, v) \in Request /\ SetKey(k, v).cmd = "set"
      /\ store' = store /\ mounted' = mounted /\ newest' = newest
      /\ keys' = keys /\ loading' = loading /\ error' = error /\ inOrder' = inOrder
      /\ ~setLoading /\ setLoading' = TRUE /\ setMsg' = None
      /\ getLoading' = getLoading /\ getResult' = getResult /\ getError' = getError
  BY Requests DEF Set, CanSet, tableVars, getVars
<1>2. /\ request' \in [Calls -> Request \cup {None}] /\ waiting' \subseteq Calls
      /\ Contents' = Contents
      /\ \A r \in Calls : CallInv(r)'
      /\ Pending("keys")' = Pending("keys") /\ Pending("get")' = Pending("get")
      /\ Pending("set")' = Pending("set") \cup {FreeCall}
  BY <1>1, SendInv
<1>3. effect' = effect /\ since' = since /\ reported' = reported
  BY <1>1 DEF Send
<1>4. Pending("set") = {}
  BY <1>1 DEF KeysInv, FormInv
<1> QED
  BY <1>1, <1>2, <1>3, <1>4 DEF KeysInv, PageType, Flags, FetchInv, FormInv

LEMMA GetStep ==
  ASSUME KeysInv, NEW k \in Keys, Get(k)
  PROVE  KeysInv'
<1>1. /\ Send(GetKey(k)) /\ GetKey(k) \in Request /\ GetKey(k).cmd = "get"
      /\ store' = store /\ mounted' = mounted /\ newest' = newest
      /\ keys' = keys /\ loading' = loading /\ error' = error /\ inOrder' = inOrder
      /\ setLoading' = setLoading /\ setMsg' = setMsg
      /\ ~getLoading /\ getLoading' = TRUE /\ getResult' = None /\ getError' = FALSE
  BY Requests DEF Get, CanGet, tableVars, setVars
<1>2. /\ request' \in [Calls -> Request \cup {None}] /\ waiting' \subseteq Calls
      /\ Contents' = Contents
      /\ \A r \in Calls : CallInv(r)'
      /\ Pending("keys")' = Pending("keys") /\ Pending("set")' = Pending("set")
      /\ Pending("get")' = Pending("get") \cup {FreeCall}
  BY <1>1, SendInv
<1>3. effect' = effect /\ since' = since /\ reported' = reported
  BY <1>1 DEF Send
<1>4. Pending("get") = {}
  BY <1>1 DEF KeysInv, FormInv
<1> QED
  BY <1>1, <1>2, <1>3, <1>4 DEF KeysInv, PageType, Flags, FetchInv, FormInv

LEMMA LeaveStep ==
  ASSUME KeysInv, Leave
  PROVE  KeysInv'
<1>1. Contents' = Contents
  BY DEF Leave, Contents, Service!Pairs
<1>2. PageType'
  BY KeysAssumption DEF KeysInv, PageType, Leave
<1>3. Flags'
  BY DEF Leave, Flags
<1>4. ASSUME NEW r \in Calls PROVE CallInv(r)'
  BY <1>4 DEF KeysInv, PageType, CallInv, Leave, Changes, Is
<1>5. FetchInv'
  BY <1>1 DEF KeysInv, FetchInv, Leave
<1>6. FormInv'
  BY DEF FormInv, Leave, Pending
<1> QED
  BY <1>2, <1>3, <1>4, <1>5, <1>6 DEF KeysInv

-----------------------------------------------------------------------------
\* The steps of the server, which the histories follow.

LEMMA RecordInv ==
  ASSUME KeysInv, store' \in [Keys -> Values \cup {Absent}], NEW r \in Calls \cup {0}, Record(r)
  PROVE  /\ since' \in [Calls -> SUBSET (SUBSET Pair)]
         /\ reported' \subseteq SUBSET Pair /\ reported \subseteq reported'
         /\ Contents' \in reported'
         /\ \A s \in Calls : since[s] # {} \/ s = r => Contents' \in since'[s]
<1>1. Contents' \in SUBSET Pair
  BY ContentsPrime
<1> QED
  BY <1>1 DEF Record, KeysInv, PageType

LEMMA OtherStep ==
  ASSUME KeysInv, NEW k \in Keys, NEW v \in Values \cup {Absent}, Other(k, v)
  PROVE  KeysInv'
<1>1. store' \in [Keys -> Values \cup {Absent}]
  BY DEF Other, KeysInv, PageType
<1>2. /\ since' \in [Calls -> SUBSET (SUBSET Pair)]
      /\ reported' \subseteq SUBSET Pair /\ reported \subseteq reported'
      /\ Contents' \in reported'
      /\ \A s \in Calls : since[s] # {} => Contents' \in since'[s]
  BY <1>1, RecordInv DEF Other
<1>3. PageType' /\ Flags'
  BY <1>1, <1>2 DEF Other, KeysInv, PageType, Flags, tableVars, setVars, getVars
<1>4. ASSUME NEW r \in Calls PROVE CallInv(r)'
  BY <1>2, <1>4 DEF Other, KeysInv, CallInv, Changes, Is
<1>5. FetchInv'
  BY <1>2 DEF Other, KeysInv, FetchInv, Pending, Is, tableVars
<1>6. FormInv'
  BY DEF Other, KeysInv, FormInv, Pending, Is, setVars, getVars
<1> QED
  BY <1>3, <1>4, <1>5, <1>6 DEF KeysInv

LEMMA ExecuteStep ==
  ASSUME KeysInv, NEW r \in Calls, Execute(r)
  PROVE  KeysInv'
<1>1. request[r] \in Request /\ effect[r] = None
  BY DEF Execute, KeysInv, PageType, CallInv, Changes, Is
<1>2. store' \in [Keys -> Values \cup {Absent}]
  BY <1>1, Effects DEF Execute, KeysInv, PageType
<1>3. /\ Service!ResultOf(request[r]) \in Result
      /\ request[r].cmd = "keys" =>
           Service!ResultOf(request[r]) = [listing |-> Contents] /\ store' = store
      /\ request[r].cmd = "get" => Service!ResultOf(request[r]) \in Values \cup {Absent}
      /\ Contents \in SUBSET Pair
  BY <1>1, Effects DEF Execute, KeysInv, PageType
<1>4. /\ waiting' = waiting /\ mounted' = mounted /\ newest' = newest
      /\ keys' = keys /\ loading' = loading /\ error' = error /\ inOrder' = inOrder
      /\ setLoading' = setLoading /\ setMsg' = setMsg
      /\ getLoading' = getLoading /\ getResult' = getResult /\ getError' = getError
  BY DEF Execute, tableVars, setVars, getVars
<1>5. Flags'
  BY <1>4 DEF KeysInv, Flags
<1>6. CASE r \in waiting
  <2>1. /\ effect' = [effect EXCEPT ![r] = Service!ResultOf(request[r])]
        /\ request' = request
        /\ Record(IF r \in Changes THEN r ELSE 0)
    BY <1>6 DEF Execute
  <2>2. /\ since' \in [Calls -> SUBSET (SUBSET Pair)]
        /\ reported' \subseteq SUBSET Pair /\ reported \subseteq reported'
        /\ Contents' \in reported'
        /\ \A s \in Calls :
             since[s] # {} \/ (s = r /\ r \in Changes) => Contents' \in since'[s]
    BY <1>2, <2>1, RecordInv, KeysAssumption DEF Calls
  <2>3. PageType'
    BY <1>2, <1>3, <1>4, <2>1, <2>2 DEF KeysInv, PageType
  <2>4. request[r].cmd = "keys" => Contents' = Contents
    BY <1>3 DEF Contents, Service!Pairs
  <2>5. ASSUME NEW s \in Calls PROVE CallInv(s)'
    BY <1>3, <1>4, <1>6, <2>1, <2>2, <2>5 DEF KeysInv, PageType, CallInv, Changes, Is
  <2>6. Pending("keys")' = Pending("keys") /\ Pending("set")' = Pending("set")
        /\ Pending("get")' = Pending("get")
    BY <1>4, <2>1 DEF Pending, Is
  <2>7. newest = r => effect'[r].listing \in reported'
    <3> SUFFICES ASSUME newest = r PROVE effect'[r].listing \in reported'
      OBVIOUS
    <3>1. newest # 0 /\ r \in Pending("keys")
      BY KeysAssumption DEF Calls, KeysInv, FetchInv
    <3>2. request[r].cmd = "keys"
      BY <3>1 DEF Pending, Is
    <3> QED
      BY <1>3, <2>1, <2>2, <2>4, <3>2 DEF KeysInv, PageType
  <2>8. newest # 0 /\ effect'[newest] # None => effect'[newest].listing \in reported'
    BY <2>1, <2>2, <2>7 DEF KeysInv, PageType, FetchInv
  <2>9. FetchInv'
    BY <1>4, <2>2, <2>6, <2>8 DEF KeysInv, FetchInv
  <2>10. FormInv'
    BY <1>4, <2>6 DEF KeysInv, FormInv
  <2> QED
    BY <1>5, <2>3, <2>5, <2>9, <2>10 DEF KeysInv
<1>7. CASE r \notin waiting
  <2>1. effect' = effect /\ request' = [request EXCEPT ![r] = None] /\ Record(0)
    BY <1>7 DEF Execute
  <2>2. /\ since' \in [Calls -> SUBSET (SUBSET Pair)]
        /\ reported' \subseteq SUBSET Pair /\ reported \subseteq reported'
        /\ Contents' \in reported'
        /\ \A s \in Calls : since[s] # {} => Contents' \in since'[s]
    BY <1>2, <2>1, RecordInv
  <2>3. PageType'
    BY <1>2, <1>4, <2>1, <2>2 DEF KeysInv, PageType
  <2>4. ASSUME NEW s \in Calls PROVE CallInv(s)'
    BY <1>4, <1>7, <2>1, <2>2, <2>4 DEF KeysInv, PageType, CallInv, Changes, Is
  <2>5. Pending("keys")' = Pending("keys") /\ Pending("set")' = Pending("set")
        /\ Pending("get")' = Pending("get")
    BY <1>4, <1>7, <2>1 DEF KeysInv, PageType, Pending, Is
  <2>6. FetchInv'
    BY <1>4, <2>1, <2>2, <2>5 DEF KeysInv, FetchInv
  <2>7. FormInv'
    BY <1>4, <2>5 DEF KeysInv, FormInv
  <2> QED
    BY <1>5, <2>3, <2>4, <2>6, <2>7 DEF KeysInv
<1> QED
  BY <1>6, <1>7

LEMMA StutterStep ==
  ASSUME KeysInv, UNCHANGED keysVars
  PROVE  KeysInv'
<1>1. Contents' = Contents
  BY DEF keysVars, serverVars, Contents, Service!Pairs
<1>2. PageType' /\ Flags'
  BY DEF KeysInv, PageType, Flags, keysVars, serverVars, tableVars, setVars, getVars
<1>3. ASSUME NEW r \in Calls PROVE CallInv(r)'
  BY <1>1, <1>3 DEF KeysInv, CallInv, Changes, Is, keysVars, serverVars
<1>4. FetchInv' /\ FormInv'
  BY <1>1 DEF KeysInv, FetchInv, FormInv, Pending, Is, keysVars, serverVars, tableVars,
              setVars, getVars
<1> QED
  BY <1>2, <1>3, <1>4 DEF KeysInv

LEMMA NextInv == KeysInv /\ [Next]_keysVars => KeysInv'
<1> SUFFICES ASSUME KeysInv, [Next]_keysVars PROVE KeysInv'
  OBVIOUS
<1>1. ASSUME NEW r \in Calls, Execute(r) PROVE KeysInv'
  BY <1>1, ExecuteStep
<1>2. ASSUME NEW r \in Calls, Continue(r) PROVE KeysInv'
  BY <1>2, KeysAnsweredStep, KeysFailedStep, ChangeAnsweredStep, ChangeFailedStep,
     GetAnsweredStep, GetFailedStep
  DEF Continue
<1>3. ASSUME NEW k \in Keys, Delete(k) \/ Get(k) PROVE KeysInv'
  BY <1>3, DeleteStep, GetStep
<1>4. ASSUME NEW k \in Keys, NEW v \in Values, Set(k, v) PROVE KeysInv'
  BY <1>4, SetStep
<1>5. ASSUME NEW k \in Keys, NEW v \in Values \cup {Absent}, Other(k, v) PROVE KeysInv'
  BY <1>5, OtherStep
<1>6. CASE Mount \/ Refresh
  <2>1. FetchKeys /\ mounted' \in BOOLEAN
    BY <1>6 DEF Mount, Refresh, KeysInv, Flags
  <2> QED
    BY <2>1, FetchStep
<1>7. CASE Leave
  BY <1>7, LeaveStep
<1>8. CASE UNCHANGED keysVars
  BY <1>8, StutterStep
<1> QED
  BY <1>1, <1>2, <1>3, <1>4, <1>5, <1>6, <1>7, <1>8 DEF Next

LEMMA Invariant == Spec => []KeysInv
BY InitInv, NextInv, PTL DEF Spec

-----------------------------------------------------------------------------
LEMMA AtMostOne ==
  ASSUME NEW S, \A r, s \in S : r = s
  PROVE  Cardinality(S) <= 1
<1>1. CASE S = {}
  BY <1>1, FS_EmptySet
<1>2. CASE \E r \in S : S = {r}
  BY <1>2, FS_Singleton
<1> QED
  BY <1>1, <1>2

\* Every field and history of the page keeps its type (KeysPage: types), whatever
\* overlaps.
THEOREM KeysTypeCorrect == Spec => []KeysTypeOK
<1>1. KeysInv => KeysTypeOK
  <2> SUFFICES ASSUME KeysInv PROVE KeysTypeOK
    OBVIOUS
  <2>1. waiting \cap Free = {} /\ \A r \in Calls \ waiting : r \in Free \cup Changes
    BY DEF KeysInv, PageType, CallInv, Free
  <2>2. {mounted, loading, error, inOrder, setLoading, getLoading, getError} \subseteq BOOLEAN
    BY DEF KeysInv, Flags
  <2>3. \A r \in Calls : since[r] \subseteq SUBSET Pair
    BY DEF KeysInv, PageType
  <2> QED
    BY <2>1, <2>2, <2>3 DEF KeysInv, PageType, CallInv, FetchInv, KeysTypeOK
<1> QED
  BY <1>1, Invariant, PTL

\* The table shows the store as it was after every change reported as done
\* (fetchKeys, handleSet, handleDelete), for any number of requests under way.
THEOREM TableRight == Spec => []TableShowsChanges
<1>1. KeysInv => TableShowsChanges
  BY DEF KeysInv, FetchInv, TableShowsChanges, Table
<1> QED
  BY <1>1, Invariant, PTL

\* Each form shows the outcome of its last request (handleSet, handleGet).
THEOREM FormsRight == Spec => []FormsShowLatest
<1>1. KeysInv => FormsShowLatest
  BY AtMostOne, KeysNone DEF KeysInv, FormInv, FormsShowLatest
<1> QED
  BY <1>1, Invariant, PTL
=============================================================================
