------------------------------ MODULE KVStore ------------------------------
(***************************************************************************)
(* KVStore: LruCache behind the mutex mu_, used by two threads.  The       *)
(* server thread runs one command at a time (TcpServer::process_command);  *)
(* main's detached expiry thread sleeps and prunes in turn.  Every locked  *)
(* body is one step after the step that takes the lock, except the two     *)
(* loops that read the clock per entry: the expiry sweep and KEYS.         *)
(***************************************************************************)
EXTENDS LruCache

CONSTANT MaxRequests  \* bound on total_requests_

ASSUME MaxRequestsAssumption == MaxRequests \in Nat

VARIABLES
  mu,          \* mu_: the thread that holds it, or "free"
  server,      \* where the server thread is
  expiry,      \* where the expiry thread is
  cmd,         \* the command the server thread runs
  total_requests, hits, misses,
  stats,       \* the last STATS answer
  unscanned,   \* KEYS: stored keys all_entries has not reached yet
  copied,      \* KEYS: all_entries' result, not yet printed
  lines        \* KEYS: the lines printed so far

storeVars == <<total_requests, hits, misses>>
keysVars == <<unscanned, copied, lines>>
kvVars == <<vars, mu, server, expiry, cmd, storeVars, stats, keysVars>>

Commands ==
  [op : {"set"}, key : Keys, value : Values, ttl : Ttls \cup {NoTtl}]
    \cup [op : {"get", "del"}, key : Keys] \cup [op : {"stats", "keys"}]

Copy == [key : Keys, entry : Entry]

Line == [key : Keys, value : Values, ttl : Int]

KVInit ==
  /\ Init
  /\ mu = "free" /\ server = "idle" /\ expiry = "sleep"
  /\ cmd = [op |-> "stats"]
  /\ total_requests = 0 /\ hits = 0 /\ misses = 0
  /\ stats = [total_requests |-> 0, hits |-> 0, misses |-> 0, bytes_used |-> 0]
  /\ unscanned = {} /\ copied = {} /\ lines = {}

-----------------------------------------------------------------------------
\* The server thread.

Issue(c) ==
  /\ server = "idle"
  /\ c.op \in {"set", "get", "del"} => total_requests < MaxRequests
  /\ cmd' = c
  /\ server' = "wait"
  /\ UNCHANGED <<vars, mu, expiry, storeVars, stats, keysVars>>

Lock ==
  /\ server = "wait" /\ mu = "free"
  /\ mu' = "server"
  /\ server' = "locked"
  /\ UNCHANGED <<vars, expiry, cmd, storeVars, stats, keysVars>>

\* The end of a lock_guard's scope.
Unlock ==
  /\ mu' = "free"
  /\ server' = "idle"

Locked(op) == server = "locked" /\ cmd.op = op

StoreSet ==
  /\ Locked("set")
  /\ total_requests' = total_requests + 1
  /\ Set(cmd.key, cmd.value, cmd.ttl)
  /\ Unlock
  /\ UNCHANGED <<expiry, cmd, hits, misses, stats, keysVars>>

StoreGet ==
  /\ Locked("get")
  /\ total_requests' = total_requests + 1
  /\ Get(cmd.key)
  /\ IF reply'.result # Absent
       THEN hits' = hits + 1 /\ UNCHANGED misses
       ELSE misses' = misses + 1 /\ UNCHANGED hits
  /\ Unlock
  /\ UNCHANGED <<expiry, cmd, stats, keysVars>>

StoreDel ==
  /\ Locked("del")
  /\ total_requests' = total_requests + 1
  /\ Del(cmd.key)
  /\ Unlock
  /\ UNCHANGED <<expiry, cmd, hits, misses, stats, keysVars>>

get_stats ==
  /\ Locked("stats")
  /\ stats' = [total_requests |-> total_requests, hits |-> hits,
               misses |-> misses, bytes_used |-> bytes_used]
  /\ Unlock
  /\ UNCHANGED <<vars, expiry, cmd, storeVars, keysVars>>

\* KEYS takes the mutex in process_command: first all_entries() ...
KeysBegin ==
  /\ Locked("keys")
  /\ server' = "scan"
  /\ unscanned' = Stored /\ copied' = {} /\ lines' = {}
  /\ UNCHANGED <<vars, mu, expiry, cmd, storeVars, stats>>

KeysScan(k) ==
  /\ server = "scan"
  /\ k \in unscanned
  /\ unscanned' = unscanned \ {k}
  /\ copied' = IF is_expired(map[k])
                 THEN copied
                 ELSE copied \cup {[key |-> k, entry |-> map[k]]}
  /\ UNCHANGED <<vars, mu, server, expiry, cmd, storeVars, stats, lines>>

\* Fault: the lock covers all_entries only, not the printing.
KeysScannedUnlocked ==
  /\ server = "scan" /\ unscanned = {}
  /\ server' = "print"
  /\ mu' = "free"
  /\ UNCHANGED <<vars, expiry, cmd, storeVars, stats, keysVars>>

KeysScanned ==
  /\ server = "scan" /\ unscanned = {}
  /\ server' = "print"
  /\ UNCHANGED <<vars, mu, expiry, cmd, storeVars, stats, keysVars>>

\* ... then a line for each copy, with the time it has left at a later clock,
\* in whole seconds: -1 without a TTL, 0 if it has run out in between.
ttl_remaining(e) ==
  LET left == (e.expires_at - now) \div Second IN
  IF e.expires_at = NoTtl THEN -1 ELSE IF left > 0 THEN left ELSE 0

KeysPrint(c) ==
  /\ server = "print"
  /\ c \in copied
  /\ lines' = lines \cup
       {[key |-> c.key, value |-> c.entry.value, ttl |-> ttl_remaining(c.entry)]}
  /\ copied' = copied \ {c}
  /\ UNCHANGED <<vars, mu, server, expiry, cmd, storeVars, stats, unscanned>>

KeysEnd ==
  /\ server = "print" /\ copied = {}
  /\ Unlock
  /\ UNCHANGED <<vars, expiry, cmd, storeVars, stats, keysVars>>

Execute ==
  \/ StoreSet \/ StoreGet \/ StoreDel \/ get_stats
  \/ KeysBegin \/ KeysScanned \/ KeysEnd
  \/ \E k \in Keys : KeysScan(k)
  \/ \E c \in copied : KeysPrint(c)

-----------------------------------------------------------------------------
\* The expiry thread: while (true) { sleep_for(5 s); store->evict_expired(); }

Wake ==
  /\ expiry = "sleep"
  /\ expiry' = "wait"
  /\ UNCHANGED <<vars, mu, server, cmd, storeVars, stats, keysVars>>

\* Fault: evict_expired does not take the mutex.
ExpiryNoLock ==
  /\ expiry = "wait"
  /\ expiry' = "sweep"
  /\ SweepBegin
  /\ UNCHANGED <<mu, server, cmd, storeVars, stats, keysVars>>

ExpiryLock ==
  /\ expiry = "wait" /\ mu = "free"
  /\ mu' = "expiry"
  /\ expiry' = "sweep"
  /\ SweepBegin
  /\ UNCHANGED <<server, cmd, storeVars, stats, keysVars>>

ExpirySweep(k) ==
  /\ expiry = "sweep"
  /\ SweepVisit(k)
  /\ UNCHANGED <<mu, server, expiry, cmd, storeVars, stats, keysVars>>

\* Fault: the mutex is not released.
ExpiryDoneLocked ==
  /\ expiry = "sweep" /\ unvisited = {}
  /\ expiry' = "sleep"
  /\ UNCHANGED <<vars, mu, server, cmd, storeVars, stats, keysVars>>

ExpiryDone ==
  /\ expiry = "sweep" /\ unvisited = {}
  /\ mu' = "free"
  /\ expiry' = "sleep"
  /\ UNCHANGED <<vars, server, cmd, storeVars, stats, keysVars>>

ExpirySteps == Wake \/ ExpiryDone \/ \E k \in Keys : ExpirySweep(k)

-----------------------------------------------------------------------------
Clock == Tick /\ UNCHANGED <<mu, server, expiry, cmd, storeVars, stats, keysVars>>

KVNext ==
  \/ \E c \in Commands : Issue(c)
  \/ Lock \/ Execute
  \/ ExpiryLock \/ ExpirySteps
  \/ Clock

KVSpec == KVInit /\ [][KVNext]_kvVars

\* Each thread keeps running, and a thread that waits for the mutex and finds
\* it free again and again gets it.  Nobody has to send a command.
Fairness ==
  /\ WF_kvVars(Execute) /\ SF_kvVars(Lock)
  /\ WF_kvVars(ExpirySteps) /\ SF_kvVars(ExpiryLock)

KVFairSpec == KVSpec /\ Fairness

-----------------------------------------------------------------------------
KVTypeOK ==
  /\ TypeOK
  /\ mu \in {"free", "server", "expiry"}
  /\ server \in {"idle", "wait", "locked", "scan", "print"}
  /\ expiry \in {"sleep", "wait", "sweep"}
  /\ cmd \in Commands
  /\ total_requests \in Nat /\ hits \in Nat /\ misses \in Nat
  /\ stats \in [total_requests : Nat, hits : Nat, misses : Nat, bytes_used : Int]
  /\ unscanned \in SUBSET Keys /\ copied \in SUBSET Copy /\ lines \in SUBSET Line

\* KVStore keeps LruCache's precondition: whatever the two threads do, no call
\* begins, and nothing else changes, inside the expiry sweep's loop.
CallsSerialized == Spec

\* What KEYS is about to send is a snapshot: every stored key that is still
\* live is listed, nothing that has been removed is, each key has one line with
\* its current value, and only a key without a TTL shows -1.
KeysListing ==
  server = "print" /\ copied = {} =>
    LET listed == {l.key : l \in lines} IN
    /\ {k \in Stored : ~is_expired(map[k])} \subseteq listed
    /\ listed \subseteq Stored
    /\ \A l, m \in lines : l.key = m.key => l = m
    /\ \A l \in lines :
         /\ l.value = map[l.key].value
         /\ (l.ttl = -1) <=> (map[l.key].expires_at = NoTtl)

\* An expired entry is removed even if no client ever asks for its key again
\* (unless a SET gives the key a new life), while other commands keep coming.
ExpiredRemoved ==
  \A k \in Keys :
    (k \in Stored /\ is_expired(map[k])) ~> ~(k \in Stored /\ is_expired(map[k]))

\* The two threads never block each other for good: a command gets its answer.
CommandsAnswered == (server = "wait") ~> (server = "idle")

\* README, "Performance": STATS is "Atomic reads, no lock".
StatsNeverWaits == ~(server = "wait" /\ cmd.op = "stats" /\ mu = "expiry")

=============================================================================
