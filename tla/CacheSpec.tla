------------------------------ MODULE CacheSpec ------------------------------
(***************************************************************************)
(* What the cache promises, without its data structures: a bounded map     *)
(* with a recency relation on the keys it holds.  An expired key is never  *)
(* answered with a value and may be purged at any time; a new key pushes   *)
(* out the least recently used one when, and only when, the map is full.   *)
(* LruCache (list, map, byte count) and KVStore (mutex, expiry thread) are *)
(* shown to implement it.                                                  *)
(***************************************************************************)
EXTENDS Integers, FiniteSets

CONSTANTS
  Keys, Values, Ttls, NoTtl, Absent, Capacity,
  Second,   \* clock ticks in a second
  MaxNow    \* bound on the clock

VARIABLES
  entry,    \* the entry of each key, or Absent
  newer,    \* pairs <<g, h>> of held keys: g was used after h
  now,      \* the clock
  reply     \* what the last call returned

vars == <<entry, newer, now, reply>>

Held == {k \in Keys : entry[k] # Absent}

Expired(k) == entry[k].expires_at # NoTtl /\ now >= entry[k].expires_at

Live(k) == k \in Held /\ ~Expired(k)

Init ==
  /\ entry = [k \in Keys |-> Absent]
  /\ newer = {}
  /\ now = 0
  /\ reply = [op |-> "none", key |-> Absent, result |-> Absent]

Return(op, k, r) == reply' = [op |-> op, key |-> k, result |-> r]

\* The recency relation without the keys of K, and with k in front of the rest.
Without(K) == {p \in newer : p[1] \notin K /\ p[2] \notin K}

Front(k, K) == Without(K \cup {k}) \cup {<<k, h>> : h \in Held \ (K \cup {k})}

Oldest(h) == h \in Held /\ \A g \in Held \ {h} : <<g, h>> \in newer

\* The keys a Put of k pushes out.
Victims(k) ==
  IF k \in Held \/ Cardinality(Held) < Capacity
    THEN {}
    ELSE {h \in Keys : Oldest(h)}

Forget(k) ==
  /\ entry' = [entry EXCEPT ![k] = Absent]
  /\ newer' = Without({k})

-----------------------------------------------------------------------------
Put(k, v, ttl) ==
  LET deadline == IF ttl = NoTtl THEN NoTtl ELSE now + ttl * Second IN
  /\ entry' = [h \in Keys |->
                 IF h = k THEN [value |-> v, expires_at |-> deadline]
                 ELSE IF h \in Victims(k) THEN Absent ELSE entry[h]]
  /\ newer' = Front(k, Victims(k))
  /\ Return("set", k, TRUE)
  /\ UNCHANGED now

LookupHit(k) ==
  /\ Live(k)
  /\ newer' = Front(k, {})
  /\ Return("get", k, entry[k].value)
  /\ UNCHANGED <<entry, now>>

LookupMiss(k) ==
  /\ ~Live(k)
  /\ Forget(k)
  /\ Return("get", k, Absent)
  /\ UNCHANGED now

Remove(k) ==
  /\ Forget(k)
  /\ Return("del", k, k \in Held)
  /\ UNCHANGED now

Purge(k) ==
  /\ k \in Held /\ Expired(k)
  /\ Forget(k)
  /\ UNCHANGED <<now, reply>>

Tick ==
  /\ now < MaxNow
  /\ now' = now + 1
  /\ UNCHANGED <<entry, newer, reply>>

Next ==
  \/ \E k \in Keys, v \in Values, ttl \in Ttls \cup {NoTtl} : Put(k, v, ttl)
  \/ \E k \in Keys : LookupHit(k) \/ LookupMiss(k) \/ Remove(k) \/ Purge(k)
  \/ Tick

Spec == Init /\ [][Next]_vars
=============================================================================
