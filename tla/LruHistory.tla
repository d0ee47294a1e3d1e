----------------------------- MODULE LruHistory -----------------------------
(***************************************************************************)
(* LruCache with a history variable: for each stored key, the keys used    *)
(* since it was last used itself.  No guard and no other variable reads    *)
(* it, so LruCache behaves as it does without it; it lets a property speak *)
(* of a key's whole past when evict_lru takes the key at the list's back.  *)
(***************************************************************************)
EXTENDS LruCache

VARIABLE usedSince

hvars == <<vars, usedSince>>

\* The keys the last call used: the one it set, or the one it got and found.
\* (Repeating the update for a call already recorded changes nothing.)
Used(r) == IF r.op = "set" \/ (r.op = "get" /\ r.result # Absent) THEN {r.key} ELSE {}

HInit == Init /\ usedSince = [k \in Keys |-> {}]

HNext ==
  /\ Next
  /\ usedSince' = [k \in Keys |->
       IF map'[k] = Absent \/ k \in Used(reply') THEN {}
       ELSE usedSince[k] \cup Used(reply')]

HSpec == HInit /\ [][HNext]_hvars

-----------------------------------------------------------------------------
\* evict_lru, run for another key's set, takes k.
Evicts(k) ==
  /\ k \in Stored /\ k \notin Stored'
  /\ reply'.op = "set" /\ reply'.key # k
  /\ UNCHANGED unvisited

\* LRU eviction never drops a key before Capacity other keys have been used
\* after it: the working set of the last Capacity keys always stays.
WorkingSetKept ==
  [][\A k \in Keys :
       Evicts(k) => Cardinality(usedSince[k] \cup {reply'.key}) >= Capacity]_hvars

\* What the list says of the past: a key nearer the front has been used since, and
\* no key has been used after the one the last call used.
ListTellsHistory ==
  \A p \in Newer : p[1] \in usedSince[p[2]] /\ p[2] \notin Used(reply)

=============================================================================
