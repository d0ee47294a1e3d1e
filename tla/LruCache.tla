------------------------------ MODULE LruCache ------------------------------
(***************************************************************************)
(* cpp_core's LruCache: a std::list of keys in recency order (front = most *)
(* recently used), an unordered_map from key to entry, and a byte counter. *)
(* A map entry's list iterator (order_it) is modelled by the key of the    *)
(* node it points to, so a dangling iterator is a stored key that is not   *)
(* in "order".  Each member function is one action, except evict_expired,  *)
(* whose loop reads the clock once per entry and is one action per entry.  *)
(***************************************************************************)
EXTENDS Integers, FiniteSets, SequencesExt

CONSTANTS
  Keys,       \* the key strings in use
  Values,     \* the value strings in use
  Ttls,       \* the TTLs, in seconds, callers pass (stoll accepts any sign)
  NoTtl,      \* std::nullopt: no TTL, and no expiry time
  Absent,     \* map_.find(key) == map_.end(); also get's std::nullopt
  Capacity,   \* capacity_
  KeySize,    \* key.size(), a function on Keys
  ValueSize,  \* value.size(), a function on Values
  Second,     \* clock ticks in a second
  MaxNow      \* bound on the clock

ASSUME ConstAssumption ==
  /\ IsFiniteSet(Keys)
  /\ Ttls \subseteq Int
  /\ NoTtl \notin Int
  /\ Absent \notin Values
  /\ KeySize \in [Keys -> Nat]
  /\ ValueSize \in [Values -> Nat]
  /\ Second \in Nat \ {0}
  /\ MaxNow \in Nat

\* LruCache's constructor throws invalid_argument on a zero capacity.
ASSUME CapacityAssumption == Capacity \in Nat \ {0}

Entry == [value : Values, expires_at : Int \cup {NoTtl}]

ASSUME AbsentAssumption == Absent \notin Entry

VARIABLES
  order,       \* order_: the keys, most recently used first
  map,         \* map_: Entry or Absent for every key
  bytes_used,  \* bytes_used_
  unvisited,   \* keys the running evict_expired loop has not reached yet
  now,         \* steady_clock::now()
  reply        \* what the last public call returned

vars == <<order, map, bytes_used, unvisited, now, reply>>

Reply == [op : {"none", "set", "get", "del"},
          key : Keys \cup {Absent},
          result : Values \cup {Absent} \cup BOOLEAN]

-----------------------------------------------------------------------------
Stored == {k \in Keys : map[k] # Absent}

is_expired(e) == e.expires_at # NoTtl /\ now >= e.expires_at

Deadline(ttl) == IF ttl = NoTtl THEN NoTtl ELSE now + ttl * Second

EntryBytes(k, v) == KeySize[k] + ValueSize[v]

\* order_.erase(it->second.order_it)
IndexOf(k) == CHOOSE i \in DOMAIN order : order[i] = k

Erase(k) == RemoveAt(order, IndexOf(k))

\* order_.splice(order_.begin(), order_, order_it)
touch(k) == <<k>> \o Erase(k)

Init ==
  /\ order = <<>>
  /\ map = [k \in Keys |-> Absent]
  /\ bytes_used = 0
  /\ unvisited = {}
  /\ now = 0
  /\ reply = [op |-> "none", key |-> Absent, result |-> Absent]

Return(op, k, r) == reply' = [op |-> op, key |-> k, result |-> r]

\* Fault: the list node stays behind.
DropKeepingNode(k) ==
  /\ bytes_used' = bytes_used - EntryBytes(k, map[k].value)
  /\ map' = [map EXCEPT ![k] = Absent]
  /\ UNCHANGED order

\* bytes_used_ -= ..; order_.erase(..); map_.erase(it)
Drop(k) ==
  /\ bytes_used' = bytes_used - EntryBytes(k, map[k].value)
  /\ order' = Erase(k)
  /\ map' = [map EXCEPT ![k] = Absent]

-----------------------------------------------------------------------------
\* Fault: the old size is taken after the new value has been assigned.
SetUpdateNewSize(k, v, ttl) ==
  /\ k \in Stored
  /\ map' = [map EXCEPT ![k] = [value |-> v, expires_at |-> Deadline(ttl)]]
  /\ bytes_used' = (bytes_used - EntryBytes(k, v)) + EntryBytes(k, v)
  /\ order' = touch(k)

\* Fault: overwriting without a TTL keeps the old deadline.
SetUpdateOldDeadline(k, v, ttl) ==
  /\ k \in Stored
  /\ map' = [map EXCEPT ![k].value = v,
                        ![k].expires_at = IF ttl = NoTtl THEN @ ELSE Deadline(ttl)]
  /\ bytes_used' = (bytes_used - EntryBytes(k, map[k].value)) + EntryBytes(k, v)
  /\ order' = touch(k)

SetUpdate(k, v, ttl) ==
  /\ k \in Stored
  /\ map' = [map EXCEPT ![k] = [value |-> v, expires_at |-> Deadline(ttl)]]
  /\ bytes_used' = (bytes_used - EntryBytes(k, map[k].value)) + EntryBytes(k, v)
  /\ order' = touch(k)

\* The fields after one evict_lru(): the key at the back of the list goes, with
\* its map entry if it has one.
Evicted ==
  LET lru == Last(order) IN
  IF order = <<>>
    THEN [order |-> order, map |-> map, bytes_used |-> bytes_used]
    ELSE [order |-> Front(order),
          map |-> [map EXCEPT ![lru] = Absent],
          bytes_used |-> IF lru \in Stored
                           THEN bytes_used - EntryBytes(lru, map[lru].value)
                           ELSE bytes_used]

\* Fault: room is made one entry too late.
MakeRoomLate ==
  IF Cardinality(Stored) > Capacity
    THEN Evicted
    ELSE [order |-> order, map |-> map, bytes_used |-> bytes_used]

\* while (map_.size() >= capacity_) evict_lru();  The body runs at most once,
\* because the size never exceeds the capacity (CapacityBound below) and the
\* back of a list that agrees with the map has an entry (OrderMatchesMap).
MakeRoom ==
  IF Cardinality(Stored) >= Capacity
    THEN Evicted
    ELSE [order |-> order, map |-> map, bytes_used |-> bytes_used]

SetInsert(k, v, ttl) ==
  /\ k \notin Stored
  /\ order' = <<k>> \o MakeRoom.order
  /\ map' = [MakeRoom.map EXCEPT ![k] =
               [value |-> v, expires_at |-> Deadline(ttl)]]
  /\ bytes_used' = MakeRoom.bytes_used + EntryBytes(k, v)

Set(k, v, ttl) ==
  /\ SetUpdate(k, v, ttl) \/ SetInsert(k, v, ttl)
  /\ Return("set", k, TRUE)
  /\ UNCHANGED <<unvisited, now>>

GetMiss(k) ==
  /\ k \notin Stored
  /\ Return("get", k, Absent)
  /\ UNCHANGED <<order, map, bytes_used>>

GetExpired(k) ==
  /\ k \in Stored /\ is_expired(map[k])
  /\ Drop(k)
  /\ Return("get", k, Absent)

\* Fault: a get does not count as a use.
GetHitNoTouch(k) ==
  /\ k \in Stored /\ ~is_expired(map[k])
  /\ Return("get", k, map[k].value)
  /\ UNCHANGED <<order, map, bytes_used>>

GetHit(k) ==
  /\ k \in Stored /\ ~is_expired(map[k])
  /\ order' = touch(k)
  /\ Return("get", k, map[k].value)
  /\ UNCHANGED <<map, bytes_used>>

Get(k) ==
  /\ GetMiss(k) \/ GetExpired(k) \/ GetHit(k)
  /\ UNCHANGED <<unvisited, now>>

\* del does not look at the expiry time: an expired key not yet removed is
\* reported as deleted.
DelMiss(k) ==
  /\ k \notin Stored
  /\ Return("del", k, FALSE)
  /\ UNCHANGED <<order, map, bytes_used>>

DelHit(k) ==
  /\ k \in Stored
  /\ Drop(k)
  /\ Return("del", k, TRUE)

Del(k) ==
  /\ DelMiss(k) \/ DelHit(k)
  /\ UNCHANGED <<unvisited, now>>

\* evict_expired: it = map_.begin() ...
SweepBegin ==
  /\ unvisited' = Stored
  /\ UNCHANGED <<order, map, bytes_used, now, reply>>

\* Fault: the loop ends at the first live entry, as if sorted by deadline.
SweepVisitStops(k) ==
  /\ k \in unvisited
  /\ IF is_expired(map[k])
       THEN Drop(k) /\ unvisited' = unvisited \ {k}
       ELSE UNCHANGED <<order, map, bytes_used>> /\ unvisited' = {}
  /\ UNCHANGED <<now, reply>>

\* ... one iteration, in the map's own (arbitrary) order.
SweepVisit(k) ==
  /\ k \in unvisited
  /\ IF is_expired(map[k])
       THEN Drop(k)
       ELSE UNCHANGED <<order, map, bytes_used>>
  /\ unvisited' = unvisited \ {k}
  /\ UNCHANGED <<now, reply>>

Tick ==
  /\ now < MaxNow
  /\ now' = now + 1
  /\ UNCHANGED <<order, map, bytes_used, unvisited, reply>>

Call ==
  \/ \E k \in Keys, v \in Values, ttl \in Ttls \cup {NoTtl} : Set(k, v, ttl)
  \/ \E k \in Keys : Get(k) \/ Del(k)
  \/ SweepBegin

\* "NOT thread-safe; callers must hold an external lock": no member function
\* starts inside evict_expired's loop.  KVStore has the lock.
Next ==
  \/ unvisited = {} /\ Call
  \/ \E k \in Keys : SweepVisit(k)
  \/ Tick

Spec == Init /\ [][Next]_vars

-----------------------------------------------------------------------------
TypeOK ==
  /\ order \in Seq(Keys)
  /\ map \in [Keys -> Entry \cup {Absent}]
  /\ bytes_used \in Int
  /\ unvisited \in SUBSET Keys
  /\ now \in 0..MaxNow
  /\ reply \in Reply

NoDuplicates == \A i, j \in DOMAIN order : order[i] = order[j] => i = j

\* The list and the map hold the same keys, each key once in the list.  If they
\* came apart, an iterator would dangle or evict_lru would free nothing and the
\* while loop of set would never end.
OrderMatchesMap ==
  /\ NoDuplicates
  /\ {order[i] : i \in DOMAIN order} = Stored

\* The keys a sweep has still to visit are stored: the loop's iterator into the
\* map is never invalidated by another call.
IteratorsValid == unvisited \subseteq Stored

\* The number of entries never exceeds the capacity, expired ones included.
CapacityBound == Cardinality(Stored) <= Capacity

\* The running byte count is the sum over the stored entries after any mix of
\* inserts, overwrites with values of other sizes, deletes, evictions, expiry.
BytesExact ==
  bytes_used = MapThenSumSet(LAMBDA k : EntryBytes(k, map[k].value), Stored)

\* The list read as the recency relation of CacheSpec.
Newer ==
  {p \in Keys \X Keys :
     \E i, j \in DOMAIN order : i < j /\ order[i] = p[1] /\ order[j] = p[2]}

Cache == INSTANCE CacheSpec WITH entry <- map, newer <- Newer

\* Every call answers as the bounded TTL map with least-recently-used eviction
\* does: the splices, erasures and evictions of the list never lose the order.
ImplementsCache == Cache!Spec

=============================================================================
