---------------------------- MODULE KVStoreProofs ----------------------------
(***************************************************************************)
(* Proofs about LruCache, for every set of keys and values and every       *)
(* capacity: its list and its map agree, the capacity is respected, the    *)
(* byte count is exact, and it implements CacheSpec.  Then about KVStore,  *)
(* for every number of requests: the mutex keeps the two threads apart, so *)
(* that KVStore implements LruCache's serialized behaviour, and CacheSpec  *)
(* through it; and KEYS is a snapshot.                                     *)
(***************************************************************************)
EXTENDS KVStore, LruHistory, SetSums, SequenceTheorems

-----------------------------------------------------------------------------
(* Sequences without duplicates.                                           *)

Distinct(s) == \A i, j \in 1..Len(s) : s[i] = s[j] => i = j

Elements(s) == {s[i] : i \in 1..Len(s)}

\* The pairs of keys that stand in this order in s.
Before(s) ==
  {p \in Keys \X Keys :
     \E i, j \in 1..Len(s) : i < j /\ s[i] = p[1] /\ s[j] = p[2]}

\* Taking out one position shifts the positions behind it.
LEMMA RemoveAtIndices ==
  ASSUME NEW S, NEW s \in Seq(S), NEW n \in 1..Len(s)
  PROVE  /\ RemoveAt(s, n) \in Seq(S)
         /\ Len(RemoveAt(s, n)) = Len(s) - 1
         /\ \A i \in 1..(Len(s) - 1) :
              RemoveAt(s, n)[i] = IF i < n THEN s[i] ELSE s[i + 1]
<1> DEFINE a == SubSeq(s, 1, n - 1)
           b == SubSeq(s, n + 1, Len(s))
<1>0. Len(s) \in Nat /\ n \in Int /\ \A i \in 1..Len(s) : s[i] \in S
  OBVIOUS
<1>1. a \in Seq(S) /\ Len(a) = n - 1 /\ \A i \in 1..(n - 1) : a[i] = s[i]
  <2>1. \A i \in 1..(n - 1) : s[i] \in S
    BY <1>0
  <2> QED
    BY <1>0, <2>1, SubSeqProperties
<1>2. /\ b \in Seq(S) /\ Len(b) = Len(s) - n
      /\ \A i \in 1..(Len(s) - n) : b[i] = s[n + i]
  <2>1. \A i \in (n + 1)..Len(s) : s[i] \in S
    BY <1>0
  <2>2. /\ b \in Seq(S)
        /\ Len(b) = IF n + 1 <= Len(s) THEN Len(s) - (n + 1) + 1 ELSE 0
        /\ \A i \in 1..(Len(s) - (n + 1) + 1) : b[i] = s[(n + 1) + i - 1]
    BY <1>0, <2>1, SubSeqProperties
  <2>3. Len(b) = Len(s) - n
    BY <1>0, <2>2
  <2>4. \A i \in 1..(Len(s) - n) : (n + 1) + i - 1 = n + i
    BY <1>0
  <2>5. Len(s) - (n + 1) + 1 = Len(s) - n
    BY <1>0
  <2> HIDE DEF b
  <2> QED
    BY <2>2, <2>3, <2>4, <2>5
<1>3. RemoveAt(s, n) = a \o b
  BY DEF RemoveAt
<1> HIDE DEF a, b
<1>4. /\ a \o b \in Seq(S) /\ Len(a \o b) = Len(a) + Len(b)
      /\ \A i \in 1..(Len(a) + Len(b)) :
           (a \o b)[i] = IF i <= Len(a) THEN a[i] ELSE b[i - Len(a)]
  BY <1>1, <1>2, ConcatProperties
<1>5. ASSUME NEW i \in 1..(Len(s) - 1)
      PROVE  (a \o b)[i] = IF i < n THEN s[i] ELSE s[i + 1]
  <2>1. CASE i < n
    BY <1>0, <1>1, <1>2, <1>4, <2>1
  <2>2. CASE ~(i < n)
    <3>1. i - Len(a) \in 1..(Len(s) - n) /\ n + (i - Len(a)) = i + 1
      BY <1>0, <1>1, <2>2
    <3>2. (a \o b)[i] = b[i - Len(a)]
      BY <1>0, <1>1, <1>2, <1>4, <2>2
    <3> QED
      BY <1>2, <2>2, <3>1, <3>2
  <2> QED
    BY <2>1, <2>2
<1> QED
  BY <1>0, <1>1, <1>2, <1>3, <1>4, <1>5

\* Taking a key out of a list without duplicates takes out that key and leaves
\* the order of the others.
LEMMA RemoveAtDistinct ==
  ASSUME NEW s \in Seq(Keys), Distinct(s), NEW n \in 1..Len(s)
  PROVE  /\ Distinct(RemoveAt(s, n))
         /\ Elements(RemoveAt(s, n)) = Elements(s) \ {s[n]}
         /\ Before(RemoveAt(s, n)) =
              {p \in Before(s) : p[1] # s[n] /\ p[2] # s[n]}
<1> DEFINE r == RemoveAt(s, n)
           up(i) == IF i < n THEN i ELSE i + 1
<1>1. Len(s) \in Nat /\ n \in Nat /\ Len(r) = Len(s) - 1
  BY RemoveAtIndices
<1>2. \A i \in 1..Len(r) : r[i] = s[up(i)] /\ up(i) \in 1..Len(s) /\ up(i) # n
  <2> TAKE i \in 1..Len(r)
  <2>1. r[i] = IF i < n THEN s[i] ELSE s[i + 1]
    <3>1. i \in 1..(Len(s) - 1)
      BY <1>1
    <3> QED
      BY <3>1, RemoveAtIndices DEF r
  <2> QED
    BY <1>1, <2>1
<1>3. \A i, j \in 1..Len(r) : (up(i) = up(j) => i = j) /\ (i < j <=> up(i) < up(j))
  BY <1>1
<1>4. \A m \in 1..Len(s) : m # n => \E i \in 1..Len(r) : up(i) = m
  <2> TAKE m \in 1..Len(s)
  <2> HAVE m # n
  <2>1. CASE m < n
    <3>1. m \in 1..Len(r) /\ up(m) = m
      BY <1>1, <2>1
    <3> QED
      BY <3>1
  <2>2. CASE m > n
    <3>1. m - 1 \in 1..Len(r) /\ up(m - 1) = m
      BY <1>1, <2>2
    <3> QED
      BY <3>1
  <2> QED
    BY <1>1, <2>1, <2>2
<1> HIDE DEF r, up
<1>5. Distinct(r)
  BY <1>2, <1>3 DEF Distinct
<1>6. Elements(r) = Elements(s) \ {s[n]}
  <2>1. Elements(r) \subseteq Elements(s) \ {s[n]}
    BY <1>2 DEF Distinct, Elements
  <2>2. ASSUME NEW m \in 1..Len(s), s[m] # s[n]  PROVE s[m] \in Elements(r)
    <3>1. PICK i \in 1..Len(r) : up(i) = m
      BY <1>4, <2>2
    <3> QED
      BY <1>2, <3>1 DEF Elements
  <2> QED
    BY <2>1, <2>2 DEF Elements
<1>7. Before(r) = {p \in Before(s) : p[1] # s[n] /\ p[2] # s[n]}
  <2>1. ASSUME NEW p \in Before(r)
        PROVE  p \in Before(s) /\ p[1] # s[n] /\ p[2] # s[n]
    <3>1. PICK i, j \in 1..Len(r) : i < j /\ r[i] = p[1] /\ r[j] = p[2]
      BY DEF Before
    <3>2. up(i) < up(j) /\ s[up(i)] = p[1] /\ s[up(j)] = p[2]
      BY <1>2, <1>3, <3>1
    <3> QED
      BY <1>2, <3>2 DEF Before, Distinct
  <2>2. ASSUME NEW p \in Before(s), p[1] # s[n], p[2] # s[n]
        PROVE  p \in Before(r)
    <3>1. PICK i, j \in 1..Len(s) : i < j /\ s[i] = p[1] /\ s[j] = p[2]
      BY DEF Before
    <3>2. PICK x \in 1..Len(r) : up(x) = i
      BY <1>4, <2>2, <3>1
    <3>3. PICK y \in 1..Len(r) : up(y) = j
      BY <1>4, <2>2, <3>1
    <3>4. x < y /\ r[x] = p[1] /\ r[y] = p[2]
      BY <1>2, <1>3, <3>1, <3>2, <3>3
    <3> QED
      BY <3>4 DEF Before
  <2> QED
    BY <2>1, <2>2
<1> QED
  BY <1>5, <1>6, <1>7 DEF r

\* Putting a new key in front puts it before all the others.
LEMMA PrependDistinct ==
  ASSUME NEW s \in Seq(Keys), Distinct(s), NEW k \in Keys \ Elements(s)
  PROVE  LET t == <<k>> \o s IN
         /\ t \in Seq(Keys) /\ Len(t) = Len(s) + 1
         /\ Distinct(t)
         /\ Elements(t) = Elements(s) \cup {k}
         /\ Before(t) = Before(s) \cup {<<k, h>> : h \in Elements(s)}
<1> DEFINE t == <<k>> \o s
<1>1. /\ t \in Seq(Keys) /\ Len(t) = Len(s) + 1 /\ Len(s) \in Nat
      /\ t[1] = k
      /\ \A i \in 1..Len(s) : t[i + 1] = s[i]
  <2>1. <<k>> \in Seq(Keys) /\ Len(<<k>>) = 1 /\ <<k>>[1] = k
    OBVIOUS
  <2>2. Len(s) \in Nat
    OBVIOUS
  <2> QED
    BY <2>1, <2>2, ConcatProperties
<1>2. \A i \in 1..Len(t) : t[i] = IF i = 1 THEN k ELSE s[i - 1]
  BY <1>1
<1>3. \A i \in 1..Len(t) : i # 1 => i - 1 \in 1..Len(s)
  BY <1>1
<1> HIDE DEF t
<1>4. Distinct(t)
  <2> SUFFICES ASSUME NEW i \in 1..Len(t), NEW j \in 1..Len(t), t[i] = t[j]
               PROVE  i = j
    BY DEF Distinct
  <2>1. CASE i = 1 \/ j = 1
    BY <1>2, <1>3, <2>1 DEF Elements
  <2>2. CASE i # 1 /\ j # 1
    <3>1. i - 1 = j - 1
      BY <1>2, <1>3, <2>2 DEF Distinct
    <3> QED
      BY <1>1, <3>1
  <2> QED
    BY <2>1, <2>2
<1>5. Elements(t) = Elements(s) \cup {k}
  <2>1. Elements(t) \subseteq Elements(s) \cup {k}
    BY <1>2, <1>3 DEF Elements
  <2>2. k \in Elements(t)
    <3>1. 1 \in 1..Len(t)
      BY <1>1
    <3> QED
      BY <1>2, <3>1 DEF Elements
  <2>3. ASSUME NEW i \in 1..Len(s)  PROVE s[i] \in Elements(t)
    <3>1. i + 1 \in 1..Len(t)
      BY <1>1
    <3> QED
      BY <1>1, <3>1 DEF Elements
  <2> QED
    BY <2>1, <2>2, <2>3 DEF Elements
<1>6. Before(t) = Before(s) \cup {<<k, h>> : h \in Elements(s)}
  <2>1. ASSUME NEW p \in Before(t)
        PROVE  p \in Before(s) \/ \E h \in Elements(s) : p = <<k, h>>
    <3>1. PICK i, j \in 1..Len(t) : i < j /\ t[i] = p[1] /\ t[j] = p[2]
      BY DEF Before
    <3>2. j - 1 \in 1..Len(s) /\ s[j - 1] = p[2]
      BY <1>1, <1>2, <1>3, <3>1
    <3>3. p = <<p[1], p[2]>>
      BY DEF Before
    <3>4. CASE i = 1
      BY <1>2, <3>1, <3>2, <3>3, <3>4 DEF Elements
    <3>5. CASE i # 1
      <4>1. i - 1 \in 1..Len(s) /\ s[i - 1] = p[1] /\ i - 1 < j - 1
        BY <1>1, <1>2, <1>3, <3>1, <3>5
      <4> QED
        BY <3>2, <4>1 DEF Before
    <3> QED
      BY <3>4, <3>5
  <2>2. ASSUME NEW p \in Before(s)  PROVE p \in Before(t)
    <3>1. PICK i, j \in 1..Len(s) : i < j /\ s[i] = p[1] /\ s[j] = p[2]
      BY DEF Before
    <3>2. /\ i + 1 \in 1..Len(t) /\ j + 1 \in 1..Len(t) /\ i + 1 < j + 1
          /\ t[i + 1] = p[1] /\ t[j + 1] = p[2]
      BY <1>1, <3>1
    <3> QED
      BY <3>2 DEF Before
  <2>3. ASSUME NEW h \in Elements(s)  PROVE <<k, h>> \in Before(t)
    <3>1. PICK j \in 1..Len(s) : s[j] = h
      BY DEF Elements
    <3>2. 1 \in 1..Len(t) /\ j + 1 \in 1..Len(t) /\ 1 < j + 1
      BY <1>1
    <3>3. t[1] = k /\ t[j + 1] = h
      BY <1>1, <3>1
    <3>4. h \in Keys
      BY <3>1
    <3> QED
      BY <3>2, <3>3, <3>4 DEF Before
  <2> QED
    BY <2>1, <2>2, <2>3
<1> QED
  BY <1>1, <1>4, <1>5, <1>6 DEF t

\* evict_lru's pop_back is the removal of the last position.
LEMMA FrontIsRemoveAt ==
  ASSUME NEW s \in Seq(Keys), s # <<>>
  PROVE  Front(s) = RemoveAt(s, Len(s)) /\ Len(s) \in 1..Len(s)
<1>1. Len(s) \in Nat \ {0}
  OBVIOUS
<1>2. SubSeq(s, Len(s) + 1, Len(s)) = <<>>
  BY <1>1, SubSeqEmpty
<1>3. SubSeq(s, 1, Len(s) - 1) \in Seq(Keys)
  BY <1>1, SubSeqProperties
<1>4. SubSeq(s, 1, Len(s) - 1) \o <<>> = SubSeq(s, 1, Len(s) - 1)
  BY <1>3, ConcatEmptySeq
<1> QED
  BY <1>1, <1>2, <1>4 DEF Front, RemoveAt

\* The number of keys in a list without duplicates is its length.
LEMMA CardinalityOfElements ==
  ASSUME NEW s \in Seq(Keys), Distinct(s)
  PROVE  IsFiniteSet(Elements(s)) /\ Cardinality(Elements(s)) = Len(s)
<1>1. Len(s) \in Nat
  OBVIOUS
<1>2. s \in Bijection(1..Len(s), Elements(s))
  BY DEF Bijection, Injection, Surjection, IsInjective, Distinct, Elements
<1>3. ExistsBijection(1..Len(s), Elements(s))
  BY <1>2 DEF ExistsBijection
<1> QED
  BY <1>1, <1>3, FS_CountingElements, FS_NatBijection

-----------------------------------------------------------------------------
(* The inductive invariant.                                                *)

\* The list is what makes the capacity bound inductive: the number of entries
\* is the length of the list, which each operation changes by one at most.
IInv == TypeOK /\ OrderMatchesMap /\ CapacityBound /\ IteratorsValid

LEMMA OrderAsElements ==
  ASSUME order \in Seq(Keys)
  PROVE  /\ OrderMatchesMap <=> Distinct(order) /\ Elements(order) = Stored
         /\ Newer = Before(order)
<1>1. DOMAIN order = 1..Len(order)
  OBVIOUS
<1> QED
  BY <1>1 DEF OrderMatchesMap, NoDuplicates, Distinct, Elements, Newer, Before

LEMMA StoredCount ==
  ASSUME IInv
  PROVE  IsFiniteSet(Stored) /\ Cardinality(Stored) = Len(order)
BY OrderAsElements, CardinalityOfElements DEF IInv, TypeOK

\* What erasing a stored key does to the list.
LEMMA EraseFacts ==
  ASSUME IInv, NEW k \in Stored
  PROVE  /\ Erase(k) \in Seq(Keys)
         /\ Len(Erase(k)) = Len(order) - 1
         /\ Distinct(Erase(k))
         /\ Elements(Erase(k)) = Stored \ {k}
         /\ Before(Erase(k)) = {p \in Newer : p[1] # k /\ p[2] # k}
<1>1. order \in Seq(Keys) /\ Distinct(order) /\ Elements(order) = Stored
  BY OrderAsElements DEF IInv, TypeOK
<1>2. IndexOf(k) \in 1..Len(order) /\ order[IndexOf(k)] = k
  <2>1. DOMAIN order = 1..Len(order)
    BY <1>1
  <2>2. \E i \in DOMAIN order : order[i] = k
    BY <1>1, <2>1 DEF Elements
  <2> QED
    BY <2>1, <2>2 DEF IndexOf
<1> QED
  BY <1>1, <1>2, OrderAsElements, RemoveAtIndices, RemoveAtDistinct DEF Erase

\* What moving a stored key to the front does to it.
LEMMA TouchFacts ==
  ASSUME IInv, NEW k \in Stored
  PROVE  /\ touch(k) \in Seq(Keys)
         /\ Len(touch(k)) = Len(order)
         /\ Distinct(touch(k))
         /\ Elements(touch(k)) = Stored
         /\ Before(touch(k)) = {p \in Newer : p[1] # k /\ p[2] # k}
                                \cup {<<k, h>> : h \in Stored \ {k}}
<1>1. k \in Keys \ Elements(Erase(k))
  BY EraseFacts DEF Stored
<1>2. Len(order) \in Nat /\ Len(Erase(k)) + 1 = Len(order)
  BY EraseFacts DEF IInv, TypeOK
<1>3. (Stored \ {k}) \cup {k} = Stored
  OBVIOUS
<1> DEFINE e == Erase(k)
<1>4. e \in Seq(Keys) /\ Distinct(e) /\ Elements(e) = Stored \ {k}
  BY EraseFacts
<1>5. Before(e) = {p \in Newer : p[1] # k /\ p[2] # k}
  BY EraseFacts
<1> HIDE DEF e
<1>6. /\ <<k>> \o e \in Seq(Keys) /\ Len(<<k>> \o e) = Len(e) + 1
      /\ Distinct(<<k>> \o e)
      /\ Elements(<<k>> \o e) = Elements(e) \cup {k}
      /\ Before(<<k>> \o e) = Before(e) \cup {<<k, h>> : h \in Elements(e)}
  <2>1. k \in Keys \ Elements(e)
    BY <1>1 DEF e
  <2> QED
    BY <1>4, <2>1, PrependDistinct
<1>7. touch(k) = <<k>> \o e
  BY DEF touch, e
<1>8. Len(e) + 1 = Len(order)
  BY <1>2 DEF e
<1> QED
  BY <1>3, <1>4, <1>5, <1>6, <1>7, <1>8

\* The fields MakeRoom leaves for a new key: there is room for one more, and
\* the key that went, if any, was the last of the list.
LEMMA MakeRoomFacts ==
  ASSUME IInv
  PROVE  /\ MakeRoom.order \in Seq(Keys)
         /\ Len(MakeRoom.order) < Capacity
         /\ Distinct(MakeRoom.order)
         /\ MakeRoom.map \in [Keys -> Entry \cup {Absent}]
         /\ MakeRoom.bytes_used \in Int
         /\ Elements(MakeRoom.order) = {k \in Keys : MakeRoom.map[k] # Absent}
         /\ \/ /\ Cardinality(Stored) < Capacity
               /\ MakeRoom.map = map
               /\ MakeRoom.order = order
            \/ /\ Cardinality(Stored) = Capacity
               /\ Last(order) \in Stored
               /\ \A h \in Stored \ {Last(order)} : <<h, Last(order)>> \in Newer
               /\ MakeRoom.map = [map EXCEPT ![Last(order)] = Absent]
               /\ Before(MakeRoom.order) =
                    {p \in Newer : p[1] # Last(order) /\ p[2] # Last(order)}
<1>1. /\ order \in Seq(Keys) /\ Distinct(order) /\ Elements(order) = Stored
      /\ Len(order) \in Nat
  BY OrderAsElements DEF IInv, TypeOK
<1>2. Cardinality(Stored) = Len(order) /\ Capacity \in Nat \ {0}
  BY StoredCount, CapacityAssumption
<1>3. CASE Cardinality(Stored) < Capacity
  <2>1. MakeRoom = [order |-> order, map |-> map, bytes_used |-> bytes_used]
    BY <1>1, <1>2, <1>3 DEF MakeRoom
  <2> QED
    BY <1>1, <1>2, <1>3, <2>1 DEF IInv, TypeOK, Stored
<1>4. CASE ~(Cardinality(Stored) < Capacity)
  <2> DEFINE lru == Last(order)
  <2>1. Cardinality(Stored) = Capacity /\ Len(order) = Capacity
    BY <1>1, <1>2, <1>4 DEF IInv, CapacityBound
  <2>2. order # <<>> /\ Len(order) \in 1..Len(order)
    BY <1>1, <1>2, <2>1
  <2>3. lru \in Stored /\ lru = order[Len(order)]
    BY <1>1, <2>2 DEF Last, Elements
  <2>4. MakeRoom.order = Front(order)
    BY <1>1, <1>2, <2>1, <2>2 DEF MakeRoom, Evicted
  <2>5. MakeRoom.map = [map EXCEPT ![lru] = Absent]
    BY <1>1, <1>2, <2>1, <2>2 DEF MakeRoom, Evicted
  <2>6. MakeRoom.bytes_used = bytes_used - EntryBytes(lru, map[lru].value)
    BY <1>1, <1>2, <2>1, <2>2, <2>3 DEF MakeRoom, Evicted
  <2>7. MakeRoom.order = RemoveAt(order, Len(order))
    BY <1>1, <2>2, <2>4, FrontIsRemoveAt
  <2>8. /\ MakeRoom.order \in Seq(Keys)
        /\ Len(MakeRoom.order) = Len(order) - 1
        /\ Distinct(MakeRoom.order)
        /\ Elements(MakeRoom.order) = Stored \ {lru}
        /\ Before(MakeRoom.order) = {p \in Newer : p[1] # lru /\ p[2] # lru}
    <3>1. /\ RemoveAt(order, Len(order)) \in Seq(Keys)
          /\ Len(RemoveAt(order, Len(order))) = Len(order) - 1
      BY <1>1, <2>2, RemoveAtIndices
    <3>2. LET r == RemoveAt(order, Len(order)) IN
          /\ Distinct(r)
          /\ Elements(r) = Elements(order) \ {order[Len(order)]}
          /\ Before(r) = {p \in Before(order) :
                            p[1] # order[Len(order)] /\ p[2] # order[Len(order)]}
      BY <1>1, <2>2, RemoveAtDistinct
    <3>3. Newer = Before(order)
      BY <1>1, OrderAsElements
    <3> QED
      BY <1>1, <2>3, <2>7, <3>1, <3>2, <3>3
  <2>9. MakeRoom.map \in [Keys -> Entry \cup {Absent}]
    BY <2>3, <2>5 DEF IInv, TypeOK
  <2>10. MakeRoom.bytes_used \in Int
    <3>1. map[lru] \in Entry /\ lru \in Keys
      BY <2>3 DEF IInv, TypeOK, Stored
    <3> QED
      BY <2>6, <3>1, ConstAssumption DEF EntryBytes, Entry, IInv, TypeOK
  <2>11. Stored \ {lru} = {k \in Keys : MakeRoom.map[k] # Absent}
    BY <2>3, <2>5 DEF Stored, IInv, TypeOK
  <2>12. ASSUME NEW h \in Stored \ {lru}  PROVE <<h, lru>> \in Newer
    <3>1. PICK i \in 1..Len(order) : order[i] = h
      BY <1>1 DEF Elements
    <3>2. i < Len(order)
      BY <1>1, <2>3, <3>1
    <3>3. h \in Keys /\ lru \in Keys
      BY <2>3 DEF Stored
    <3> QED
      BY <1>1, <2>2, <2>3, <3>1, <3>2, <3>3, OrderAsElements DEF Before
  <2> HIDE DEF lru
  <2>13. Len(MakeRoom.order) < Capacity
    BY <1>1, <2>1, <2>8
  <2> QED
    BY <2>1, <2>3, <2>5, <2>8, <2>9, <2>10, <2>11, <2>12, <2>13 DEF lru
<1> QED
  BY <1>3, <1>4

\* The parts of IInv in the next state, from the list's.
LEMMA Reassemble ==
  ASSUME TypeOK', Distinct(order'), Elements(order') = Stored',
         Len(order') <= Capacity, unvisited' \subseteq Stored'
  PROVE  IInv'
<1>1. order' \in Seq(Keys) /\ DOMAIN order' = 1..Len(order')
  BY DEF TypeOK
<1>2. Cardinality(Stored') = Len(order')
  BY <1>1, CardinalityOfElements
<1>3. CapacityBound'
  BY <1>2 DEF CapacityBound
<1>4. OrderMatchesMap'
  BY <1>1 DEF OrderMatchesMap, NoDuplicates, Distinct, Elements
<1> QED
  BY <1>3, <1>4 DEF IInv, IteratorsValid

LEMMA DeadlineType ==
  ASSUME TypeOK, NEW v \in Values, NEW ttl \in Ttls \cup {NoTtl}
  PROVE  [value |-> v, expires_at |-> Deadline(ttl)] \in Entry
<1>1. CASE ttl = NoTtl
  BY <1>1 DEF Deadline, Entry
<1>2. CASE ttl # NoTtl
  <2>1. ttl \in Int /\ Second \in Int /\ now \in Int
    BY <1>2, ConstAssumption DEF TypeOK
  <2>2. ttl * Second \in Int
    BY <2>1
  <2>3. now + ttl * Second \in Int
    BY <2>1, <2>2
  <2> QED
    BY <1>2, <2>3 DEF Deadline, Entry
<1> QED
  BY <1>1, <1>2

LEMMA EntryBytesType ==
  ASSUME NEW k \in Keys, NEW v \in Values
  PROVE  EntryBytes(k, v) \in Int
BY ConstAssumption DEF EntryBytes

LEMMA StoredEntry ==
  ASSUME TypeOK, NEW k \in Stored
  PROVE  k \in Keys /\ map[k] \in Entry /\ map[k].value \in Values
BY DEF TypeOK, Stored, Entry

\* The removals of get, del and the sweep.
LEMMA DropInv ==
  ASSUME IInv, NEW k \in Stored, Drop(k),
         now' = now, reply' \in Reply, unvisited' = unvisited \ {k}
  PROVE  IInv'
<1>1. k \in Keys /\ EntryBytes(k, map[k].value) \in Int
  BY StoredEntry, EntryBytesType DEF IInv
<1>2. TypeOK'
  <2>1. order' \in Seq(Keys)
    BY EraseFacts DEF Drop
  <2>2. map' \in [Keys -> Entry \cup {Absent}]
    BY DEF Drop, IInv, TypeOK
  <2>3. bytes_used' \in Int
    BY <1>1 DEF Drop, IInv, TypeOK
  <2> QED
    BY <2>1, <2>2, <2>3 DEF IInv, TypeOK
<1>3. Stored' = Stored \ {k}
  BY <1>1 DEF Drop, Stored, IInv, TypeOK
<1>4. Distinct(order') /\ Elements(order') = Stored' /\ Len(order') = Len(order) - 1
  BY <1>3, EraseFacts DEF Drop
<1>5. Len(order') <= Capacity
  BY <1>4, StoredCount, CapacityAssumption DEF IInv, CapacityBound, TypeOK
<1>6. unvisited' \subseteq Stored'
  BY <1>3 DEF IInv, IteratorsValid
<1> QED
  BY <1>2, <1>4, <1>5, <1>6, Reassemble

LEMMA SetInv ==
  ASSUME IInv, unvisited = {},
         NEW k \in Keys, NEW v \in Values, NEW ttl \in Ttls \cup {NoTtl},
         Set(k, v, ttl)
  PROVE  IInv'
<1> DEFINE e == [value |-> v, expires_at |-> Deadline(ttl)]
<1>1. e \in Entry /\ EntryBytes(k, v) \in Int /\ e # Absent
  BY DeadlineType, EntryBytesType, AbsentAssumption DEF IInv
<1>2. now' = now /\ unvisited' = {} /\ reply' \in Reply
  BY DEF Set, Return, Reply
<1>3. CASE SetUpdate(k, v, ttl)
  <2>1. k \in Stored /\ map' = [map EXCEPT ![k] = e] /\ order' = touch(k)
    BY <1>3 DEF SetUpdate
  <2>2. bytes_used' \in Int
    <3>1. EntryBytes(k, map[k].value) \in Int
      BY <2>1, StoredEntry, EntryBytesType DEF IInv
    <3> QED
      BY <1>1, <1>3, <3>1 DEF SetUpdate, IInv, TypeOK
  <2>3. map' \in [Keys -> Entry \cup {Absent}] /\ Stored' = Stored
    BY <1>1, <2>1 DEF IInv, TypeOK, Stored
  <2>4. /\ order' \in Seq(Keys) /\ Distinct(order') /\ Elements(order') = Stored'
        /\ Len(order') = Len(order)
    BY <2>1, <2>3, TouchFacts
  <2>5. TypeOK'
    BY <1>2, <2>2, <2>3, <2>4 DEF IInv, TypeOK
  <2>6. Len(order') <= Capacity
    BY <2>4, StoredCount DEF IInv, CapacityBound
  <2> QED
    BY <1>2, <2>4, <2>5, <2>6, Reassemble
<1>4. CASE SetInsert(k, v, ttl)
  <2>1. /\ k \notin Stored
        /\ order' = <<k>> \o MakeRoom.order
        /\ map' = [MakeRoom.map EXCEPT ![k] = e]
        /\ bytes_used' = MakeRoom.bytes_used + EntryBytes(k, v)
    BY <1>4 DEF SetInsert
  <2>2. Elements(MakeRoom.order) \subseteq Stored
    BY MakeRoomFacts DEF IInv, TypeOK, Stored
  <2>3. k \in Keys \ Elements(MakeRoom.order)
    BY <2>1, <2>2
  <2>4. /\ order' \in Seq(Keys) /\ Len(order') = Len(MakeRoom.order) + 1
        /\ Distinct(order')
        /\ Elements(order') = Elements(MakeRoom.order) \cup {k}
    BY <2>1, <2>3, MakeRoomFacts, PrependDistinct
  <2>5. bytes_used' \in Int
    BY <1>1, <2>1, MakeRoomFacts
  <2>6. /\ map' \in [Keys -> Entry \cup {Absent}]
        /\ Stored' = Elements(MakeRoom.order) \cup {k}
    BY <1>1, <2>1, MakeRoomFacts DEF Stored
  <2>7. TypeOK'
    BY <1>2, <2>4, <2>5, <2>6 DEF IInv, TypeOK
  <2>8. Len(order') <= Capacity
    BY <2>4, MakeRoomFacts, CapacityAssumption
  <2> QED
    BY <1>2, <2>4, <2>6, <2>7, <2>8, Reassemble
<1> QED
  BY <1>3, <1>4 DEF Set

LEMMA GetInv ==
  ASSUME IInv, unvisited = {}, NEW k \in Keys, Get(k)
  PROVE  IInv'
<1>1. now' = now /\ unvisited' = {}
  BY DEF Get
<1>2. CASE GetMiss(k)
  <2>1. reply' \in Reply
    BY <1>2 DEF GetMiss, Return, Reply
  <2> QED
    BY <1>1, <1>2, <2>1 DEF GetMiss, IInv, TypeOK, OrderMatchesMap, NoDuplicates,
                            CapacityBound, IteratorsValid, Stored
<1>3. CASE GetExpired(k)
  <2>1. reply' \in Reply
    BY <1>3 DEF GetExpired, Return, Reply
  <2> QED
    BY <1>1, <1>3, <2>1, DropInv DEF GetExpired
<1>4. CASE GetHit(k)
  <2>1. k \in Stored /\ order' = touch(k) /\ map' = map /\ bytes_used' = bytes_used
    BY <1>4 DEF GetHit
  <2>2. reply' \in Reply
    BY <1>4, <2>1, StoredEntry DEF GetHit, Return, Reply, IInv
  <2>3. Stored' = Stored
    BY <2>1 DEF Stored
  <2>4. /\ order' \in Seq(Keys) /\ Distinct(order') /\ Elements(order') = Stored'
        /\ Len(order') = Len(order)
    BY <2>1, <2>3, TouchFacts
  <2>5. TypeOK'
    BY <1>1, <2>1, <2>2, <2>4 DEF IInv, TypeOK
  <2>6. Len(order') <= Capacity
    BY <2>4, StoredCount DEF IInv, CapacityBound
  <2> QED
    BY <1>1, <2>4, <2>5, <2>6, Reassemble
<1> QED
  BY <1>2, <1>3, <1>4 DEF Get

LEMMA DelInv ==
  ASSUME IInv, unvisited = {}, NEW k \in Keys, Del(k)
  PROVE  IInv'
<1>1. now' = now /\ unvisited' = {}
  BY DEF Del
<1>2. CASE DelMiss(k)
  <2>1. reply' \in Reply
    BY <1>2 DEF DelMiss, Return, Reply
  <2> QED
    BY <1>1, <1>2, <2>1 DEF DelMiss, IInv, TypeOK, OrderMatchesMap, NoDuplicates,
                            CapacityBound, IteratorsValid, Stored
<1>3. CASE DelHit(k)
  <2>1. reply' \in Reply
    BY <1>3 DEF DelHit, Return, Reply
  <2> QED
    BY <1>1, <1>3, <2>1, DropInv DEF DelHit
<1> QED
  BY <1>2, <1>3 DEF Del

LEMMA SweepVisitInv ==
  ASSUME IInv, NEW k \in Keys, SweepVisit(k)
  PROVE  IInv'
<1>1. k \in Stored /\ now' = now /\ reply' = reply /\ unvisited' = unvisited \ {k}
  BY DEF SweepVisit, IInv, IteratorsValid
<1>2. reply' \in Reply
  BY <1>1 DEF IInv, TypeOK
<1>3. CASE is_expired(map[k])
  BY <1>1, <1>2, <1>3, DropInv DEF SweepVisit
<1>4. CASE ~is_expired(map[k])
  BY <1>1, <1>4 DEF SweepVisit, IInv, TypeOK, OrderMatchesMap, NoDuplicates,
                    CapacityBound, IteratorsValid, Stored
<1> QED
  BY <1>3, <1>4

LEMMA InitInv == Init => IInv
<1> SUFFICES ASSUME Init PROVE IInv
  OBVIOUS
<1>1. Stored = {}
  BY DEF Init, Stored
<1>2. TypeOK
  BY ConstAssumption DEF Init, TypeOK, Reply
<1>3. OrderMatchesMap
  BY <1>1 DEF Init, OrderMatchesMap, NoDuplicates
<1>4. Cardinality(Stored) = 0
  BY <1>1, FS_EmptySet
<1> QED
  BY <1>1, <1>2, <1>3, <1>4, CapacityAssumption
     DEF IInv, CapacityBound, IteratorsValid, Init

LEMMA StepInv == IInv /\ [Next]_vars => IInv'
<1> SUFFICES ASSUME IInv, [Next]_vars PROVE IInv'
  OBVIOUS
<1>1. ASSUME NEW k \in Keys, NEW v \in Values, NEW ttl \in Ttls \cup {NoTtl},
             unvisited = {}, Set(k, v, ttl)
      PROVE  IInv'
  BY <1>1, SetInv
<1>2. ASSUME NEW k \in Keys, unvisited = {}, Get(k)  PROVE IInv'
  BY <1>2, GetInv
<1>3. ASSUME NEW k \in Keys, unvisited = {}, Del(k)  PROVE IInv'
  BY <1>3, DelInv
<1>4. CASE SweepBegin
  BY <1>4 DEF SweepBegin, IInv, TypeOK, OrderMatchesMap, NoDuplicates,
              CapacityBound, IteratorsValid, Stored
<1>5. ASSUME NEW k \in Keys, SweepVisit(k)  PROVE IInv'
  BY <1>5, SweepVisitInv
<1>6. CASE Tick
  <2>1. now' \in 0..MaxNow
    BY <1>6, ConstAssumption DEF Tick, IInv, TypeOK
  <2> QED
    BY <1>6, <2>1 DEF Tick, IInv, TypeOK, OrderMatchesMap, NoDuplicates,
                      CapacityBound, IteratorsValid, Stored
<1>7. CASE UNCHANGED vars
  BY <1>7 DEF vars, IInv, TypeOK, OrderMatchesMap, NoDuplicates,
              CapacityBound, IteratorsValid, Stored
<1> QED
  BY <1>1, <1>2, <1>3, <1>4, <1>5, <1>6, <1>7 DEF Next, Call

\* Every reachable state of the cache satisfies the inductive invariant.
THEOREM Invariance == Spec => []IInv
BY InitInv, StepInv, PTL DEF Spec

\* LruCache's fields keep their types: in particular get never answers with
\* anything but a stored value or "not found".
THEOREM TypeCorrect == Spec => []TypeOK
<1>1. IInv => TypeOK
  BY DEF IInv
<1> QED
  BY <1>1, Invariance, PTL

\* The recency list and the map hold the same keys, each once, after any mix of
\* sets, gets, deletes, evictions and expiry sweeps.
THEOREM OrderMatches == Spec => []OrderMatchesMap
<1>1. IInv => OrderMatchesMap
  BY DEF IInv
<1> QED
  BY <1>1, Invariance, PTL

\* No cache, whatever its capacity, ever holds more entries than that.
THEOREM CapacityRespected == Spec => []CapacityBound
<1>1. IInv => CapacityBound
  BY DEF IInv
<1> QED
  BY <1>1, Invariance, PTL

-----------------------------------------------------------------------------
(* LruCache implements CacheSpec.                                          *)

LEMMA NewerFacts ==
  ASSUME IInv
  PROVE  /\ \A p \in Newer : p[1] \in Stored /\ p[2] \in Stored
         /\ \A g, h \in Stored : <<g, h>> \in Newer => <<h, g>> \notin Newer
<1>1. /\ order \in Seq(Keys) /\ Distinct(order) /\ Elements(order) = Stored
      /\ Newer = Before(order) /\ Len(order) \in Nat
  BY OrderAsElements DEF IInv, TypeOK
<1>2. \A p \in Newer : p[1] \in Stored /\ p[2] \in Stored
  BY <1>1 DEF Before, Elements
<1>3. ASSUME NEW g \in Stored, NEW h \in Stored,
             <<g, h>> \in Newer, <<h, g>> \in Newer
      PROVE  FALSE
  <2>1. PICK i, j \in 1..Len(order) : i < j /\ order[i] = g /\ order[j] = h
    BY <1>1, <1>3 DEF Before
  <2>2. PICK m, n \in 1..Len(order) : m < n /\ order[m] = h /\ order[n] = g
    BY <1>1, <1>3 DEF Before
  <2>3. i = n /\ j = m
    BY <1>1, <2>1, <2>2 DEF Distinct
  <2> QED
    BY <1>1, <2>1, <2>2, <2>3
<1> QED
  BY <1>2, <1>3

LEMMA NewerNext ==
  ASSUME order' \in Seq(Keys)
  PROVE  Newer' = Before(order')
<1>1. DOMAIN order' = 1..Len(order')
  OBVIOUS
<1> QED
  BY <1>1 DEF Newer, Before

\* A removal of the list and the map is a removal of the abstract cache.
LEMMA DropForgets ==
  ASSUME IInv, NEW k \in Stored, Drop(k)
  PROVE  Cache!Forget(k)
<1>1. Newer' = {p \in Newer : p[1] # k /\ p[2] # k}
  BY EraseFacts, NewerNext DEF Drop
<1>2. Newer' = Cache!Without({k})
  BY <1>1 DEF Cache!Without
<1> QED
  BY <1>2 DEF Drop, Cache!Forget

\* So is the absence of a removal, for a key that is not there.
LEMMA AbsentForgets ==
  ASSUME IInv, NEW k \in Keys, k \notin Stored, UNCHANGED <<order, map>>
  PROVE  Cache!Forget(k)
<1>1. Newer' = Newer
  BY DEF Newer
<1>2. Cache!Without({k}) = Newer
  BY NewerFacts DEF Cache!Without
<1>3. [map EXCEPT ![k] = Absent] = map
  BY DEF Stored, IInv, TypeOK
<1> QED
  BY <1>1, <1>2, <1>3 DEF Cache!Forget

\* The instance of CacheSpec counts with FiniteSets' Cardinality.
LEMMA SameCardinality ==
  ASSUME NEW S
  PROVE  Cache!Cardinality(S) = Cardinality(S)
BY DEF Cache!Cardinality, Cardinality

LEMMA SetPuts ==
  ASSUME IInv, NEW k \in Keys, NEW v \in Values, NEW ttl \in Ttls \cup {NoTtl},
         Set(k, v, ttl)
  PROVE  Cache!Put(k, v, ttl)
<1> DEFINE e == [value |-> v, expires_at |-> Deadline(ttl)]
           put(K) == [h \in Keys |-> IF h = k THEN e
                                     ELSE IF h \in K THEN Absent ELSE map[h]]
<1>1. map \in [Keys -> Entry \cup {Absent}] /\ Cache!Held = Stored
  BY DEF IInv, TypeOK, Cache!Held, Stored
<1>2. SUFFICES /\ map' = put(Cache!Victims(k))
               /\ Newer' = Cache!Front(k, Cache!Victims(k))
  BY DEF Set, Return, Deadline, Cache!Put, Cache!Return
<1> HIDE DEF e
<1>3. CASE SetUpdate(k, v, ttl)
  <2>1. k \in Stored /\ map' = [map EXCEPT ![k] = e] /\ order' = touch(k)
    BY <1>3 DEF SetUpdate, e
  <2>2. Cache!Victims(k) = {}
    BY <1>1, <2>1 DEF Cache!Victims
  <2>3. map' = put({})
    BY <1>1, <2>1
  <2>4. Newer' = {p \in Newer : p[1] # k /\ p[2] # k}
                   \cup {<<k, h>> : h \in Stored \ {k}}
    BY <2>1, TouchFacts, NewerNext
  <2>5. Cache!Front(k, {}) = {p \in Newer : p[1] # k /\ p[2] # k}
                               \cup {<<k, h>> : h \in Stored \ {k}}
    BY <1>1 DEF Cache!Front, Cache!Without
  <2> QED
    BY <2>2, <2>3, <2>4, <2>5
<1>4. CASE SetInsert(k, v, ttl)
  <2>1. /\ k \notin Stored
        /\ order' = <<k>> \o MakeRoom.order
        /\ map' = [MakeRoom.map EXCEPT ![k] = e]
    BY <1>4 DEF SetInsert, e
  <2>2. Elements(MakeRoom.order) \subseteq Stored
    BY MakeRoomFacts DEF IInv, TypeOK, Stored
  <2>3. /\ order' \in Seq(Keys)
        /\ Before(order') = Before(MakeRoom.order)
                              \cup {<<k, h>> : h \in Elements(MakeRoom.order)}
    <3>1. k \in Keys \ Elements(MakeRoom.order)
      BY <2>1, <2>2
    <3> QED
      BY <2>1, <3>1, MakeRoomFacts, PrependDistinct
  <2>4. Newer' = Before(MakeRoom.order)
                   \cup {<<k, h>> : h \in Elements(MakeRoom.order)}
    BY <2>3, NewerNext
  <2>5. \A p \in Newer : p[1] # k /\ p[2] # k
    BY <2>1, NewerFacts
  <2>6. CASE /\ Cardinality(Stored) < Capacity
             /\ MakeRoom.map = map
             /\ MakeRoom.order = order
    <3>1. Cache!Victims(k) = {}
      BY <1>1, <2>6, SameCardinality DEF Cache!Victims
    <3>2. map' = put({})
      BY <1>1, <2>1, <2>6
    <3>3. Before(order) = Newer /\ Elements(order) = Stored
      BY OrderAsElements DEF IInv, TypeOK
    <3>4. Cache!Front(k, {}) = Newer \cup {<<k, h>> : h \in Stored}
      BY <1>1, <2>1, <2>5 DEF Cache!Front, Cache!Without
    <3> QED
      BY <2>4, <2>6, <3>1, <3>2, <3>3, <3>4
  <2>7. CASE /\ Cardinality(Stored) = Capacity
             /\ Last(order) \in Stored
             /\ \A h \in Stored \ {Last(order)} : <<h, Last(order)>> \in Newer
             /\ MakeRoom.map = [map EXCEPT ![Last(order)] = Absent]
             /\ Before(MakeRoom.order) =
                  {p \in Newer : p[1] # Last(order) /\ p[2] # Last(order)}
    <3> DEFINE lru == Last(order)
    <3>1. lru \in Stored /\ lru \in Keys /\ lru # k
      BY <2>1, <2>7 DEF Stored
    <3> HIDE DEF lru
    <3>2. \A h \in Stored : Cache!Oldest(h) <=> h = lru
      <4>1. Cache!Oldest(lru)
        BY <1>1, <2>7, <3>1 DEF Cache!Oldest, lru
      <4>2. ASSUME NEW h \in Stored, Cache!Oldest(h), h # lru  PROVE FALSE
        <5>1. <<lru, h>> \in Newer
          BY <1>1, <3>1, <4>2 DEF Cache!Oldest
        <5>2. <<h, lru>> \in Newer
          BY <2>7, <4>2 DEF lru
        <5> QED
          BY <3>1, <5>1, <5>2, NewerFacts
      <4> QED
        BY <4>1, <4>2
    <3>3. \A h \in Keys : Cache!Oldest(h) => h \in Stored
      BY <1>1 DEF Cache!Oldest
    <3>4. ~(Cardinality(Stored) < Capacity)
      BY <2>7, CapacityAssumption
    <3>5. Cache!Victims(k) = {h \in Keys : Cache!Oldest(h)}
      BY <1>1, <2>1, <3>4, SameCardinality DEF Cache!Victims
    <3>6. Cache!Victims(k) = {lru}
      BY <3>1, <3>2, <3>3, <3>5
    <3>7. map' = put({lru})
      BY <1>1, <2>1, <2>7, <3>1 DEF lru
    <3>8. Elements(MakeRoom.order) = Stored \ {lru}
      <4>1. Elements(MakeRoom.order) = {h \in Keys : MakeRoom.map[h] # Absent}
        BY MakeRoomFacts
      <4> QED
        BY <1>1, <2>7, <3>1, <4>1 DEF Stored, lru
    <3>9. Newer' = {p \in Newer : p[1] # lru /\ p[2] # lru}
                     \cup {<<k, h>> : h \in Stored \ {lru}}
      BY <2>4, <2>7, <3>8 DEF lru
    <3>10. Cache!Front(k, {lru}) = {p \in Newer : p[1] # lru /\ p[2] # lru}
                                     \cup {<<k, h>> : h \in Stored \ {lru}}
      <4>1. Cache!Without({lru} \cup {k}) = {p \in Newer : p[1] # lru /\ p[2] # lru}
        BY <2>5 DEF Cache!Without
      <4>2. Cache!Held \ ({lru} \cup {k}) = Stored \ {lru}
        BY <1>1, <2>1
      <4> QED
        BY <4>1, <4>2 DEF Cache!Front
    <3> QED
      BY <3>6, <3>7, <3>9, <3>10
  <2> QED
    BY <2>6, <2>7, MakeRoomFacts
<1> QED
  BY <1>3, <1>4 DEF Set

LEMMA GetLooksUp ==
  ASSUME IInv, NEW k \in Keys, Get(k)
  PROVE  Cache!LookupHit(k) \/ Cache!LookupMiss(k)
<1>1. Cache!Live(k) <=> k \in Stored /\ ~is_expired(map[k])
  BY DEF Cache!Live, Cache!Held, Cache!Expired, Stored, is_expired
<1>2. CASE GetMiss(k)
  <2>1. Cache!Forget(k)
    BY <1>2, AbsentForgets DEF GetMiss
  <2> QED
    BY <1>1, <1>2, <2>1 DEF Get, GetMiss, Return, Cache!LookupMiss, Cache!Return
<1>3. CASE GetExpired(k)
  <2>1. Cache!Forget(k)
    BY <1>3, DropForgets DEF GetExpired
  <2> QED
    BY <1>1, <1>3, <2>1 DEF Get, GetExpired, Return, Cache!LookupMiss, Cache!Return
<1>4. CASE GetHit(k)
  <2>1. k \in Stored /\ order' = touch(k)
    BY <1>4 DEF GetHit
  <2>2. Newer' = {p \in Newer : p[1] # k /\ p[2] # k}
                   \cup {<<k, h>> : h \in Stored \ {k}}
    BY <2>1, TouchFacts, NewerNext
  <2>3. Newer' = Cache!Front(k, {})
    BY <2>2 DEF Cache!Front, Cache!Without, Cache!Held, Stored
  <2> QED
    BY <1>1, <1>4, <2>3 DEF Get, GetHit, Return, Cache!LookupHit, Cache!Return
<1> QED
  BY <1>2, <1>3, <1>4 DEF Get

LEMMA DelRemoves ==
  ASSUME IInv, NEW k \in Keys, Del(k)
  PROVE  Cache!Remove(k)
<1>1. Cache!Held = Stored /\ now' = now
  BY DEF Cache!Held, Stored, Del
<1>2. CASE DelMiss(k)
  <2>1. Cache!Forget(k)
    BY <1>2, AbsentForgets DEF DelMiss
  <2>2. (k \in Stored) = FALSE
    BY <1>2 DEF DelMiss
  <2>3. reply' = [op |-> "del", key |-> k, result |-> FALSE]
    BY <1>2 DEF DelMiss, Return
  <2>4. Cache!Return("del", k, k \in Stored)
    BY <2>2, <2>3, Zenon DEF Cache!Return
  <2> QED
    BY <1>1, <2>1, <2>4 DEF Cache!Remove
<1>3. CASE DelHit(k)
  <2>1. Cache!Forget(k)
    BY <1>3, DropForgets DEF DelHit
  <2>2. (k \in Stored) = TRUE
    BY <1>3 DEF DelHit
  <2>3. reply' = [op |-> "del", key |-> k, result |-> TRUE]
    BY <1>3 DEF DelHit, Return
  <2>4. Cache!Return("del", k, k \in Stored)
    BY <2>2, <2>3, Zenon DEF Cache!Return
  <2> QED
    BY <1>1, <2>1, <2>4 DEF Cache!Remove
<1> QED
  BY <1>2, <1>3 DEF Del

LEMMA SweepPurges ==
  ASSUME IInv, NEW k \in Keys, SweepVisit(k)
  PROVE  Cache!Purge(k) \/ UNCHANGED Cache!vars
<1>1. k \in Stored /\ now' = now /\ reply' = reply
  BY DEF SweepVisit, IInv, IteratorsValid
<1>2. CASE is_expired(map[k])
  <2>1. Cache!Forget(k)
    BY <1>1, <1>2, DropForgets DEF SweepVisit
  <2> QED
    BY <1>1, <1>2, <2>1
       DEF Cache!Purge, Cache!Held, Cache!Expired, Stored, is_expired
<1>3. CASE ~is_expired(map[k])
  <2>1. order' = order /\ map' = map
    BY <1>3 DEF SweepVisit
  <2> QED
    BY <1>1, <2>1 DEF Cache!vars, Newer
<1> QED
  BY <1>2, <1>3

LEMMA InitRefines == Init => Cache!Init
<1> SUFFICES ASSUME Init PROVE Cache!Init
  OBVIOUS
<1>1. Newer = {}
  BY DEF Init, Newer
<1> QED
  BY <1>1 DEF Init, Cache!Init

LEMMA StepRefines == IInv /\ [Next]_vars => [Cache!Next]_(Cache!vars)
<1> SUFFICES ASSUME IInv, [Next]_vars
             PROVE  Cache!Next \/ UNCHANGED Cache!vars
  OBVIOUS
<1>1. ASSUME NEW k \in Keys, NEW v \in Values, NEW ttl \in Ttls \cup {NoTtl},
             Set(k, v, ttl)
      PROVE  Cache!Next
  BY <1>1, SetPuts DEF Cache!Next
<1>2. ASSUME NEW k \in Keys, Get(k)  PROVE Cache!Next
  BY <1>2, GetLooksUp DEF Cache!Next
<1>3. ASSUME NEW k \in Keys, Del(k)  PROVE Cache!Next
  BY <1>3, DelRemoves DEF Cache!Next
<1>4. CASE SweepBegin
  BY <1>4 DEF SweepBegin, Cache!vars, Newer
<1>5. ASSUME NEW k \in Keys, SweepVisit(k)
      PROVE  Cache!Next \/ UNCHANGED Cache!vars
  BY <1>5, SweepPurges DEF Cache!Next
<1>6. CASE Tick
  BY <1>6 DEF Tick, Cache!Next, Cache!Tick, Newer
<1>7. CASE UNCHANGED vars
  BY <1>7 DEF vars, Cache!vars, Newer
<1> QED
  BY <1>1, <1>2, <1>3, <1>4, <1>5, <1>6, <1>7 DEF Next, Call

\* For every capacity and every set of keys, the list-and-map implementation
\* behaves as the bounded TTL map with least-recently-used eviction.
THEOREM Refinement == Spec => ImplementsCache
<1>1. IInv /\ [Next]_vars => [Cache!Next]_(Cache!vars)
  BY StepRefines
<1> QED
  BY <1>1, InitRefines, Invariance, PTL DEF Spec, ImplementsCache, Cache!Spec

-----------------------------------------------------------------------------
(* The byte count.                                                         *)

\* The bytes of the entries of a map, by key.
Sizes(m) == [k \in Keys |-> EntryBytes(k, m[k].value)]
Present(m) == {k \in Keys : m[k] # Absent}
Bytes(m) == Sum(Sizes(m), Present(m))

LEMMA SizesType ==
  ASSUME NEW m \in [Keys -> Entry \cup {Absent}]
  PROVE  /\ IsFiniteSet(Present(m))
         /\ \A k \in Present(m) : Sizes(m)[k] = EntryBytes(k, m[k].value) /\ Sizes(m)[k] \in Int
<1>1. IsFiniteSet(Present(m))
  BY ConstAssumption, FS_Subset DEF Present
<1>2. ASSUME NEW k \in Present(m)
      PROVE  Sizes(m)[k] = EntryBytes(k, m[k].value) /\ Sizes(m)[k] \in Int
  <2>1. k \in Keys /\ m[k] \in Entry
    BY DEF Present
  <2>2. KeySize[k] \in Nat /\ ValueSize[m[k].value] \in Nat
    BY <2>1, ConstAssumption DEF Entry
  <2> QED
    BY <2>1, <2>2 DEF Sizes, EntryBytes
<1> QED
  BY <1>1, <1>2

\* Removing an entry takes its bytes away, whatever the order of the sum.
LEMMA DropBytes ==
  ASSUME NEW m \in [Keys -> Entry \cup {Absent}], NEW k \in Present(m)
  PROVE  /\ [m EXCEPT ![k] = Absent] \in [Keys -> Entry \cup {Absent}]
         /\ Present([m EXCEPT ![k] = Absent]) = Present(m) \ {k}
         /\ Bytes(m) \in Int /\ EntryBytes(k, m[k].value) \in Int
         /\ Bytes([m EXCEPT ![k] = Absent]) = Bytes(m) - EntryBytes(k, m[k].value)
<1>1. PICK d : d = [m EXCEPT ![k] = Absent]
  OBVIOUS
<1>2. d \in [Keys -> Entry \cup {Absent}] /\ Present(d) = Present(m) \ {k}
  BY <1>1 DEF Present
<1>3. \A x \in Present(d) : d[x] = m[x] /\ x \in Keys
  BY <1>1 DEF Present
<1>4. \A x \in Present(d) : Sizes(d)[x] = Sizes(m)[x]
  BY <1>3 DEF Sizes
<1>5. Bytes(d) = Sum(Sizes(m), Present(m) \ {k}) /\ Bytes(d) \in Int
  <2>1. PICK wd : wd = Sizes(d)
    OBVIOUS
  <2>2. PICK wm : wm = Sizes(m)
    OBVIOUS
  <2>3. PICK S : S = Present(d)
    OBVIOUS
  <2>4. IsFiniteSet(S) /\ (\A x \in S : wd[x] \in Int) /\ (\A x \in S : wd[x] = wm[x])
    BY <1>2, <1>4, <2>1, <2>2, <2>3, SizesType
  <2>5. Sum(wd, S) \in Int /\ Sum(wd, S) = Sum(wm, S)
    BY <2>4, SumProperties
  <2> QED
    BY <1>2, <2>1, <2>2, <2>3, <2>5 DEF Bytes
<1>6. /\ Bytes(m) \in Int
      /\ Bytes(m) = Sizes(m)[k] + Sum(Sizes(m), Present(m) \ {k})
  BY SizesType, SumProperties DEF Bytes
<1>7. Sizes(m)[k] = EntryBytes(k, m[k].value) /\ EntryBytes(k, m[k].value) \in Int
  BY SizesType
<1>8. Bytes(d) = Bytes(m) - EntryBytes(k, m[k].value)
  BY <1>5, <1>6, <1>7
<1> QED
  BY <1>1, <1>2, <1>6, <1>7, <1>8

\* A new entry adds its bytes.
LEMMA PutBytes ==
  ASSUME NEW m \in [Keys -> Entry \cup {Absent}], NEW k \in Keys \ Present(m), NEW e \in Entry
  PROVE  Bytes([m EXCEPT ![k] = e]) = Bytes(m) + EntryBytes(k, e.value)
<1>1. PICK p : p = [m EXCEPT ![k] = e]
  OBVIOUS
<1>2. /\ p \in [Keys -> Entry \cup {Absent}] /\ k \in Present(p) /\ p[k] = e
      /\ [p EXCEPT ![k] = Absent] = m
  BY <1>1, AbsentAssumption DEF Present
<1>3. /\ Bytes(p) \in Int /\ EntryBytes(k, e.value) \in Int
      /\ Bytes(m) = Bytes(p) - EntryBytes(k, e.value)
  BY <1>2, DropBytes
<1> QED
  BY <1>1, <1>3

BytesInv == bytes_used = Bytes(map)

LEMMA DropKeepsBytes ==
  ASSUME IInv, BytesInv, NEW k \in Stored, Drop(k)
  PROVE  BytesInv'
<1>1. map \in [Keys -> Entry \cup {Absent}] /\ k \in Present(map)
  BY DEF IInv, TypeOK, Stored, Present
<1> QED
  BY <1>1, DropBytes DEF Drop, BytesInv

LEMMA NewEntryType ==
  ASSUME IInv, NEW v \in Values, NEW ttl \in Ttls \cup {NoTtl}
  PROVE  [value |-> v, expires_at |-> Deadline(ttl)] \in Entry
<1>1. now \in Int /\ Second \in Int /\ (ttl # NoTtl => ttl \in Int)
  BY ConstAssumption DEF IInv, TypeOK
<1>2. Deadline(ttl) \in Int \cup {NoTtl}
  BY <1>1 DEF Deadline
<1> QED
  BY <1>2 DEF Entry

\* What an eviction frees is counted.
LEMMA MakeRoomBytes ==
  ASSUME IInv, BytesInv
  PROVE  MakeRoom.bytes_used = Bytes(MakeRoom.map)
<1>1. map \in [Keys -> Entry \cup {Absent}]
  BY DEF IInv, TypeOK
<1>2. CASE ~(Cardinality(Stored) >= Capacity)
  BY <1>2 DEF MakeRoom, BytesInv
<1>3. CASE Cardinality(Stored) >= Capacity
  <2>1. MakeRoom = Evicted
    BY <1>3 DEF MakeRoom
  <2>2. CASE order = <<>>
    BY <2>1, <2>2 DEF Evicted, BytesInv
  <2>3. CASE order # <<>>
    <3>1. Last(order) \in Stored
      <4>1. order \in Seq(Keys) /\ Elements(order) = Stored /\ Len(order) \in 1..Len(order)
        BY <2>3, OrderAsElements DEF IInv, TypeOK
      <4> QED
        BY <4>1 DEF Elements, Last
    <3>2. PICK lru : lru = Last(order)
      OBVIOUS
    <3>3. Evicted.map = [map EXCEPT ![lru] = Absent]
      BY <2>3, <3>2 DEF Evicted
    <3>4. Evicted.bytes_used = bytes_used - EntryBytes(lru, map[lru].value)
      BY <2>3, <3>1, <3>2 DEF Evicted
    <3>5. lru \in Present(map)
      BY <3>1, <3>2 DEF Stored, Present
    <3>6. Bytes([map EXCEPT ![lru] = Absent]) = Bytes(map) - EntryBytes(lru, map[lru].value)
      BY <1>1, <3>5, DropBytes
    <3> QED
      BY <2>1, <3>3, <3>4, <3>6 DEF BytesInv
  <2> QED
    BY <2>2, <2>3
<1> QED
  BY <1>2, <1>3

LEMMA SetKeepsBytes ==
  ASSUME IInv, BytesInv, NEW k \in Keys, NEW v \in Values, NEW ttl \in Ttls \cup {NoTtl},
         Set(k, v, ttl)
  PROVE  BytesInv'
<1>1. PICK e : e = [value |-> v, expires_at |-> Deadline(ttl)]
  OBVIOUS
<1>2. e \in Entry /\ e.value = v
  BY <1>1, NewEntryType
<1>3. map \in [Keys -> Entry \cup {Absent}]
  BY DEF IInv, TypeOK
<1>4. CASE SetUpdate(k, v, ttl)
  <2>1. k \in Present(map)
    BY <1>4 DEF SetUpdate, Stored, Present
  <2>2. PICK d : d = [map EXCEPT ![k] = Absent]
    OBVIOUS
  <2>3. /\ d \in [Keys -> Entry \cup {Absent}] /\ k \in Keys \ Present(d)
        /\ Bytes(d) = bytes_used - EntryBytes(k, map[k].value)
    <3>1. /\ d \in [Keys -> Entry \cup {Absent}] /\ Present(d) = Present(map) \ {k}
          /\ Bytes(d) = Bytes(map) - EntryBytes(k, map[k].value)
      BY <1>3, <2>1, <2>2, DropBytes
    <3> QED
      BY <3>1 DEF BytesInv
  <2>4. Bytes([d EXCEPT ![k] = e]) = Bytes(d) + EntryBytes(k, e.value)
    BY <1>2, <2>3, PutBytes
  <2>5. map' = [d EXCEPT ![k] = e]
    BY <1>1, <1>3, <1>4, <2>2 DEF SetUpdate
  <2>6. bytes_used' = (bytes_used - EntryBytes(k, map[k].value)) + EntryBytes(k, v)
    BY <1>4 DEF SetUpdate
  <2> QED
    BY <1>2, <2>3, <2>4, <2>5, <2>6 DEF BytesInv
<1>5. CASE SetInsert(k, v, ttl)
  <2>1. PICK m : m = MakeRoom.map
    OBVIOUS
  <2>2. /\ k \notin Stored /\ map' = [m EXCEPT ![k] = e]
        /\ bytes_used' = MakeRoom.bytes_used + EntryBytes(k, v)
    BY <1>1, <1>5, <2>1 DEF SetInsert
  <2>3. m \in [Keys -> Entry \cup {Absent}]
    BY <2>1, MakeRoomFacts
  <2>4. k \notin Present(m)
    <3>1. m = map \/ m = [map EXCEPT ![Last(order)] = Absent]
      BY <2>1, MakeRoomFacts
    <3> QED
      BY <1>3, <2>2, <3>1 DEF Present, Stored
  <2>5. Bytes([m EXCEPT ![k] = e]) = Bytes(m) + EntryBytes(k, e.value)
    BY <1>2, <2>3, <2>4, PutBytes
  <2>6. MakeRoom.bytes_used = Bytes(m)
    BY <2>1, MakeRoomBytes
  <2> QED
    BY <1>2, <2>2, <2>5, <2>6 DEF BytesInv
<1> QED
  BY <1>4, <1>5 DEF Set

LEMMA StepBytes == IInv /\ BytesInv /\ [Next]_vars => BytesInv'
<1> SUFFICES ASSUME IInv, BytesInv, [Next]_vars PROVE BytesInv'
  OBVIOUS
<1>1. ASSUME NEW k \in Keys, NEW v \in Values, NEW ttl \in Ttls \cup {NoTtl}, Set(k, v, ttl)
      PROVE  BytesInv'
  BY <1>1, SetKeepsBytes
<1>2. ASSUME NEW k \in Keys, Get(k) PROVE BytesInv'
  <2>1. CASE GetExpired(k)
    BY <2>1, DropKeepsBytes DEF GetExpired
  <2>2. CASE GetMiss(k) \/ GetHit(k)
    BY <2>2 DEF GetMiss, GetHit, BytesInv
  <2> QED
    BY <1>2, <2>1, <2>2 DEF Get
<1>3. ASSUME NEW k \in Keys, Del(k) PROVE BytesInv'
  <2>1. CASE DelHit(k)
    BY <2>1, DropKeepsBytes DEF DelHit
  <2>2. CASE DelMiss(k)
    BY <2>2 DEF DelMiss, BytesInv
  <2> QED
    BY <1>3, <2>1, <2>2 DEF Del
<1>4. ASSUME NEW k \in Keys, SweepVisit(k) PROVE BytesInv'
  <2>1. k \in Stored
    BY <1>4 DEF SweepVisit, IInv, IteratorsValid
  <2>2. CASE is_expired(map[k])
    BY <1>4, <2>1, <2>2, DropKeepsBytes DEF SweepVisit
  <2>3. CASE ~is_expired(map[k])
    BY <1>4, <2>3 DEF SweepVisit, BytesInv
  <2> QED
    BY <2>2, <2>3
<1>5. CASE SweepBegin \/ Tick \/ UNCHANGED vars
  BY <1>5 DEF SweepBegin, Tick, vars, BytesInv
<1> QED
  BY <1>1, <1>2, <1>3, <1>4, <1>5 DEF Next, Call

LEMMA InitBytes == Init => BytesInv
<1> SUFFICES ASSUME Init PROVE BytesInv
  OBVIOUS
<1>1. Present(map) = {}
  BY DEF Init, Present
<1> QED
  BY <1>1, SumOfNone DEF Init, BytesInv, Bytes

\* BytesExact's sum is Bytes: the fold of the community modules solves the same
\* equation.
LEMMA BytesAreExact == IInv /\ BytesInv => BytesExact
<1> SUFFICES ASSUME IInv, BytesInv PROVE BytesExact
  OBVIOUS
<1> DEFINE iter == CHOOSE g :
             g = [s \in SUBSET Stored |->
                    IF s = {} THEN 0
                    ELSE EntryBytes(Pick(s), map[Pick(s)].value) + g[s \ {Pick(s)}]]
<1>1. Stored = Present(map) /\ IsFiniteSet(Stored)
  BY SizesType DEF IInv, TypeOK, Stored, Present
<1>2. \A s \in SUBSET Stored : s # {} => Pick(s) \in Keys
  BY DEF Pick, Stored
<1>3. ASSUME NEW g
      PROVE  IsSum(g, Sizes(map), Stored)
               <=> g = [s \in SUBSET Stored |->
                          IF s = {} THEN 0
                          ELSE EntryBytes(Pick(s), map[Pick(s)].value) + g[s \ {Pick(s)}]]
  <2>1. \A s \in SUBSET Stored : s # {} =>
          Sizes(map)[Pick(s)] = EntryBytes(Pick(s), map[Pick(s)].value)
    BY <1>2 DEF Sizes
  <2> QED
    BY <2>1 DEF IsSum
<1>4. \E g : IsSum(g, Sizes(map), Stored)
  BY <1>1, SumExists
<1>5. iter = [s \in SUBSET Stored |->
                IF s = {} THEN 0
                ELSE EntryBytes(Pick(s), map[Pick(s)].value) + iter[s \ {Pick(s)}]]
  BY <1>3, <1>4
<1>6. PICK h : h = CHOOSE g : IsSum(g, Sizes(map), Stored)
  OBVIOUS
<1>7. IsSum(h, Sizes(map), Stored)
  BY <1>4, <1>6
<1>8. IsSum(iter, Sizes(map), Stored)
  BY <1>3, <1>5
<1>9. PICK i : i = iter
  OBVIOUS
<1>10. h[Stored] = i[Stored]
  BY <1>1, <1>7, <1>8, <1>9, SumAgree
<1>11. bytes_used = i[Stored]
  BY <1>1, <1>6, <1>10 DEF BytesInv, Bytes, Sum
<1>12. BytesExact <=> bytes_used = iter[Stored]
  BY DEF BytesExact, MapThenSumSet, MapThenFoldSet, Pick, iter
<1> QED
  BY <1>9, <1>11, <1>12

\* The running byte count is the sum over the stored entries, whatever is set,
\* overwritten, deleted, evicted or expired, and for all sizes.
THEOREM BytesCounted == Spec => []BytesExact
<1>1. Spec => [](IInv /\ BytesInv)
  BY InitInv, StepInv, InitBytes, StepBytes, PTL DEF Spec
<1>2. IInv /\ BytesInv => BytesExact
  BY BytesAreExact
<1> QED
  BY <1>1, <1>2, PTL

-----------------------------------------------------------------------------
(* The history of uses.                                                    *)

\* A pair of the recency relation is an old one or has the key just used in front;
\* its second key is stored and is not the one just used.
StepShape ==
  /\ Used(reply') \subseteq Keys
  /\ \A p \in Newer' :
       /\ p[1] \in Keys /\ p[2] \in Keys /\ map'[p[2]] # Absent
       /\ p[2] \notin Used(reply')
       /\ p \in Newer \/ p[1] \in Used(reply')

\* The recency relation after a step that puts k in front and drops the keys of K.
LEMMA FrontShape ==
  ASSUME IInv, NEW k \in Keys, NEW K \in SUBSET Keys,
         Newer' = Cache!Front(k, K), Used(reply') = {k},
         \A h \in Keys \ (K \cup {k}) : map'[h] = map[h]
  PROVE  StepShape
<1> SUFFICES ASSUME NEW p \in Newer'
             PROVE  /\ p[1] \in Keys /\ p[2] \in Keys /\ map'[p[2]] # Absent
                    /\ p[2] \notin Used(reply')
                    /\ p \in Newer \/ p[1] \in Used(reply')
  BY DEF StepShape
<1>1. CASE p \in Cache!Without(K \cup {k})
  <2>1. p \in Newer /\ p[2] \notin K \cup {k}
    BY <1>1 DEF Cache!Without
  <2>2. p[1] \in Stored /\ p[2] \in Stored
    BY <2>1, NewerFacts
  <2> QED
    BY <2>1, <2>2 DEF Stored
<1>2. CASE \E h \in Cache!Held \ (K \cup {k}) : p = <<k, h>>
  BY <1>2 DEF Cache!Held
<1> QED
  BY <1>1, <1>2 DEF Cache!Front

\* ... and after one that takes out k.
LEMMA ForgetShape ==
  ASSUME IInv, NEW k \in Keys, Cache!Forget(k), Used(reply') \subseteq Keys,
         \A p \in Newer : p[2] \notin Used(reply')
  PROVE  StepShape
<1> SUFFICES ASSUME NEW p \in Newer'
             PROVE  /\ p[1] \in Keys /\ p[2] \in Keys /\ map'[p[2]] # Absent
                    /\ p[2] \notin Used(reply')
                    /\ p \in Newer \/ p[1] \in Used(reply')
  BY DEF StepShape
<1>1. p \in Newer /\ p[2] # k /\ map' = [map EXCEPT ![k] = Absent]
  BY DEF Cache!Forget, Cache!Without
<1>2. p[1] \in Stored /\ p[2] \in Stored
  BY <1>1, NewerFacts
<1> QED
  BY <1>1, <1>2 DEF Stored, IInv, TypeOK

LEMMA StepHasShape ==
  ASSUME IInv, ListTellsHistory, Used(reply) \subseteq Keys, [Next]_vars
  PROVE  StepShape
<1>1. Cache!Next \/ UNCHANGED Cache!vars
  BY StepRefines
<1>2. \A p \in Newer : p[2] \notin Used(reply)
  BY DEF ListTellsHistory
<1>3. ASSUME NEW k \in Keys, NEW v \in Values, NEW ttl \in Ttls \cup {NoTtl},
             Cache!Put(k, v, ttl)
      PROVE  StepShape
  <2>1. Newer' = Cache!Front(k, Cache!Victims(k))
    BY <1>3 DEF Cache!Put
  <2>2. reply' = [op |-> "set", key |-> k, result |-> TRUE]
    BY <1>3 DEF Cache!Put, Cache!Return
  <2>3. Used(reply') = {k}
    BY <2>2 DEF Used
  <2>4. Cache!Victims(k) \in SUBSET Keys
    BY DEF Cache!Victims
  <2>5. \A h \in Keys \ (Cache!Victims(k) \cup {k}) : map'[h] = map[h]
    BY <1>3 DEF Cache!Put
  <2> QED
    BY <2>1, <2>3, <2>4, <2>5, FrontShape
<1>4. ASSUME NEW k \in Keys, Cache!LookupHit(k) PROVE StepShape
  <2>1. /\ Newer' = Cache!Front(k, {}) /\ map' = map
        /\ reply' = [op |-> "get", key |-> k, result |-> map[k].value]
        /\ k \in Cache!Held
    BY <1>4 DEF Cache!LookupHit, Cache!Return, Cache!Live
  <2>2. map[k].value # Absent
    BY <2>1, ConstAssumption DEF Cache!Held, IInv, TypeOK, Entry
  <2>3. Used(reply') = {k}
    BY <2>1, <2>2 DEF Used
  <2> QED
    BY <2>1, <2>3, FrontShape
<1>5. ASSUME NEW k \in Keys, Cache!LookupMiss(k) PROVE StepShape
  <2>1. Cache!Forget(k) /\ reply' = [op |-> "get", key |-> k, result |-> Absent]
    BY <1>5 DEF Cache!LookupMiss, Cache!Return
  <2>2. Used(reply') = {}
    BY <2>1 DEF Used
  <2> QED
    BY <2>1, <2>2, ForgetShape
<1>6. ASSUME NEW k \in Keys, Cache!Remove(k) PROVE StepShape
  <2>1. Cache!Forget(k) /\ reply'.op = "del"
    BY <1>6 DEF Cache!Remove, Cache!Return
  <2>2. Used(reply') = {}
    BY <2>1 DEF Used
  <2> QED
    BY <2>1, <2>2, ForgetShape
<1>7. ASSUME NEW k \in Keys, Cache!Purge(k) PROVE StepShape
  <2>1. Cache!Forget(k) /\ reply' = reply
    BY <1>7 DEF Cache!Purge
  <2> QED
    BY <1>2, <2>1, ForgetShape
<1>8. ASSUME Newer' = Newer, map' = map, reply' = reply PROVE StepShape
  BY <1>2, <1>8, NewerFacts DEF StepShape, Stored
<1> QED
  BY <1>1, <1>3, <1>4, <1>5, <1>6, <1>7, <1>8 DEF Cache!Next, Cache!Tick, Cache!vars

HistoryInv ==
  /\ IInv /\ ListTellsHistory
  /\ usedSince \in [Keys -> SUBSET Keys] /\ Used(reply) \subseteq Keys

LEMMA InitHistory == HInit => HistoryInv
<1> SUFFICES ASSUME HInit PROVE HistoryInv
  OBVIOUS
<1>1. IInv
  BY InitInv DEF HInit
<1>2. Newer = {}
  BY DEF HInit, Init, Newer
<1>3. Used(reply) = {}
  BY DEF HInit, Init, Used
<1> QED
  BY <1>1, <1>2, <1>3 DEF HInit, HistoryInv, ListTellsHistory

LEMMA StepHistory == HistoryInv /\ [HNext]_hvars => HistoryInv'
<1> SUFFICES ASSUME HistoryInv, [HNext]_hvars PROVE HistoryInv'
  OBVIOUS
<1>1. CASE UNCHANGED hvars
  <2>1. UNCHANGED vars /\ usedSince' = usedSince
    BY <1>1 DEF hvars
  <2>2. IInv'
    BY <2>1, StepInv DEF HistoryInv
  <2> QED
    BY <2>1, <2>2 DEF HistoryInv, ListTellsHistory, Newer, vars
<1>2. CASE HNext
  <2>1. Next
    BY <1>2 DEF HNext
  <2>2. IInv' /\ StepShape /\ Used(reply') \subseteq Keys
    BY <2>1, StepInv, StepHasShape DEF HistoryInv, StepShape
  <2>3. \A k \in Keys :
          usedSince'[k] = IF map'[k] = Absent \/ k \in Used(reply') THEN {}
                          ELSE usedSince[k] \cup Used(reply')
    BY <1>2 DEF HNext
  <2>4. usedSince' \in [Keys -> SUBSET Keys]
    BY <1>2, <2>2 DEF HNext, HistoryInv
  <2>5. ASSUME NEW p \in Newer'
        PROVE  p[1] \in usedSince'[p[2]] /\ p[2] \notin Used(reply')
    <3>1. /\ p[2] \in Keys /\ map'[p[2]] # Absent
          /\ p[2] \notin Used(reply')
          /\ p \in Newer \/ p[1] \in Used(reply')
      BY <2>2 DEF StepShape
    <3>2. usedSince'[p[2]] = usedSince[p[2]] \cup Used(reply')
      BY <2>3, <3>1
    <3>3. p \in Newer => p[1] \in usedSince[p[2]]
      BY DEF HistoryInv, ListTellsHistory
    <3> QED
      BY <3>1, <3>2, <3>3
  <2> QED
    BY <2>2, <2>4, <2>5 DEF HistoryInv, ListTellsHistory
<1> QED
  BY <1>1, <1>2

\* Only the set of a new key takes another key out without a sweep or a delete, and
\* the key it takes is the oldest of a full cache.
LEMMA EvictedIsOldest ==
  ASSUME IInv, Next, NEW k \in Keys, Evicts(k)
  PROVE  /\ Cardinality(Stored) >= Capacity
         /\ \A g \in Stored \ {k} : <<g, k>> \in Newer
         /\ reply'.key \in Keys \ Stored
<1>1. k \in Stored /\ k \notin Stored' /\ reply'.op = "set" /\ unvisited' = unvisited
  BY DEF Evicts
<1>2. map[k] # Absent /\ map'[k] = Absent
  BY <1>1 DEF Stored
<1>3. PICK j \in Keys, v \in Values, ttl \in Ttls \cup {NoTtl} : Set(j, v, ttl)
  <2>1. CASE SweepBegin \/ Tick
    BY <1>2, <2>1 DEF SweepBegin, Tick
  <2>2. ASSUME NEW j \in Keys, Get(j) \/ Del(j) PROVE FALSE
    <3>1. reply'.op \in {"get", "del"}
      BY <2>2 DEF Get, GetMiss, GetExpired, GetHit, Del, DelMiss, DelHit, Return
    <3> QED
      BY <1>1, <3>1
  <2>3. ASSUME NEW j \in Keys, SweepVisit(j) PROVE FALSE
    BY <1>1, <2>3 DEF SweepVisit
  <2> QED
    BY <2>1, <2>2, <2>3 DEF Next, Call
<1>4. Cache!Put(j, v, ttl)
  BY <1>3, SetPuts
<1>5. reply'.key = j /\ Cache!Held = Stored
  BY <1>4 DEF Cache!Put, Cache!Return, Cache!Held, Stored
<1>6. k # j
  BY <1>5 DEF Evicts
<1>7. k \in Cache!Victims(j)
  <2>1. map'[k] = IF k \in Cache!Victims(j) THEN Absent ELSE map[k]
    BY <1>4, <1>6 DEF Cache!Put
  <2> QED
    BY <1>2, <2>1
<1>8. j \notin Stored /\ ~(Cardinality(Stored) < Capacity) /\ Cache!Oldest(k)
  BY <1>5, <1>7, SameCardinality DEF Cache!Victims
<1>9. Cardinality(Stored) \in Nat
  BY StoredCount, FS_CardinalityType
<1> QED
  BY <1>5, <1>8, <1>9, CapacityAssumption DEF Cache!Oldest

LEMMA EvictionKeeps ==
  ASSUME HistoryInv, Next, NEW k \in Keys, Evicts(k)
  PROVE  Cardinality(usedSince[k] \cup {reply'.key}) >= Capacity
<1> DEFINE j == reply'.key
           others == Stored \ {k}
           used == usedSince[k] \cup {j}
<1>1. /\ Cardinality(Stored) >= Capacity
      /\ \A g \in others : <<g, k>> \in Newer
      /\ j \in Keys \ Stored /\ k \in Stored
  BY EvictedIsOldest DEF HistoryInv, Evicts
<1>2. \A g \in others : g \in usedSince[k]
  <2>1. \A g \in others : <<g, k>>[1] \in usedSince[<<g, k>>[2]]
    BY <1>1 DEF HistoryInv, ListTellsHistory
  <2> QED
    BY <2>1
<1>3. others \cup {j} \in SUBSET used /\ used \in SUBSET Keys
  BY <1>1, <1>2 DEF HistoryInv
<1> HIDE DEF j, used
<1>4. IsFiniteSet(used)
  BY <1>3, ConstAssumption, FS_Subset
<1>5. IsFiniteSet(Stored) /\ Cardinality(Stored) \in Nat
  BY StoredCount, FS_CardinalityType DEF HistoryInv
<1>6. IsFiniteSet(others) /\ Cardinality(others) = Cardinality(Stored) - 1
  BY <1>1, <1>5, FS_RemoveElement
<1>7. Cardinality(others \cup {j}) = Cardinality(others) + 1
  <2>1. j \notin others
    BY <1>1
  <2> HIDE DEF others
  <2> QED
    BY <1>6, <2>1, FS_AddElement
<1>8. Cardinality(others \cup {j}) <= Cardinality(used)
  BY <1>3, <1>4, FS_Subset
<1>9. Cardinality(used) \in Nat
  BY <1>4, FS_CardinalityType
<1>10. Cardinality(used) >= Capacity
  BY <1>1, <1>5, <1>6, <1>7, <1>8, <1>9, CapacityAssumption
<1> QED
  BY <1>10 DEF used, j

\* evict_lru takes the key at the list's back, and the list is the order of the
\* last uses: for every capacity, a key goes only after Capacity other keys have
\* been used since, the one that needs the room included.
THEOREM WorkingSetStays == HSpec => WorkingSetKept
<1>1. HSpec => []HistoryInv
  BY InitHistory, StepHistory, PTL DEF HSpec
<1>2. HistoryInv /\ [HNext]_hvars =>
        [\A k \in Keys :
           Evicts(k) => Cardinality(usedSince[k] \cup {reply'.key}) >= Capacity]_hvars
  BY EvictionKeeps DEF HNext
<1> QED
  BY <1>1, <1>2, PTL DEF HSpec, WorkingSetKept

-----------------------------------------------------------------------------
(* The store.                                                              *)

\* Who holds the mutex is where the threads are, and only the expiry thread
\* inside its critical section has keys left to visit.
MutexInv ==
  /\ mu = "server" <=> server \in {"locked", "scan", "print"}
  /\ mu = "expiry" <=> expiry = "sweep"
  /\ unvisited # {} => expiry = "sweep"

\* The progress of KEYS: every key that is still live has yet to be scanned,
\* waits as a copy to be printed, or is printed; copies and lines are faithful.
CopiesFaithful ==
  \A c \in copied : c.key \in Stored /\ c.entry = map[c.key]

LinesFaithful ==
  /\ \A l \in lines :
       /\ l.key \in Stored
       /\ l.value = map[l.key].value
       /\ (l.ttl = -1) <=> (map[l.key].expires_at = NoTtl)
  /\ \A l, m \in lines : l.key = m.key => l = m
  /\ \A l \in lines, c \in copied : l.key # c.key

KeysInv ==
  /\ server = "scan" =>
       /\ lines = {}
       /\ CopiesFaithful
       /\ \A k \in Stored : ~is_expired(map[k]) =>
            k \in unscanned \/ \E c \in copied : c.key = k
  /\ server = "scan" => unscanned \subseteq Stored
  /\ server = "print" =>
       /\ CopiesFaithful
       /\ LinesFaithful
       /\ \A k \in Stored : ~is_expired(map[k]) =>
            (\E c \in copied : c.key = k) \/ \E l \in lines : l.key = k

KVIInv == IInv /\ KVTypeOK /\ MutexInv /\ KeysInv

-----------------------------------------------------------------------------
LEMMA KVInitInv == KVInit => KVIInv
<1> SUFFICES ASSUME KVInit PROVE KVIInv
  OBVIOUS
<1>1. IInv
  BY InitInv DEF KVInit
<1>2. KVTypeOK
  BY <1>1 DEF KVInit, KVTypeOK, IInv, Commands
<1>3. MutexInv
  BY DEF KVInit, Init, MutexInv
<1> QED
  BY <1>1, <1>2, <1>3 DEF KVIInv, KVInit, KeysInv

\* The mutex does what LruCache asks of its callers.
LEMMA StepSerialized ==
  ASSUME KVIInv, [KVNext]_kvVars
  PROVE  [Next]_vars
<1>1. server = "locked" => unvisited = {}
  BY DEF KVIInv, MutexInv
<1>2. cmd.op = "set" => cmd.key \in Keys /\ cmd.value \in Values
                        /\ cmd.ttl \in Ttls \cup {NoTtl}
  BY DEF KVIInv, KVTypeOK, Commands
<1>3. cmd.op \in {"get", "del"} => cmd.key \in Keys
  BY DEF KVIInv, KVTypeOK, Commands
<1>4. CASE StoreSet
  BY <1>1, <1>2, <1>4 DEF StoreSet, Locked, Next, Call
<1>5. CASE StoreGet
  BY <1>1, <1>3, <1>5 DEF StoreGet, Locked, Next, Call
<1>6. CASE StoreDel
  BY <1>1, <1>3, <1>6 DEF StoreDel, Locked, Next, Call
<1>7. CASE ExpiryLock
  BY <1>7 DEF ExpiryLock, KVIInv, MutexInv, Next, Call
<1>8. ASSUME NEW k \in Keys, ExpirySweep(k)  PROVE Next
  BY <1>8 DEF ExpirySweep, Next
<1>9. CASE Clock
  BY <1>9 DEF Clock, Next
<1>10. CASE \/ \E c \in Commands : Issue(c)
            \/ Lock \/ get_stats \/ KeysBegin \/ KeysScanned \/ KeysEnd
            \/ \E k \in Keys : KeysScan(k)
            \/ \E c \in copied : KeysPrint(c)
            \/ Wake \/ ExpiryDone \/ UNCHANGED kvVars
  BY <1>10 DEF Issue, Lock, get_stats, KeysBegin, KeysScanned, KeysEnd, KeysScan,
               KeysPrint, Wake, ExpiryDone, kvVars
<1> QED
  BY <1>4, <1>5, <1>6, <1>7, <1>8, <1>9, <1>10 DEF KVNext, Execute, ExpirySteps

LEMMA StepMutex ==
  ASSUME KVIInv, [KVNext]_kvVars
  PROVE  MutexInv'
<1> USE DEF KVIInv, MutexInv
<1>1. ASSUME NEW c \in Commands, Issue(c)  PROVE MutexInv'
  BY <1>1 DEF Issue, vars
<1>2. CASE Lock
  BY <1>2 DEF Lock, vars
<1>3. CASE StoreSet
  BY <1>3 DEF StoreSet, Set, Locked, Unlock
<1>4. CASE StoreGet
  BY <1>4 DEF StoreGet, Get, Locked, Unlock
<1>5. CASE StoreDel
  BY <1>5 DEF StoreDel, Del, Locked, Unlock
<1>6. CASE get_stats
  BY <1>6 DEF get_stats, Locked, Unlock, vars
<1>7. CASE KeysBegin
  BY <1>7 DEF KeysBegin, Locked, vars
<1>8. CASE KeysScanned
  BY <1>8 DEF KeysScanned, vars
<1>9. CASE KeysEnd
  BY <1>9 DEF KeysEnd, Unlock, vars
<1>10. ASSUME NEW k \in Keys, KeysScan(k)  PROVE MutexInv'
  BY <1>10 DEF KeysScan, vars
<1>11. ASSUME NEW c \in copied, KeysPrint(c)  PROVE MutexInv'
  BY <1>11 DEF KeysPrint, vars
<1>12. CASE Wake
  BY <1>12 DEF Wake, vars
<1>13. CASE ExpiryLock
  BY <1>13 DEF ExpiryLock
<1>14. ASSUME NEW k \in Keys, ExpirySweep(k)  PROVE MutexInv'
  BY <1>14 DEF ExpirySweep
<1>15. CASE ExpiryDone
  BY <1>15 DEF ExpiryDone, vars
<1>16. CASE Clock
  BY <1>16 DEF Clock, Tick
<1>17. CASE UNCHANGED kvVars
  BY <1>17 DEF kvVars, vars
<1> QED
  BY <1>1, <1>2, <1>3, <1>4, <1>5, <1>6, <1>7, <1>8, <1>9, <1>10, <1>11, <1>12,
     <1>13, <1>14, <1>15, <1>16, <1>17 DEF KVNext, Execute, ExpirySteps

LEMMA TtlRemaining ==
  ASSUME TypeOK, NEW e \in Entry
  PROVE  /\ ttl_remaining(e) \in Int
         /\ (ttl_remaining(e) = -1) <=> (e.expires_at = NoTtl)
<1>1. CASE e.expires_at = NoTtl
  BY <1>1 DEF ttl_remaining
<1>2. CASE e.expires_at # NoTtl
  <2>1. e.expires_at \in Int /\ now \in Int /\ Second \in Nat \ {0}
    BY <1>2, ConstAssumption DEF Entry, TypeOK
  <2>2. (e.expires_at - now) \div Second \in Int
    BY <2>1
  <2> QED
    BY <1>2, <2>2 DEF ttl_remaining
<1> QED
  BY <1>1, <1>2

LEMMA StepTypes ==
  ASSUME KVIInv, [KVNext]_kvVars, TypeOK'
  PROVE  KVTypeOK'
<1> USE DEF KVTypeOK
<1>1. KVTypeOK
  BY DEF KVIInv
<1>2. ASSUME NEW c \in Commands, Issue(c)  PROVE KVTypeOK'
  BY <1>1, <1>2 DEF Issue, storeVars, keysVars
<1>3. CASE Lock
  BY <1>1, <1>3 DEF Lock, storeVars, keysVars
<1>4. CASE StoreSet
  BY <1>1, <1>4 DEF StoreSet, Unlock, keysVars
<1>5. CASE StoreGet
  <2>1. hits' \in Nat /\ misses' \in Nat
    BY <1>1, <1>5 DEF StoreGet
  <2> QED
    BY <1>1, <1>5, <2>1 DEF StoreGet, Unlock, keysVars
<1>6. CASE StoreDel
  BY <1>1, <1>6 DEF StoreDel, Unlock, keysVars
<1>7. CASE get_stats
  <2>1. stats' \in [total_requests : Nat, hits : Nat, misses : Nat, bytes_used : Int]
    BY <1>1, <1>7 DEF get_stats, TypeOK
  <2> QED
    BY <1>1, <1>7, <2>1 DEF get_stats, Unlock, storeVars, keysVars
<1>8. CASE KeysBegin
  BY <1>1, <1>8 DEF KeysBegin, storeVars, Stored
<1>9. CASE KeysScanned
  BY <1>1, <1>9 DEF KeysScanned, storeVars, keysVars
<1>10. CASE KeysEnd
  BY <1>1, <1>10 DEF KeysEnd, Unlock, storeVars, keysVars
<1>11. ASSUME NEW k \in Keys, KeysScan(k)  PROVE KVTypeOK'
  <2>1. k \in Stored
    BY <1>11 DEF KeysScan, KVIInv, KeysInv
  <2>2. map[k] \in Entry
    BY <1>1, <2>1, StoredEntry
  <2>3. copied' \in SUBSET Copy
    <3>1. [key |-> k, entry |-> map[k]] \in Copy
      BY <2>2 DEF Copy
    <3> QED
      BY <1>1, <1>11, <3>1 DEF KeysScan
  <2>4. unscanned' \in SUBSET Keys
    BY <1>1, <1>11 DEF KeysScan
  <2> QED
    BY <1>1, <1>11, <2>3, <2>4 DEF KeysScan, storeVars
<1>12. ASSUME NEW c \in copied, KeysPrint(c)  PROVE KVTypeOK'
  <2>1. c.key \in Keys /\ c.entry \in Entry /\ c.entry.value \in Values
    BY <1>1 DEF Copy, Entry
  <2>2. [key |-> c.key, value |-> c.entry.value, ttl |-> ttl_remaining(c.entry)] \in Line
    BY <1>1, <2>1, TtlRemaining DEF Line
  <2>3. lines' \in SUBSET Line /\ copied' \in SUBSET Copy
    BY <1>1, <1>12, <2>2 DEF KeysPrint
  <2> QED
    BY <1>1, <1>12, <2>3 DEF KeysPrint, storeVars
<1>13. CASE Wake
  BY <1>1, <1>13 DEF Wake, storeVars, keysVars
<1>14. CASE ExpiryLock
  BY <1>1, <1>14 DEF ExpiryLock, storeVars, keysVars
<1>15. ASSUME NEW k \in Keys, ExpirySweep(k)  PROVE KVTypeOK'
  BY <1>1, <1>15 DEF ExpirySweep, storeVars, keysVars
<1>16. CASE ExpiryDone
  BY <1>1, <1>16 DEF ExpiryDone, storeVars, keysVars
<1>17. CASE Clock
  BY <1>1, <1>17 DEF Clock, storeVars, keysVars
<1>18. CASE UNCHANGED kvVars
  BY <1>1, <1>18 DEF kvVars, storeVars, keysVars
<1> QED
  BY <1>2, <1>3, <1>4, <1>5, <1>6, <1>7, <1>8, <1>9, <1>10, <1>11, <1>12, <1>13,
     <1>14, <1>15, <1>16, <1>17, <1>18 DEF KVNext, Execute, ExpirySteps

\* While KEYS holds the mutex the map stands still; the clock may only make
\* live entries expire.
LEMMA KeysFrame ==
  ASSUME KVIInv, UNCHANGED <<map, server, keysVars>>, now' >= now, now' \in Int
  PROVE  KeysInv'
<1>1. Stored' = Stored
  BY DEF Stored
<1>2. \A k \in Stored : ~is_expired(map[k])' => ~is_expired(map[k])
  <2> TAKE k \in Stored
  <2>1. map[k] \in Entry /\ now \in Int
    BY StoredEntry DEF KVIInv, IInv, TypeOK
  <2> QED
    BY <2>1 DEF is_expired, Entry
<1> QED
  BY <1>1, <1>2 DEF KVIInv, KeysInv, CopiesFaithful, LinesFaithful, keysVars

LEMMA StepKeys ==
  ASSUME KVIInv, [KVNext]_kvVars
  PROVE  KeysInv'
<1>0. now \in Int
  BY DEF KVIInv, IInv, TypeOK
<1>1. ASSUME NEW c \in Commands, Issue(c)  PROVE KeysInv'
  BY <1>1 DEF Issue, KeysInv
<1>2. CASE Lock
  BY <1>2 DEF Lock, KeysInv
<1>3. CASE StoreSet \/ StoreGet \/ StoreDel \/ get_stats \/ KeysEnd
  BY <1>3 DEF StoreSet, StoreGet, StoreDel, get_stats, KeysEnd, Unlock, KeysInv
<1>4. CASE KeysBegin
  BY <1>4 DEF KeysBegin, KeysInv, CopiesFaithful, Stored, vars
<1>5. CASE KeysScanned
  <2>1. unscanned = {} /\ server = "scan" /\ server' = "print"
        /\ UNCHANGED <<map, now, keysVars>>
    BY <1>5 DEF KeysScanned, vars
  <2> QED
    BY <2>1 DEF KVIInv, KeysInv, CopiesFaithful, LinesFaithful, Stored, is_expired,
                keysVars
<1>6. ASSUME NEW k \in Keys, KeysScan(k)  PROVE KeysInv'
  <2>1. /\ server = "scan" /\ server' = "scan" /\ k \in unscanned
        /\ map' = map /\ now' = now /\ lines' = lines
        /\ unscanned' = unscanned \ {k}
        /\ Stored' = Stored /\ k \in Stored
    BY <1>6 DEF KeysScan, KVIInv, KeysInv, vars, Stored
  <2>2. CASE is_expired(map[k])
    BY <1>6, <2>1, <2>2 DEF KeysScan, KVIInv, KeysInv, CopiesFaithful, is_expired
  <2>3. CASE ~is_expired(map[k])
    <3> DEFINE new == [key |-> k, entry |-> map[k]]
    <3>1. copied' = copied \cup {new} /\ new.key = k /\ new.entry = map[k]
      BY <1>6, <2>3 DEF KeysScan
    <3> HIDE DEF new
    <3>2. CopiesFaithful'
      BY <2>1, <3>1 DEF KVIInv, KeysInv, CopiesFaithful
    <3> QED
      BY <2>1, <3>1, <3>2 DEF KVIInv, KeysInv, is_expired
  <2> QED
    BY <2>2, <2>3
<1>7. ASSUME NEW c \in copied, KeysPrint(c)  PROVE KeysInv'
  <2> DEFINE new == [key |-> c.key, value |-> c.entry.value,
                     ttl |-> ttl_remaining(c.entry)]
  <2>1. /\ server = "print" /\ server' = "print"
        /\ map' = map /\ now' = now /\ Stored' = Stored
        /\ lines' = lines \cup {new} /\ copied' = copied \ {c}
    BY <1>7 DEF KeysPrint, vars, Stored
  <2>2. c.key \in Stored /\ c.entry = map[c.key] /\ map[c.key] \in Entry
    BY <2>1, StoredEntry DEF KVIInv, IInv, KeysInv, CopiesFaithful
  <2>3. /\ new.key = c.key /\ new.value = map[c.key].value
        /\ (new.ttl = -1) <=> (map[c.key].expires_at = NoTtl)
    BY <2>2, TtlRemaining DEF KVIInv, IInv
  <2> HIDE DEF new
  <2>4. CopiesFaithful'
    BY <2>1 DEF KVIInv, KeysInv, CopiesFaithful
  <2>5. \A d \in copied : d # c => d.key # c.key
    <3>1. \A d \in copied : d = [key |-> d.key, entry |-> d.entry]
      BY DEF KVIInv, KVTypeOK, Copy
    <3> QED
      BY <2>1, <3>1 DEF KVIInv, KeysInv, CopiesFaithful
  <2>6. LinesFaithful'
    BY <2>1, <2>2, <2>3, <2>5 DEF KVIInv, KeysInv, LinesFaithful
  <2>7. ASSUME NEW k \in Stored, ~is_expired(map[k])
        PROVE  (\E d \in copied' : d.key = k) \/ \E l \in lines' : l.key = k
    BY <2>1, <2>3, <2>7 DEF KVIInv, KeysInv
  <2> QED
    BY <2>1, <2>4, <2>6, <2>7 DEF KeysInv, is_expired
<1>8. CASE Wake \/ ExpiryDone
  BY <1>0, <1>8, KeysFrame DEF Wake, ExpiryDone, vars
<1>9. CASE ExpiryLock
  BY <1>0, <1>9, KeysFrame DEF ExpiryLock, SweepBegin
<1>10. ASSUME NEW k \in Keys, ExpirySweep(k)  PROVE KeysInv'
  <2>1. server # "scan" /\ server # "print"
    BY <1>10 DEF ExpirySweep, KVIInv, MutexInv
  <2> QED
    BY <1>10, <2>1 DEF ExpirySweep, KeysInv
<1>11. CASE Clock
  BY <1>0, <1>11, KeysFrame DEF Clock, Tick
<1>12. CASE UNCHANGED kvVars
  BY <1>0, <1>12, KeysFrame DEF kvVars, vars
<1> QED
  BY <1>1, <1>2, <1>3, <1>4, <1>5, <1>6, <1>7, <1>8, <1>9, <1>10, <1>11, <1>12
     DEF KVNext, Execute, ExpirySteps

LEMMA KVStepInv == KVIInv /\ [KVNext]_kvVars => KVIInv'
<1> SUFFICES ASSUME KVIInv, [KVNext]_kvVars PROVE KVIInv'
  OBVIOUS
<1>1. IInv'
  BY StepSerialized, StepInv DEF KVIInv
<1>2. TypeOK'
  BY <1>1 DEF IInv
<1> QED
  BY <1>1, <1>2, StepTypes, StepMutex, StepKeys DEF KVIInv

-----------------------------------------------------------------------------
\* Every reachable state of the two threads satisfies the invariant.
THEOREM KVInvariance == KVSpec => []KVIInv
BY KVInitInv, KVStepInv, PTL DEF KVSpec

\* The threads' and the counters' types.
THEOREM KVTypeCorrect == KVSpec => []KVTypeOK
<1>1. KVIInv => KVTypeOK
  BY DEF KVIInv
<1> QED
  BY <1>1, KVInvariance, PTL

\* The mutex serializes the two threads' calls into LruCache.
THEOREM Serialized == KVSpec => CallsSerialized
<1>1. KVInit => Init
  BY DEF KVInit
<1>2. KVIInv /\ [KVNext]_kvVars => [Next]_vars
  BY StepSerialized
<1> QED
  BY <1>1, <1>2, KVInvariance, PTL DEF KVSpec, CallsSerialized, Spec

\* So the store, with an expiry thread at work at any moment, still answers as
\* the abstract cache does.
THEOREM KVImplementsCache == KVSpec => ImplementsCache
<1>1. Spec => ImplementsCache
  BY Refinement
<1>2. KVSpec => Spec
  BY Serialized DEF CallsSerialized
<1> QED
  BY <1>1, <1>2, PTL

\* What KEYS sends is a snapshot of the live entries, although it reads the
\* clock entry by entry and again for every line.
THEOREM KeysSnapshot == KVSpec => []KeysListing
<1>1. KVIInv => KeysListing
  <2> SUFFICES ASSUME KVIInv, server = "print", copied = {}
               PROVE  LET listed == {l.key : l \in lines} IN
                      /\ {k \in Stored : ~is_expired(map[k])} \subseteq listed
                      /\ listed \subseteq Stored
                      /\ \A l, m \in lines : l.key = m.key => l = m
                      /\ \A l \in lines :
                           /\ l.value = map[l.key].value
                           /\ (l.ttl = -1) <=> (map[l.key].expires_at = NoTtl)
    BY DEF KeysListing
  <2> QED
    BY DEF KVIInv, KeysInv, LinesFaithful
<1> QED
  BY <1>1, KVInvariance, PTL

\* STATS' bytes_used counts the stored entries, with the expiry thread at work at
\* any moment.
THEOREM KVBytesCounted == KVSpec => []BytesExact
BY Serialized, BytesCounted, PTL DEF CallsSerialized
==============================================================================
