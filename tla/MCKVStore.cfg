SPECIFICATION KVFairSpec
CONSTANTS
  k1 = k1
  k2 = k2
  Keys = {k1, k2}
  Values = {v1}
  NoTtl = NoTtl
  Absent = Absent
  Capacity = 2
  Second = 2
  MaxNow = 3
  MaxRequests = 2
  Ttls <- MCTtls
  KeySize <- MCKeySize
  ValueSize <- MCValueSize
INVARIANTS
  KeysListing
PROPERTIES
  CallsSerialized
  ExpiredRemoved
  CommandsAnswered
