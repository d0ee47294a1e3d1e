SPECIFICATION HSpec
CONSTANTS
  Keys = {k1, k2, k3}
  Values = {short, long}
  short = short
  long = long
  NoTtl = NoTtl
  Absent = Absent
  Capacity = 2
  Second = 1
  MaxNow = 2
  Ttls <- MCTtls
  KeySize <- MCKeySize
  ValueSize <- MCValueSize
INVARIANTS
  OrderMatchesMap
  CapacityBound
  BytesExact
PROPERTIES
  ImplementsCache
  WorkingSetKept
