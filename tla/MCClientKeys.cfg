SPECIFICATION FairSpec
CONSTANTS
  k1 = k1
  k2 = k2
  v1 = v1
  v2 = v2
  Calls = {r1, r2}
  Keys = {k1, k2}
  Values = {v1, v2}
  LongValues = {}
  Absent = Absent
  Ok = Ok
  End = End
  Error = Error
  Exception = Exception
  None = None
  Menu <- MCShortMenu
PROPERTY CallsEnd
