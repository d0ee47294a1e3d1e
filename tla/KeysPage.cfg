SPECIFICATION FairSpec
CONSTANTS
  MaxCalls = 3
  Keys = {k1}
  Values = {v1}
  Absent = Absent
  Ok = Ok
  Error = Error
  None = None
INVARIANTS
  TableShowsChanges
  FormsShowLatest
PROPERTY SpinnerStops
CHECK_DEADLOCK FALSE
