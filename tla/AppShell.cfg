SPECIFICATION FairSpec
CONSTANTS
  Polls = {p1, p2}
  Figures = {m1, m2}
  MAX_HISTORY = 2
  MAX = 2
  Keys = {k1}
  Values = {v1}
  MaxLog = 2
  MaxLate = 1
  Absent = Absent
  Ok = Ok
  Error = Error
  Unknown = Unknown
  MaxMessages = 6
  Window = 2
  OPS_OPTIONS = {n1, n2}
  MaxRunning = 2
  Delay = 3
  None = None
INVARIANTS
  AppTypeOK
  CardsMatchCharts
  TimersMatchPage
  Conversation
  PromptWhole
  OverlapsGivenUp
PROPERTIES
  PageShown
  AlertClears
  
  WaitingEnds
CHECK_DEADLOCK FALSE
