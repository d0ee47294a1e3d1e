SPECIFICATION FairSpec
CONSTANT MaxSignals = 3
INVARIANTS
  ReturnsOnlyIfStopped
PROPERTY StopsOnceServing
