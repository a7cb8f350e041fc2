SPECIFICATION FairSpec
CONSTANTS
  c1 = c1
  c2 = c2
  Commands = {c1, c2}
  Kind <- TwoSteers
  Dispatchers = {d1, d2}
  PageSize = 1
  MaxDrops = 1
  MaxLease = 2
  MaxInFlight = 1
INVARIANT AppliedAtMostOnce
INVARIANT RecordIsTrue
PROPERTY SteersKeepOrder
PROPERTY CommandsSettle
CHECK_DEADLOCK FALSE
