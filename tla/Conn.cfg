SPECIFICATION FairSpec
CONSTANTS
  Epochs = {e1, e2}
  Tokens = {t1, t2}
  Runs = {r1}
  NoEpoch = NoEpoch
  NoToken = NoToken
  MaxFaults = 1
INVARIANT DispatchIsSound
INVARIANT StaleWorkIsStopped
INVARIANT RowIsWatched
PROPERTY EveryRunEnds
CHECK_DEADLOCK FALSE
