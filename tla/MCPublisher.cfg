SPECIFICATION FairSpec
CONSTANTS
  RestartLimit = 2
  Processes = {1, 2, 3}
  Watchers = {1, 2}
  MaxReliefs = 1
INVARIANTS
  TypeOK
  OnlineIsWatched
  OneProcess
  StopIsFinal
PROPERTY ComesBack
CHECK_DEADLOCK FALSE
