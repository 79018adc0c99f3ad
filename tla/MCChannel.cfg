SPECIFICATION FairSpec
CONSTANTS
  RestartLimit = 1
  MaxLaunches = 2
  MaxLectures = 2
  MaxDisturbances = 1
  MaxEdits = 1
INVARIANTS
  StateTellsAttempt
  OthersGivenUp
  PushedWhileLive
PROPERTY ComesToRest
CHECK_DEADLOCK FALSE
