CONSTANTS
  MaxLectures = 1
  MaxProbes = 0
  Retries = 2
  MaxSets = 2
  MaxCount = 1
  MaxOffset = 1
  MaxRestarts = 0
SPECIFICATION Spec
INVARIANT WindowsFollow
CHECK_DEADLOCK FALSE
