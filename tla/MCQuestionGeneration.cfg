CONSTANTS
  MaxLectures = 2
  MaxProbes = 2
  Retries = 2
  MaxSets = 2
  MaxCount = 2
  MaxOffset = 1
  MaxRestarts = 2
SPECIFICATION FairSpec
INVARIANTS GeneratingHasCycle OneReady DegradedIsProbed
PROPERTY GenerationSettles
CHECK_DEADLOCK FALSE
