SPECIFICATION Spec
CONSTANTS
  s1 = s1
  s2 = s2
  NoConsumer = NoConsumer
  MaxConsumers = 2
  MaxCrashes = 2
  Sessions <- MCSessions
  Consumers <- MCConsumers
SYMMETRY SessionSymmetry
CHECK_DEADLOCK FALSE
INVARIANTS
  TypeOK
  OneActiveSession
  OneOpenSegment
  OutcomeTellsCapture
  SegmentNamesItsFile
PROPERTY
  OnlyALaunchRevives
