SPECIFICATION FairSpec
CONSTANTS
  Recordings = {r1}
  Streams = {k1, k2}
  NoRecording = NoRecording
  Lectures = {l1, l2}
  NoLecture = NoLecture
  MergeRetries = 1
  ServerLimit = 3
  PermanentLimit = 2
  MaxRestarts = 1
CHECK_DEADLOCK FALSE
INVARIANTS
  DoneMeansDelivered
  ReadyMeansPlayable
PROPERTIES
  TransfersEnd
