SPECIFICATION Spec
CONSTANTS
  Recordings = {r1, r2}
  Streams = {k1}
  NoRecording = NoRecording
  Lectures = {l1, l2}
  NoLecture = NoLecture
  MergeRetries = 0
  ServerLimit = 1
  PermanentLimit = 1
  MaxRestarts = 1
CHECK_DEADLOCK FALSE
SYMMETRY LibrarySymmetry
INVARIANTS
  TypeOK
PROPERTIES
  OnlyTheMergeRevives
  OnlyTheTransferRevives
  LifeKept
