CONSTANTS
  Students = {s1}
  MaxPublications = 2
  ChunkSize = 2
  MaxAnswers = 2
  MaxStreams = 3
  MaxEdits = 1
SPECIFICATION FairSpec
INVARIANTS TypeOK NoGap MarkOfOpenIsTrue
PROPERTY Delivered
CHECK_DEADLOCK FALSE
