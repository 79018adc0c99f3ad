SPECIFICATION FairSpec
CONSTANTS
  ReplaySize = 2
  QueueSize = 1
  WireSize = 1
  MaxEvents = 4
  MaxRestarts = 1
  MaxBreaks = 1
PROPERTIES
  LoopNeverStale
  EachHeardOrCovered
  FeedImplemented
