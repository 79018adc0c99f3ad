SPECIFICATION FairSpec
CONSTANTS
  s1 = s1
  s2 = s2
  NoConsumer = NoConsumer
  MaxConsumers = 3
  MaxCrashes = 1
  Sessions <- OneSession
  Consumers <- MCConsumers
CHECK_DEADLOCK FALSE
PROPERTIES
  StartingResolves
  StoppingResolves
