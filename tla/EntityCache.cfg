SPECIFICATION FairSpec
CONSTANTS
  writer = writer
  reader = reader
  other = other
  listener = listener
  first = first
  second = second
  Instances <- MC_Instances
  Threads <- MC_Threads
  Listeners <- MC_Listeners
  InstanceOf <- MC_InstanceOf
  Keys = {k1, k2}
  Orders = {o1, o2}
  None = None
  MaxWrites = 1
  MaxReads = 2
INVARIANTS TypeOK StaleLinesAreExplained StaleListsAreExplained
PROPERTIES LateClearsArriveOrAreLost
