SPECIFICATION FairSpec
CONSTANTS
  Instances = {i1, i2}
  NoInstance = NoInstance
  NoJob = 0
  Jobs <- MC_Jobs3
  Copies <- MC_TwoCopies
  Templates <- MC_Once
  AdminKinds <- MC_Reset
  QueueSize = 1
  MaxThreads = 1
  MaxAsync = 0
  MaxScheduled = 1
  MaxDeaths = 1
  MaxFaults = 0
  MaxAdminOps = 1
INVARIANTS NoJobLost
PROPERTIES EveryJobEnds
