SPECIFICATION Spec
CONSTANTS
  Instances = {i1, i2}
  NoInstance = NoInstance
  NoJob = 0
  Jobs <- MC_Jobs2
  Copies <- MC_OneCopy
  Templates <- MC_Once
  AdminKinds <- MC_Cancel
  QueueSize = 1
  MaxThreads = 1
  MaxAsync = 0
  MaxScheduled = 1
  MaxDeaths = 0
  MaxFaults = 0
  MaxAdminOps = 1
INVARIANT CancelKeepsServiceFromStarting
