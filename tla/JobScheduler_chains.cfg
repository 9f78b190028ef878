SPECIFICATION Spec
CONSTANTS
  Instances = {i1, i2}
  NoInstance = NoInstance
  NoJob = 0
  Jobs <- MC_Jobs6
  Copies <- MC_OneCopy
  Templates <- MC_Mixed
  AdminKinds <- MC_NoAdmin
  QueueSize = 1
  MaxThreads = 1
  MaxAsync = 0
  MaxScheduled = 1
  MaxDeaths = 1
  MaxFaults = 0
  MaxAdminOps = 0
INVARIANTS OneSuccessor RetryBudget RecurrenceBudget
SYMMETRY Symmetry
