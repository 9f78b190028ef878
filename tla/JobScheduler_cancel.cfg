SPECIFICATION Spec
CONSTANTS
  Instances = {i1, i2}
  NoInstance = NoInstance
  NoJob = 0
  Jobs <- MC_Jobs2
  Copies <- MC_OneCopy
  Templates <- MC_Again
  AdminKinds <- MC_Cancel
  QueueSize = 1
  MaxThreads = 1
  MaxAsync = 1
  MaxScheduled = 1
  MaxDeaths = 1
  MaxFaults = 1
  MaxAdminOps = 1
INVARIANTS TypeOK OneTaskPerRow NoJobLost OwnedRowsAreHeld FirmCancelHolds
PROPERTY ExecutesOnce
SYMMETRY Symmetry
