SPECIFICATION Spec
CONSTANTS
  LockRetries = 2
  Logins = {TRUE}
  MaxDepth = 3
  MaxCalls = 3
  MaxDeadlocks = 1
  MaxFaults = 1
INVARIANTS TypeOK FailedWorkIsUndone SuccessIsCommitted CallerKeepsTransaction CauseFollowsTransaction
CHECK_DEADLOCK FALSE
