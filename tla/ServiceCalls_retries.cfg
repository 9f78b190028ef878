SPECIFICATION Spec
CONSTANTS
  LockRetries = 3
  Logins = {TRUE}
  MaxDepth = 1
  MaxCalls = 1
  MaxDeadlocks = 3
  MaxFaults = 0
INVARIANT SuccessIsCommitted
CHECK_DEADLOCK FALSE
