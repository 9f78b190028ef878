SPECIFICATION Spec
CONSTANTS
  LockRetries = 3
  Logins = {TRUE, FALSE}
  MaxDepth = 2
  MaxCalls = 2
  MaxDeadlocks = 0
  MaxFaults = 0
INVARIANT UserOfRunningCallIsOnTop
CHECK_DEADLOCK FALSE
