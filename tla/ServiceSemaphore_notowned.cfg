SPECIFICATION Spec
CONSTANTS
  Calls = {c1, c2, c3}
  NoCall = NoCall
  Joined = {}
  MaxWait = 1
  MaxCalls = 3
  MaxCrashes = 0
  MaxDbFaults = 0
  MaxTxFaults = 1
INVARIANT RunnerHasRow
CHECK_DEADLOCK FALSE
