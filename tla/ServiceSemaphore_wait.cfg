SPECIFICATION FairSpec
CONSTANTS
  Calls = {c1, c2, c3}
  NoCall = NoCall
  Joined = {c3}
  MaxWait = 1
  MaxCalls = 4
  MaxCrashes = 1
  MaxDbFaults = 1
  MaxTxFaults = 1
INVARIANTS TypeOK OwnerHasRow Exclusion WorkIsSerial
PROPERTIES OnlyOwnerReleases EveryCallEnds LockIsFreed
CHECK_DEADLOCK FALSE
