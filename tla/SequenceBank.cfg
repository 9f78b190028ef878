SPECIFICATION FairSpec
CONSTANTS
  Banks = {b1, b2, b3}
  b3 = b3
  NoBank = NoBank
  NoRow = NoRow
  PoolOf <- Instances
  PoolSize = 2
  BankSize = 1
  DefaultBankSize = 2
  MaxBankSize = 3
  StartSeqId = 1
  MaxStagger = 2
  MaxFills = 3
INVARIANTS TypeOK BanksAreDisjoint FilledBankServes
PROPERTIES IdsAreUnique EveryFillEnds
