SPECIFICATION TofSpec
CONSTANTS
  PoolSize = 6
  TrimBytes = 1
  MaxCalls = 2
INVARIANTS
  BuffersOwned
  ReadsAccounted
  ResetsAccounted
PROPERTY ChainsEnd
CHECK_DEADLOCK FALSE
