SPECIFICATION DSpec
CONSTANTS
  PrioMax = 10
  WordBits = 4
  q1 = q1
  q2 = q2
  MsgQ = {q1, q2}
  NbrEntriesSize <- Sizes
  OSCfg_MsgPoolSize = 2
  Words = {1}
  n_blks = 3
  Msg <- Blks
INVARIANTS PoolIntegrity BlockConservation
PROPERTIES ImplementsPrioSet ImplementsMsgQueues
CHECK_DEADLOCK FALSE
