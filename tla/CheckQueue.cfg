SPECIFICATION FairSpec
CONSTANTS
  Workers = {w1, w2}
  Master = m
  Checks = {c1, c2, c3}
  nBatchSize = 2
INVARIANTS
  QueueIdleBetweenBlocks
  WaitVerdict
  NoCheckOutlivesBlock
  Inv
PROPERTIES
  WaitReturns
