SPECIFICATION FairSpec
CONSTANTS
  g = g
  a1 = a1
  a2 = a2
  b1 = b1
  b2 = b2
  c2 = c2
  Blocks = {g, a1, a2, b1}
  Genesis = g
  Parent <- TreeParent
  Ancestors <- TreeAncestors
  Height <- TreeHeight
  Work <- TreeWork
  Addr <- TreeAddr
  Threads = {t1, t2}
  CorruptBlocks = {a2}
  FickleVerdicts = TRUE
  DeepReconsider = TRUE
  ReplayBlocks = 1
  MaxRejected = 1
  MaxOps = 1
  MaxErrors = 1
INVARIANTS
  IndexConsistent
  CandidatesSound
PROPERTIES
  ActivationReturns
CHECK_DEADLOCK FALSE
