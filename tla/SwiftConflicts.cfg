SPECIFICATION Spec
CONSTANTS
  t1 = t1
  t2 = t2
  o1 = o1
  o2 = o2
  Txs = {t1, t2}
  OwnTxs = {t1}
  Outpoints = {o1, o2}
  Spends <- MCSpends
  LockHeights <- MCLockHeights
  VoteHeights <- MCVoteHeights
  Masternodes = {m1, m2}
  Self = None
  Required = 2
  Lifetime = 1
  None = None
INVARIANTS
  ConflictingLocksCancel
CHECK_DEADLOCK FALSE
