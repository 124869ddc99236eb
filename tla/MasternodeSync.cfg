SPECIFICATION FairSpec
CONSTANTS
  Peers = {p1}
  Current = {p1}
  Never = Never
  None = None
  Threshold = 1
  Quiet = 1
  AssetTimeout = 2
  Retry = 2
  MaxResets = 1
INVARIANTS
  TypeOK
  EnforcedNeverSkips
  StagesNeedChain
PROPERTIES
  SyncEnds
  FailedRetried
