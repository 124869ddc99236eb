SPECIFICATION Spec
CONSTANTS
  TxIds = {t1}
  Outs = {o1}
  Blocks = {b1, b2}
  NoBlock = NoBlock
  NoEntry = NoEntry
  MaxFailures = 1
INVARIANTS
  BestBlockNamesState
