SPECIFICATION Spec
CONSTANTS
  TxIds = {t1, t2}
  Outs = {o1, o2}
  Blocks = {b1, b2}
  NoBlock = NoBlock
  NoEntry = NoEntry
  MaxFailures = 1
INVARIANTS
  Inv
  FlagsSound
  BatchWriteAssertion
PROPERTIES
  ImplementsUtxoView
  ModificationsTakeEffect
SYMMETRY Symmetry
