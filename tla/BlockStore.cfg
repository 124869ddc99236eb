SPECIFICATION Spec
CONSTANTS
  g = g
  a1 = a1
  a2 = a2
  a3 = a3
  b1 = b1
  b2 = b2
  Blocks = {g, a1, a2, b1}
  Genesis = g
  Parent <- StoreParent
  Ancestors <- StoreAncestors
  Height <- StoreHeight
  Work <- StoreWork
  None = None
  Slots = 6
  EarlyDeath = FALSE
  MaxDeaths = 2
  MaxErrors = 1
INVARIANTS
  Inv
  ChainstateRecoverable
  UndoIntact
  StoredBlocksIntact
CHECK_DEADLOCK FALSE
