SPECIFICATION Spec
CONSTANTS
  Columns = 2
  LastRow = 2
  BATCH_SIZE = 1
  Roots = {k1, k2}
  NoKcv = NoKcv
  NoRow = NoRow
  MaxOpens = 2
CHECK_DEADLOCK FALSE
INVARIANTS ServedStoreIsSealed ResidueIsOwed
PROPERTIES NothingIsLost RecordMovesAfterReset
