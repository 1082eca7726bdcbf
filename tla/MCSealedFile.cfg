SPECIFICATION Spec
CONSTANTS
  chunk_size = 2
  TAG_LEN = 2
  Roots = {k1, k2}
  None = None
  MaxLen = 7
CHECK_DEADLOCK FALSE
INVARIANT NoncesAreUsedOnce
INVARIANT LengthIsTrustworthy
INVARIANT RangesAreExact
PROPERTY ImplementsFile
