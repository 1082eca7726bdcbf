SPECIFICATION Spec
CONSTANTS
  Records = {"short", "long"}
  SizeOf <- Sizes
  Roots = {k1, k2}
  MaxFrames = 4
CHECK_DEADLOCK FALSE
INVARIANTS WriterContinuesLog ReopensAfterCrash
PROPERTIES ImplementsLog WriterStartsAtEnd
