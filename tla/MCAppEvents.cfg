SPECIFICATION Spec
CONSTANTS
  None = None
  CorePort = CorePort
  Unreadable = Unreadable
  Limits = {1, 3}
  Margin = 2
  HopMax = 1
  ClientBound = 2
  MaxLines = 4
INVARIANT OutcomesAreHonest
INVARIANT OneTerminal
INVARIANT ChunksDoNotMatter
