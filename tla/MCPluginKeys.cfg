SPECIFICATION KeysSpec
CONSTANTS
  NoKey = NoKey
  NoContext = NoContext
  None = None
  Torn = Torn
  word = word
  old = old
  Procs = {p1, p2}
  Masters = {m1, m2}
  Older = m1
  Ids = {r1, r2}
  Texts <- MCTexts
  Legacy <- MCLegacy
  Settings <- MCSettings
  MaxStarts = 3
  MaxWrites = 1
SYMMETRY AnySymmetry
CHECK_DEADLOCK FALSE
INVARIANTS
  ReadsAreTrue
  CoreRunOpensAll
  HandRunsKeepTheirKey
