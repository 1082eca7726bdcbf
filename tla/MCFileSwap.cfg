SPECIFICATION SwapSpec
CONSTANTS
  Procs = {p1, p2}
  Nothing = Nothing
  MaxVersions = 3
  MaxFiles = 4
  MaxFaults = 2
CHECK_DEADLOCK FALSE
INVARIANT PathIsWhole
INVARIANT NewestStays
PROPERTY EventuallySealed
