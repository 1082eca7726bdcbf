SPECIFICATION Spec
CONSTANTS
  a = a
  b = b
  Parts = {p1, p2, p3}
  Ids = {a, b}
  Sizes = {1, 2}
  Limit = 2
  Callers = {c1, c2}
  Free = Free
  Initially <- OneVector
  MaxTick = 5
  MaxChanges = 2
SYMMETRY AnySymmetry
CHECK_DEADLOCK FALSE
INVARIANT BudgetHolds
INVARIANT EvictedAreGone
INVARIANT EvictsOldestFirst
INVARIANT ServesTheStore
