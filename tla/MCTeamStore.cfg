SPECIFICATION Spec
CONSTANTS
  a1 = a1
  a2 = a2
  n1 = n1
  n2 = n2
  Blank = Blank
  NoLead = NoLead
  Keep = Keep
  NoRow = NoRow
  NoCall = NoCall
  Agents = {a1, a2}
  Names = {n1, n2, Blank}
  Rosters <- MCRosters
  Stored <- MCStored
  NewTeams <- MCNewTeams
  Patches <- MCPatches
  Free = Free
  TeamIds = {t1, t2}
  Callers = {c1, c2}
INVARIANT NoStaleWrite
PROPERTY ImplementsAtomic
