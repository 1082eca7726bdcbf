SPECIFICATION ApiSpec
CONSTANTS
  a1 = a1
  a2 = a2
  n1 = n1
  n2 = n2
  Blank = Blank
  NoLead = NoLead
  Keep = Keep
  NoRow = NoRow
  NoCall = NoCall
  Agents = {a1, a2}
  Names = {n1, n2, Blank}
  Rosters <- MCRosters
  Stored <- MCStored
  NewTeams <- MCNewTeams
  Patches <- MCPatches
  TeamIds = {t1}
  Callers = {r1, r2, r3}
SYMMETRY RequestSymmetry
INVARIANTS
  EventsTellTheTruth
  LifecycleOnce
  NewestEventIsCurrent
  DeletedTeamIsKnown
PROPERTY SealedColumnsProtected
