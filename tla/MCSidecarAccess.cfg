SPECIFICATION Spec
CONSTANTS
  r1 = r1
  r2 = r2
  t1 = t1
  t2 = t2
  Runs = {r1, r2}
  Tokens = {t1, t2}
  ext <- TwoStarts
  Foreign = Foreign
  None = None
  Never = Never
  Callers = {c1, c2}
  Hosts = {"localhost"}
  Ttl = 1
  ProbeMax = 1
  MaxNow = 3
SYMMETRY CallerSymmetry
CHECK_DEADLOCK FALSE
INVARIANT HandoffLeadsToItsRun
INVARIANT BearerFollowsProof
