SPECIFICATION Spec
CONSTANTS
  Users = {u1}
  Tokens = {t1, t2, t3}
  Requests = {r1, r2}
  None = None
  Ops = {"login", "refresh", "logout"}
  SessionLimit = 2
  AccessTTL = 1
  RefreshTTL = 0
  InitVersion = 0
  MaxTime = 1
SYMMETRY Symmetry
INVARIANT TypeOK
INVARIANT RotationRetiresParent
INVARIANT ForksBounded
INVARIANT SessionCap
PROPERTY KeepsLedger
PROPERTY EvictsOldest
