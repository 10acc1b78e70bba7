SPECIFICATION Spec
CONSTANTS
  Users = {u1}
  Tokens = {t1, t2}
  Requests = {r1, r2}
  None = None
  Ops = {"login", "refresh", "logout_all"}
  SessionLimit = 2
  AccessTTL = 1
  RefreshTTL = 1
  InitVersion = 1
  MaxTime = 0
SYMMETRY Symmetry
INVARIANT AllDevicesLoggedOut
