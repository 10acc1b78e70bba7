SPECIFICATION FairSpec
CONSTANTS
  Users = {u1}
  Tokens = {t1, t2}
  Requests = {r1, r2}
  None = None
  Ops = {"oauth", "logout_specific", "logout_all"}
  SessionLimit = 1
  AccessTTL = 1
  RefreshTTL = 1
  InitVersion = 0
  MaxTime = 0
INVARIANT LogoutIsFinal
INVARIANT LogoutAllIsFinal
PROPERTY RequestsEnd
