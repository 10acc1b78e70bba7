SPECIFICATION FairSpec
CONSTANTS
  Files = {f1, f2, f3}
  Scans = {s1, s2}
  None = None
  MaxLimit = 2
  MaxId = 3
  MaxRev = 2
INVARIANT TypeOK
INVARIANT SteadyListed
INVARIANT ListedOnce
INVARIANT NoneMissed
INVARIANT ItemsWhole
PROPERTY WalkEnds
PROPERTY ListsLibrary
