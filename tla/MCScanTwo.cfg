SPECIFICATION FairSpec
CONSTANTS
  f1 = f1
  f2 = f2
  f3 = f3
  x = x
  y = y
  None = None
  Workers = {w1, w2}
  Files = {f1}
  Artists = {x, y}
  Albums = {a1}
  NamesOf <- TwoNames
  AlbumOf <- SharedAlbum
  Broken = {}
  Duplicated = {}
  MaxTime = 1
PROPERTY ScansEnd
PROPERTY KeepsLibrary
INVARIANT AlbumsBounded
PROPERTY OnlyStaleDeleted
