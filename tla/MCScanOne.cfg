SPECIFICATION Spec
CONSTANTS
  f1 = f1
  f2 = f2
  f3 = f3
  x = x
  y = y
  None = None
  Workers = {w1}
  Files = {f1, f2, f3}
  Artists = {x, y}
  Albums = {a1}
  NamesOf <- SharedName
  AlbumOf <- SharedAlbum
  Broken = {f3}
  Duplicated = {f2}
  MaxTime = 2
INVARIANT TypeOK
INVARIANT OneScanPerWorker
PROPERTY ScanIsComplete
PROPERTY ProgressShown
