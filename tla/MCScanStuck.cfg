SPECIFICATION Spec
CONSTANTS
  f1 = f1
  f2 = f2
  f3 = f3
  x = x
  y = y
  None = None
  Workers = {w1}
  Files = {f1, f2}
  Artists = {x, y}
  Albums = {a1}
  NamesOf <- OneName
  AlbumOf <- NoAlbum
  Broken = {f1}
  Duplicated = {}
  MaxTime = 1
INVARIANT RunningMeansScan
