CONSTANTS
  SBufs = {x, y}
  HeapBlobs = {b1, b2, b3}
  Proto = p
  LowerA = a
  UpperA = a
  Chars = {a}
  ToLowerChar <- MCToLower
  ToUpperChar <- MCToUpper
  MemFail = TRUE
  Nul = nul
  Junk = junk
  MaxImport = 1
  MaxSize = 3
SPECIFICATION Spec
SYMMETRY Symmetry
INVARIANTS
  TypeOK
  ViewsWithinBlobs
  RefCountsExact
  CStrTerminated
