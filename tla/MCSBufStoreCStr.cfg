CONSTANTS
  SBufs = {x, y}
  HeapBlobs = {b1, b2, b3}
  Proto = p
  LowerA = a
  UpperA = A
  Chars = {a, A}
  ToLowerChar <- MCToLower
  ToUpperChar <- MCToUpper
  MemFail = FALSE
  Nul = nul
  Junk = junk
  MaxImport = 1
  MaxSize = 2
SPECIFICATION Spec
SYMMETRY Symmetry
INVARIANT
  CStrAlwaysTerminates
