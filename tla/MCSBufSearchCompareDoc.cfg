CONSTANTS
  SBufs = {x, y}
  Chars = {65, 97, 98}
  MaxSize = 3
  MaxImport = 1
  ToLowerChar <- ToLower
  ToUpperChar <- ToUpper
SPECIFICATION Spec
INVARIANT
  CompareSignAsDocumented
