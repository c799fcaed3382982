CONSTANTS
  Objs = {o1, o2, o3}
  HeapBlobs = {b1, b2, b3, b4}
  Proto = proto
  MaxCalls = 6
SYMMETRY Symmetry
SPECIFICATION Spec
CHECK_DEADLOCK FALSE
INVARIANTS
  StoresHeldByLiveSBufs
