SPECIFICATION Spec
CONSTANTS
  Users = {u1, u2}
  NBUF = 3
  Blocks = {k1, k2, k3, k4}
  Vals = {v1, v2}
  None = None
  MaxPinned = 1
  DiskErrors = FALSE
INVARIANTS HoldsBlock CacheConsistent
PROPERTY OnlyHolderWrites
SYMMETRY Symmetry
