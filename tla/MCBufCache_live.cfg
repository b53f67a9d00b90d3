SPECIFICATION FairSpec
CONSTANTS
  Users = {u1, u2, u3}
  NBUF = 3
  Blocks = {k1, k2}
  Vals = {v1}
  None = None
  MaxPinned = 0
  DiskErrors = TRUE
PROPERTY BufferServed
