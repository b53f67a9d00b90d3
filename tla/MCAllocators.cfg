SPECIFICATION AllocatorsSpec
CONSTANTS
  Procs = {1, 2, 3}
  NPAGES = 18
  PGSIZE = 2
  NPTE = 2
  UPD = 3
  KTABLES = 1
  Programs <- MCPrograms
  ArgBytes = {1, 3, 9}
  Deltas = {2, 3}
  Pointers = {0, 3, 8, 23}
  BufSizes = {3, 23}
  INT = 2
  MaxCalls = 3
  Callers = {1, 2}
  Inums = {1, 2}
  Files = {1, 2}
  NBLOCKS = 10
  BSIZE = 2
  NDIRECT = 1
  CHUNK = 2
  Limits = {5, 8}
  ImageSizes = {3, 7}
  MaxFileCalls = 5
  Counts = {1, 4}
  TIME = 99
INVARIANTS PagesOwnedOnce OwnedOnce NothingLost ReadBack WriteThrough
PROPERTY PrivateMemory
CHECK_DEADLOCK FALSE
