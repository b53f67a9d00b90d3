SPECIFICATION FairSpec
CONSTANTS
  Procs = {p1, p2}
  Syncers = {p2}
  Outside = {}
  Blocks = {b1, b2}
  Vals = {v1, v2}
  None = None
  MAXOPBLOCKS = 4
  LOGSIZE = 8
  SIZE = 8
  OpBlocks = 2
INVARIANTS IInv RecycledIsOnDisk IdleIsDurable
PROPERTIES CrashAtomic SleeperWoken
