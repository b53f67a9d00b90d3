SPECIFICATION FileSpec
CONSTANTS
  Callers = {1, 2}
  Files = {1, 2}
  Inums = {1, 2}
  NBLOCKS = 10
  BSIZE = 2
  NDIRECT = 1
  CHUNK = 2
  Limits = {8}
  ImageSizes = {3, 7}
  MaxFileCalls = 5
  Counts = {1, 4}
  TIME = 99
INVARIANT BmapFindsBlock
