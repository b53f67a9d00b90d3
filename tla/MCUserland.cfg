SPECIFICATION UserlandSpec
CONSTANTS
  MAXARGS = 3
  Lines <- MCLines
  RunLines <- MCRunLines
  NPROC = 6
  NFD = 8
  HSIZE = 2
  NALLOC = 4
  LIMIT = 16
  Requests = {0, 1, 7}
  MaxHeapCalls = 5
INVARIANTS ParsesGrammar NoStrayEnds PromptMeansDone HeapTiled BlocksKeepData
PROPERTY LineEnds
CHECK_DEADLOCK FALSE
