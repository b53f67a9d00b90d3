SPECIFICATION FairSpec
CONSTANTS
  NPROC = 4
  MaxPid = 4
INVARIANT TableConsistent
PROPERTIES OrphansReaped KilledExits
