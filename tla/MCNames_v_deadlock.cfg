SPECIFICATION NamesSpec
CONSTANTS
  Procs = {p1, p2}
  Nobody = Nobody
  Inums <- MCInums
  Names <- MCNames
  Ops <- MCOps
  Image <- MCImage
  ShortTargets <- MCShortTargets
  DEPTH = 1
  MaxCalls = 2
SYMMETRY Symmetry
CHECK_DEADLOCK FALSE
INVARIANT NoDeadlock
