SPECIFICATION FairSpec
CONSTANTS
  NPROC = 2
  NCPU = 2
  MaxTicks = 1
  TickMod = 2
  Tick0 = 1
  MaxN = 1
  UserKills = TRUE
  Endless = TRUE
INVARIANTS SwitchIsSafe HandlerNeverSelfDeadlocks NoMissedTick
PROPERTY KilledExits
