SPECIFICATION DevicesSpec
CONSTANTS
  NPROC = 3
  INPUT_BUF = 2
  WRAP = 4
  NREAD = 2
  Cpus = {1}
  StartDates <- MCStartDates
  MaxTicks = 3
  Beyond = {0, 1}
INVARIANTS ShellSpared UptimeRight
PROPERTIES LineDiscipline ReaderWoken InterruptEnds
CHECK_DEADLOCK FALSE
