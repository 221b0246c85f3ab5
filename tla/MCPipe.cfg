CONSTANTS
  Procs = {p1, p2}
  Nobody = Nobody
  Bytes = {b0, b1}
  Zero = b0
  PIPESIZE = 2
  WRAP = 4
  MaxN = 2
  Killable = {p1}
SPECIFICATION FairSpec
INVARIANT SleepJustified
PROPERTIES CloseReleases IsFifo
CHECK_DEADLOCK FALSE
