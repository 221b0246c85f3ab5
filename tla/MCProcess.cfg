CONSTANTS
  NPROC = 4
  KillPids = {0, 2, 3}
  MaxPid = 4
SPECIFICATION FairSpec
INVARIANTS NoMissedExit SlotsExclusive
PROPERTIES OrphansReaped
