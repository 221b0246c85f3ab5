\* Three processes, so that one sleeps while two operations overlap, and writes
\* whose user buffer is unmapped.  Liveness needs all states: no symmetry.
SPECIFICATION FairSpec
CONSTANTS
  Procs = {p1, p2, p3}
  Blocks = {b1}
  Vals = {v0, v1}
  Zero = v0
  NoVal = NoVal
  NoBlock = NoBlock
  MAXOPBLOCKS = 3
  LOGSIZE = 6
  NLOG = 6
  OpBlocks = 1
  WriteFaults = TRUE
INVARIANTS LoggedBlocksPinned
PROPERTIES BeginOpReturns
