\* Two processes, and as many blocks as begin_op lets them log.
SPECIFICATION Spec
CONSTANTS
  Procs = {p1, p2}
  Blocks = {b1, b2, b3, b4}
  Vals = {v0, v1}
  Zero = v0
  NoVal = NoVal
  NoBlock = NoBlock
  MAXOPBLOCKS = 2
  LOGSIZE = 4
  NLOG = 5
  OpBlocks = 1
  WriteFaults = FALSE
SYMMETRY Symmetry
INVARIANTS NoPanic QuiescentDurable
PROPERTIES AtomicTransactions WriteAhead
