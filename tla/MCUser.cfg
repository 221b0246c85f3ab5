CONSTANTS
  Procs = {1, 2, 3, 4, 5, 6}
  NPROC = 6
  NOFILE = 5
  NFILE = 5
  NPIPE = 2
  PIPESIZE = 1
  MAXARGS = 3
  Lines <- MCLines
  Scripts <- MCScripts
  MaxLine = 5
  Requests = {0, 2, 4}
  HeaderSize = 2
  NALLOC = 3
  HEAPMAX = 10
  BUFSIZE = 4
  MaxPattern = 2
  MaxText = 4
SPECIFICATION UserSpec
INVARIANTS ParseRight Plumbing  HeapTiled GrepRight
PROPERTIES ShellReturns
CHECK_DEADLOCK FALSE
