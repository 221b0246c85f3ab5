SPECIFICATION Spec
CONSTANTS
  Procs = {p1, p2}
  Nobody = Nobody
  NBLOCKS = 4
  BSIZE = 2
  BPB = 1
  NDIRECT = 1
  NINDIRECT = 2
  MAXOPBLOCKS = 8
  Buffers <- MCBuffers
  ReadSizes = {1}
SYMMETRY Symmetry
VIEW View
INVARIANTS BlocksOwned TransactionFits
 
