CONSTANTS
  Procs = {p1, p2}
  Nobody = Nobody
  Blocks = {k1, k2, k3, k4}
  NoBlock = NoBlock
  Vals = {v1, v2}
  NBUF = 3
  MaxPins = 2
SPECIFICATION Spec
SYMMETRY Symmetry
INVARIANT BufferRight
PROPERTIES IsBlockStore
CHECK_DEADLOCK FALSE
