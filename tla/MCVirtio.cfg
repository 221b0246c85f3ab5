CONSTANTS
  Procs = {p1, p2, p3}
  Bufs = {b1, b2, b3}
  NoBuf = NoBuf
  Vals = {v1, v2}
  NUM = 6
  WRAP = 6
SPECIFICATION Spec
SYMMETRY Symmetry
VIEW View
INVARIANTS NoLostWakeup TransferDone
