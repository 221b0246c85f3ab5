CONSTANTS
  CPUs = {c1, c2}
  NoCPU = NoCPU
  NPROC = 3
  Harts = {h0, h1}
  Boot = h0
  Tasks = {p1, p2}
  Devices = {uart}
  TICKS = 3
  UserPCs = {0}
  MaxN = 1
SPECIFICATION AllSpec
SYMMETRY Symmetry
INVARIANTS NoPanic StateTruthful SleepLock TrapsReturn SleepsInTime
