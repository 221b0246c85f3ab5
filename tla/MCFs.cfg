SPECIFICATION Spec
CONSTANTS
  Procs = {p1, p2}
  Nobody = Nobody
  Inodes = {i1, i2, i3}
  Root = i1
  NINODE = 3
  Names = {"x", "y"}
  Requests <- MCRequests
SYMMETRY Symmetry
CONSTRAINT OnTrack
INVARIANTS  NeverStuck
