SPECIFICATION AllSpec
CONSTANTS
  Procs = {p1, p2, p3}
  initproc = p1
  NPAGES = 18
  PGSIZE = 2
  NPTE = 2
  USERSTACK = 1
  WRAP = 64
  Increments <- MCIncrements
  Segments = {1, 3}
  MAXSZ = 8
  UPGSIZE = 8
  MAXVA = 64
  BASE = 16
  PTR = 2
  ALIGN = 4
  MAXARG = 3
  MAXPATH = 4
  UPAGES = 6
  USTACK = 2
VIEW View
INVARIANTS AddressSpaces CopyRight ArgsArrive
PROPERTY ImageStable
