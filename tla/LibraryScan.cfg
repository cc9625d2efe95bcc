SPECIFICATION Spec
CONSTANTS
  None = None
  Cards <- MCCards
  SystemsFile <- MCSystems
  Roots <- MCRoots
  Archives = {"zip"}
  Depth = 2
  MaxScannedDirs = 1
  Procs = {p1, p2}
  p1 = p1
  p2 = p2
  MaxScans = 3
  MaxMishaps = 1
  Inodes = {1, 2, 3, 4, 5, 6, 7, 8}
SYMMETRY ProcSymmetry
INVARIANTS
  EachGameOnce
  CleanScanIsWhole
CHECK_DEADLOCK FALSE
