SPECIFICATION Spec
CONSTANTS
  p1 = p1
  p2 = p2
  t1 = t1
  t2 = t2
  None = None
  Main = "main"
  PreVersion <- MCPreVersion
  InitFiles <- MCInitFiles
  Packages = {p1, p2}
  Versions = {1, 2}
  MaxMinor = 4
  Loops = {0, 1, 2, 3, 4, 5, 6, 7}
  Threads = {t1, t2}
  Operations = {"install", "stage"}
  Overlap = {"calls"}
  Forces = {FALSE}
  Failures <- Harmless
  MaxCalls = 2
  MaxReboots = 1
  MaxFaults = 1
INVARIANTS
  DatabaseMatchesKernel
  NoDeviceLeaks
  AcceptedIsActive
SYMMETRY MCSymmetry
CHECK_DEADLOCK FALSE
