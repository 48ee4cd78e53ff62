SPECIFICATION FairSpec
CONSTANTS
  p1 = p1
  p2 = p2
  t1 = t1
  t2 = t2
  None = None
  Main = "main"
  PreVersion <- MCPreVersion
  InitFiles <- MCInitFiles
  Packages = {p1}
  Versions = {1, 2}
  MaxMinor = 4
  Loops = {0, 1, 2, 3, 4, 5, 6, 7}
  Threads = {t1, t2}
  Operations = {"install"}
  Overlap = {"calls", "package", "cleanup"}
  Forces = {FALSE}
  Failures <- All
  MaxCalls = 2
  MaxReboots = 0
  MaxFaults = 1
INVARIANTS
  UnloadedOnlyWhileInstalling
PROPERTIES
  ServicesComeBack
CHECK_DEADLOCK FALSE
