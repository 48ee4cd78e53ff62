SPECIFICATION Spec
CONSTANTS
  p1 = p1
  p2 = p2
  t1 = t1
  t2 = t2
  None = None
  Main = "main"
  PreVersion <- MCPreVersion
  InitFiles <- MCInitFiles
  Packages = {p1}
  Versions = {1, 2, 3}
  MaxMinor = 6
  Loops = {0, 1, 2, 3, 4, 5, 6, 7}
  Threads = {t1}
  Operations = {"install", "stage"}
  Overlap = {}
  Forces = {TRUE, FALSE}
  Failures <- Harmless
  MaxCalls = 4
  MaxReboots = 1
  MaxFaults = 1
INVARIANTS
  TypeOK
  BootTakesWhatWasInstalled
  LinkedIsPickedUp
  DevicesAreBounded
  NoCheckFails
PROPERTIES
  InstallKeepsOrReplaces
CHECK_DEADLOCK FALSE
