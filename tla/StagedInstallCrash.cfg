\* One client at a time, power lost anywhere, no checkpoints.
SPECIFICATION Spec
CONSTANTS
  s1 = s1
  s2 = s2
  pkgA = pkgA
  pkgB = pkgB
  SessionIds = {s1, s2}
  Packages = {pkgA, pkgB}
  Versions = {2, 3, 4}
  PreVersion <- MCPreVersion
  Staged <- MCStaged
  InitActive <- MCInitActive
  Flaky <- MCFlaky
  Main = main
  Threads = {t1}
  Calls = {"submit", "ready", "successful", "abort", "revert"}
  SupportsFsCheckpoints = FALSE
  Attempts = 0
  OneSessionAtATime = TRUE
  Overlap = FALSE
  MaxReboots = 2
  MaxFaults = 1
  t1 = t1
  t2 = t2
INVARIANTS
  TypeOK
  BackupProtectsSession
  RestoreIsOriginal
PROPERTIES
  FinalStatesAreFinal
  ImplementsAtomicInstall
