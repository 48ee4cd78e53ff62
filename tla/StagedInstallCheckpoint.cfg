\* vold checkpoints /data.
SPECIFICATION Spec
CONSTANTS
  s1 = s1
  s2 = s2
  pkgA = pkgA
  pkgB = pkgB
  SessionIds = {s1, s2}
  Packages = {pkgA, pkgB}
  Versions = {2, 3, 4}
  PreVersion <- MCPreVersion
  Staged <- MCStaged
  InitActive <- MCInitActive
  Flaky <- MCFlaky
  Main = main
  Threads = {t1}
  Calls = {"submit", "ready", "successful", "abort", "revert"}
  SupportsFsCheckpoints = TRUE
  Attempts = 2
  OneSessionAtATime = TRUE
  Overlap = FALSE
  MaxReboots = 2
  MaxFaults = 1
  t1 = t1
  t2 = t2
INVARIANTS
  ActivatedSessionsAreInstalled
PROPERTIES
  RevertedApexNotActivated
