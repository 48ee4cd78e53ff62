\* A revert cut short by power loss is resumed by the next boot, after it has read /data/apex/active.
SPECIFICATION Spec
CONSTANTS
  s1 = s1
  s2 = s2
  pkgA = pkgA
  pkgB = pkgB
  SessionIds = {s1}
  Packages = {pkgA}
  Versions = {2, 3, 4}
  PreVersion <- MCPreVersion
  Staged <- MCStaged
  InitActive <- MCInitActive
  Flaky <- MCFlaky
  Main = main
  Threads = {t1}
  Calls = {"submit", "ready", "successful", "abort", "revert"}
  SupportsFsCheckpoints = FALSE
  Attempts = 0
  OneSessionAtATime = TRUE
  Overlap = FALSE
  MaxReboots = 3
  MaxFaults = 0
  t1 = t1
  t2 = t2
INVARIANTS
  RevertKeepsOriginals
