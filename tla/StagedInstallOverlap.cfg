\* Two calls and the main thread overlap.
SPECIFICATION Spec
CONSTANTS
  s1 = s1
  s2 = s2
  pkgA = pkgA
  pkgB = pkgB
  SessionIds = {s1}
  Packages = {pkgA}
  Versions = {2, 3, 4}
  PreVersion <- MCPreVersion
  Staged <- MCStaged
  InitActive <- MCInitActive
  Flaky <- MCFlaky
  Main = main
  Threads = {t1, t2}
  Calls = {"submit", "ready", "successful", "revert", "unstage"}
  SupportsFsCheckpoints = FALSE
  Attempts = 0
  OneSessionAtATime = FALSE
  Overlap = TRUE
  MaxReboots = 2
  MaxFaults = 0
  t1 = t1
  t2 = t2
SYMMETRY MCSymmetry
INVARIANTS
  EveryPackageActive
PROPERTIES
  RevertedApexNotActivated
