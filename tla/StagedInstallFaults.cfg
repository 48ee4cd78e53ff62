\* One session and two failing system calls, no checkpoints; the fairness is that
\* of a running device.
SPECIFICATION FairSpec
CONSTANTS
  s1 = s1
  s2 = s2
  pkgA = pkgA
  pkgB = pkgB
  SessionIds = {s1}
  Packages = {pkgA, pkgB}
  Versions = {2, 3, 4}
  PreVersion <- MCPreVersion
  Staged <- MCStaged
  InitActive <- MCInitActive
  Flaky <- MCFlaky
  Main = main
  Threads = {t1}
  Calls = {"submit", "ready", "successful", "abort", "revert"}
  SupportsFsCheckpoints = FALSE
  Attempts = 0
  OneSessionAtATime = TRUE
  Overlap = FALSE
  MaxReboots = 3
  MaxFaults = 2
  t1 = t1
  t2 = t2
INVARIANTS
  RevertedIsNotStagedAgain
  ActivatedSessionsAreInstalled
PROPERTIES
  ImplementsAtomicInstall
  BootCompletes
  RevertCompletes
