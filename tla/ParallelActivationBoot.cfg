\* Two workers, three APEXes; another process takes loop devices.
SPECIFICATION FairSpec
CONSTANTS
  Apexes = {"tz", "libs", "libsUpdate"}
  Version <- MCVersion
  Bootstrap = {"tz"}
  Updated = {"libsUpdate"}
  ProvidesSharedLibs = {"libs", "libsUpdate"}
  WorkerNum = 2
  NumToAllocate = 2
  SetupAttempts = 2
  WaitAttempts = 2
  Loops = {0, 1, 2, 3}
  PreAllocated = {1}
  MaxTakes = 1
  MaxFaults = 1
INVARIANTS
  TypeOK
  DevicesAreOwned
PROPERTIES
  ImplementsActivation
  ActivationEnds
CHECK_DEADLOCK FALSE
