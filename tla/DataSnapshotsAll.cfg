\* Devices with and without checkpoints; power is lost anywhere; one file operation fails.
SPECIFICATION Spec
CONSTANTS
  s1 = s1
  s2 = s2
  SessionIds = {s1, s2}
  RollbackId <- MCRollbackId
  IsRollback <- MCIsRollback
  VersionOf <- MCVersionOf
  InitVersion = 1
  Names = {"a"}
  UserDirs = {"user"}
  CeDirs = {"ce"}
  CheckpointSupport = {TRUE, FALSE}
  Attempts = 2
  RevertWhenInUse = TRUE
  MaxPowerLoss = 1
  MaxFaults = 1
INVARIANTS
  TypeOK
  DataIsNotNewer
  NoDataIsLost
  SnapshotIsOriginal
PROPERTIES
  RevertKeepsData
