\* Native processes may crash at any time; nothing else goes wrong.
SPECIFICATION Spec
CONSTANTS
  s1 = s1
  s2 = s2
  SessionIds = {s1, s2}
  RollbackId <- MCRollbackId
  IsRollback <- MCIsRollback
  VersionOf <- MCVersionOf
  InitVersion = 1
  Names = {"a"}
  UserDirs = {"user"}
  CeDirs = {}
  CheckpointSupport = {FALSE}
  Attempts = 2
  RevertWhenInUse = FALSE
  MaxPowerLoss = 0
  MaxFaults = 0
PROPERTIES
  RevertKeepsData
