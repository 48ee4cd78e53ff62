\* A/B updates of two packages, chroot and slot switches, with room enough for
\* both and, once others take four units, too little.
SPECIFICATION Spec
CONSTANTS
  Packages = {"p", "q", "libs"}
  SharedLibs = {"libs"}
  Images <- MCImages
  FirstImage = "old"
  DataVersions = {2}
  Capacity = 6
  SpaceIsHeld = {TRUE, FALSE}
  OthersTake = {4}
  MaxUpdates = 2
  MaxBoots = 2
  MaxChanges = 1
  MaxFaults = 1
INVARIANTS
  TypeOK
  ActiveIsValid
  MountedFilesStay
  EveryPackageIsActive
  EstimateSuffices
PROPERTIES
  OtaIsKept
