CONSTANTS
  Names <- SmallNames
  Root = "/"
  Parent <- SmallParent
  Above <- SmallAbove
  Kinds <- LooseKinds
  BackupRoots <- RootAndD
  NumChunks = 1
  MidFile = TRUE
  OldErrors = TRUE
  MaxVersion = 2
  MaxGens = 2
  MaxBackups = 2
  MaxFaults = 0
SPECIFICATION Spec
CHECK_DEADLOCK FALSE
INVARIANT FileIsNoDirectory
