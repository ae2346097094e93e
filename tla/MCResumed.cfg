CONSTANTS
  Names <- SmallNames
  Root = "/"
  Parent <- SmallParent
  Above <- SmallAbove
  Kinds <- FixedKinds
  BackupRoots <- RootAndD
  NumChunks = 2
  MidFile = TRUE
  OldErrors = FALSE
  MaxVersion = 2
  MaxGens = 2
  MaxBackups = 2
  MaxFaults = 1
SPECIFICATION Spec
CHECK_DEADLOCK FALSE
INVARIANT FinishedIsComplete
