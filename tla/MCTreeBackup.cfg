CONSTANTS
  Names <- SmallNames
  Root = "/"
  Parent <- SmallParent
  Above <- SmallAbove
  Kinds <- LooseKinds
  BackupRoots <- RootAndD
  NumChunks = 2
  MidFile = FALSE
  OldErrors = FALSE
  MaxVersion = 2
  MaxGens = 2
  MaxBackups = 2
  MaxFaults = 1
SPECIFICATION Spec
CHECK_DEADLOCK FALSE
INVARIANTS
  TypeOK
  SkippedIsSame
  FinishedIsComplete
