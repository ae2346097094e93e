CONSTANTS
  Names <- SmallNames
  Root = "/"
  Parent <- SmallParent
  Above <- SmallAbove
  Kinds <- FixedKinds
  BackupRoots <- RootAndD
  NumChunks = 1
  MidFile = TRUE
  OldErrors = TRUE
  MaxVersion = 2
  MaxGens = 2
  MaxBackups = 2
  MaxFaults = 1
SPECIFICATION Spec
CONSTRAINT FewChanges
CHECK_DEADLOCK FALSE
INVARIANTS
  TypeOK
  NoDanglingDirectories
  CacheHangsTogether
PROPERTY ImplementsMaps
