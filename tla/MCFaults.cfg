CONSTANTS
  p1 = p1
  p2 = p2
  k1 = k1
  k2 = k2
  k3 = k3
  Procs = {p1, p2}
  Clients = {k1}
  Contents = {x}
  MaxCopies = 2
  MaxGens = 3
  MaxRuns = 5
  MaxFaults = 2
  Modes = {"verify", "never"}
  ForgetNewest = FALSE
  MayRun <- BackupAndForget
SPECIFICATION Spec
CHECK_DEADLOCK FALSE
INVARIANTS
  NoDangling
  WorkIsBacked
  SavedIsKept
PROPERTIES
  GenerationsAreFinal
