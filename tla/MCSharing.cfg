CONSTANTS
  p1 = p1
  p2 = p2
  k1 = k1
  k2 = k2
  k3 = k3
  Procs = {p1, p2}
  Clients = {k1, k2}
  Contents = {x}
  MaxCopies = 2
  MaxGens = 2
  MaxRuns = 4
  MaxFaults = 0
  Modes = {"verify"}
  ForgetNewest = TRUE
  MayRun <- OneClientEach
SPECIFICATION Spec
SYMMETRY MachineSwap
CHECK_DEADLOCK FALSE
INVARIANTS
  TypeOK
  NoDangling
  WorkIsBacked
  UsesAreRecorded
PROPERTIES
  UsesOfOthersStay
