CONSTANTS
  p1 = p1
  p2 = p2
  k1 = k1
  k2 = k2
  k3 = k3
  Procs = {p1}
  Clients = {k1, k2, k3}
  Contents = {x}
  MaxCopies = 1
  MaxGens = 1
  MaxRuns = 5
  MaxFaults = 0
  Modes = {"verify"}
  ForgetNewest = TRUE
  MayRun <- AnyCommand
SPECIFICATION Spec
SYMMETRY AnySwap
CHECK_DEADLOCK FALSE
INVARIANT NoDangling
