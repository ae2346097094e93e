CONSTANTS
  p1 = p1
  p2 = p2
  n1 = n1
  n2 = n2
  d1 = d1
  d2 = d2
  d3 = d3
  Procs = {p1, p2}
  Names = {n1, n2}
  Dirs = {d1, d2}
  Contents = {1, 2}
  Bags = {1, 2}
  BagSize = 2
  MaxLeaf = 2
  MaxGens = 2
  MaxRuns = 2
  MaxFaults = 1
  Nobody = Nobody
  Dead = Dead
  None = None
  NotLoaded = NotLoaded
SPECIFICATION Spec
CHECK_DEADLOCK FALSE
INVARIANTS
  TypeOK
  CommittedIsStored
  IndexIsSound
  SessionFindsWhatItPut
PROPERTIES
  BagsAreWrittenOnce
  ImplementsInterface
SYMMETRY Swaps
