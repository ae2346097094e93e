CONSTANTS
  p1 = p1
  p2 = p2
  n1 = n1
  n2 = n2
  d1 = d1
  d2 = d2
  d3 = d3
  Procs = {p1}
  Names = {n1}
  Dirs = {d1}
  Contents = {1, 2}
  Bags = {1}
  BagSize = 2
  MaxLeaf = 4
  MaxGens = 1
  MaxRuns = 1
  MaxFaults = 0
  Nobody = Nobody
  Dead = Dead
  None = None
  NotLoaded = NotLoaded
SPECIFICATION Spec
CHECK_DEADLOCK FALSE
INVARIANT CommittedIsFound
