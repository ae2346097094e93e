CONSTANTS
  Procs = {p1, p2, p3}
  NumDirs = 3
  Timeout = 1
SPECIFICATION Spec
INVARIANTS
  TypeOK
  MutualExclusion
  HeldOnDisk
  NoCircularWait
PROPERTIES
  LocksAreAtomic
  CallsReturn
