CONSTANTS
  Procs = {p1, p2}
  None = None
  NPaths = 2
  MaxFiles = 2
  MaxLeaked = 2
SYMMETRY Alike
SPECIFICATION Spec
INVARIANT TypeOK
INVARIANT ExclusiveUnlessTorn
INVARIANT WaitsForward
PROPERTY DeletesOwnFile
PROPERTY ImplementsPathLock
