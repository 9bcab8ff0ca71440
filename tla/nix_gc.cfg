CONSTANTS
  Clients = {c1, c2}
  a = a
  b = b
  Paths = {a, b}
  Refs <- MCRefs
  None = None
  Linked = {b}
  Repaired = {b}
SPECIFICATION Spec
SYMMETRY Symmetry
CONSTRAINT InTime
CONSTRAINT Apart
INVARIANT TypeOK
INVARIANT StoreClosed
INVARIANT ValidOnDisk
INVARIANT RootsKept
INVARIANT KeptForAReason
INVARIANT SleepsInWalk
PROPERTY ImplementsStore
PROPERTY CollectionMovesOn
