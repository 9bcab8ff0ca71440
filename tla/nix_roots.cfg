CONSTANTS
  Clients = {c1}
  a = a
  b = b
  Paths = {a, b}
  Refs <- MCRefs
  None = None
  Linked = {a, b}
  Repaired = {}
SPECIFICATION Spec
INVARIANT RootsHold
