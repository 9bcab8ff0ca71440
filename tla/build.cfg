CONSTANTS
  Packages = {p1, p2}
  MaxVersion = 2
  MaxIsos = 3
SPECIFICATION Spec
SYMMETRY Symmetry
INVARIANT TypeOK
INVARIANT ArtifactsCurrent
INVARIANT NewestIsoKept
