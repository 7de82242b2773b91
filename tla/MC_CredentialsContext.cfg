CONSTANTS
  p1 = p1
  p2 = p2
  i1 = i1
  e0 = e0
  c1 = c1
  c2 = c2
  NONE = NONE
  Procs = {p1, p2}
  Ids = {i1, e0}
  EmptyId = e0
  Creds = {c1, c2}
  AliasTypes <- MCAliasTypes
  MaxConfig = 2

SPECIFICATION Spec

INVARIANT TypeOK
INVARIANT SetNotOverriddenByOlderConfig

SYMMETRY MCSymmetry
