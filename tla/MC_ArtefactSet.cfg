CONSTANTS
  m1 = m1
  m2 = m2
  c1 = c1
  l1 = l1
  v1 = v1
  v2 = v2
  b1 = b1
  b2 = b2
  s1 = s1
  s2 = s2
  h1 = h1
  h2 = h2
  NONE = NONE
  Digests <- MCDigests
  Refs <- MCRefs
  Tags <- MCTags
  TagRoot <- MCTagRoot
  BlobIds = {b1, b2}
  SetIds = {s1, s2}
  Holders = {h1, h2}

SPECIFICATION Spec

INVARIANT TypeOK
INVARIANT HeldBlobExists
