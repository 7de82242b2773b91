CONSTANTS
  m1 = m1
  m2 = m2
  c1 = c1
  l1 = l1
  NONE = NONE
  TORN = TORN
  Digests <- MCDigests
  Manifests <- MCManifests
  Refs <- MCRefs
  Formats <- MCFormats
  FormatIds <- MCFormatIds
  Directory = "directory"

SPECIFICATION Spec

INVARIANT TypeOK
INVARIANT CommittedIndexResolves
INVARIANT CommitDurable
PROPERTY ImplementsCTFStore
