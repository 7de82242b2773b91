\* A client applies two combinators to the package atoms; strings of up
\* to three characters.  The client stops when it is done.
CONSTANTS
  Raw <- MCRaw
  MaxLen = 3
  MaxBuilt = 2
  NONE = NONE
  Chars <- MCChars
  OCITypeRegexp <- MCDomainRegexp
  DomainRegexp <- MCDomainRegexp
  DomainPortRegexp <- MCDomainPortRegexp
  RepositoryRegexp <- MCRepositoryRegexp
  RepositorySeparatorRegexp <- MCSlash
  TagRegexp <- MCTagRegexp
  RepositorySeparator <- MCSlash
  TagSeparator <- MCColon
  MaxPathLen = 3
  PathSuffixes <- MCSuffixes
  TypeNames <- MCTypeNames
  Hosts <- MCHosts
  SubPaths <- MCSubPaths
  Components <- MCComponents
  Versions <- MCVersions
INIT Init
NEXT Next
INVARIANT TypeOK
INVARIANT CombinatorsDenote
INVARIANT AnchoredMatchesWhole
INVARIANT GenericReferenceSplit
INVARIANT ReferenceCapturesAsDocumented
CHECK_DEADLOCK FALSE
