\* The package's Identifier against its comment, on strings of up to three
\* characters.
CONSTANTS
  Raw <- MCRaw
  MaxLen = 3
  MaxBuilt = 0
  NONE = NONE
  Chars <- MCChars
  OCITypeRegexp <- MCDomainRegexp
  DomainRegexp <- MCDomainRegexp
  DomainPortRegexp <- MCDomainPortRegexp
  RepositoryRegexp <- MCRepositoryRegexp
  RepositorySeparatorRegexp <- MCSlash
  TagRegexp <- MCTagRegexp
  RepositorySeparator <- MCSlash
  TagSeparator <- MCColon
  MaxPathLen = 3
  PathSuffixes <- MCSuffixes
  TypeNames <- MCTypeNames
  Hosts <- MCHosts
  SubPaths <- MCSubPaths
  Components <- MCComponents
  Versions <- MCVersions
INIT Init
NEXT Next
INVARIANT IdentifierAsDocumented
CHECK_DEADLOCK FALSE
