CONSTANTS
  NONE = NONE
  Names <- MCNames
  Keys <- MCKeys
  Vals <- MCVals
  Stop <- MCStop
  MaxArgs = 4

SPECIFICATION Spec

INVARIANT TypeOK
INVARIANT ConsumeMatchesReference
INVARIANT PatternMatchesReference

\* the parser returns: a finished call is a final state
CHECK_DEADLOCK FALSE
