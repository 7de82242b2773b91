\* Up to two --sort flags of up to three characters each: enough for a
\* blank inside, before and after a name, empty pieces and two names in
\* one value; two artefacts, so that a single reference differs from the
\* whole repository.  The command returns after Run.
CONSTANTS
  Letters <- MCLetters
  MaxValLen = 3
  MaxVals = 2
  OutputModes <- MCOutputModes
  OutputFlags <- MCOutputFlags
  NONE = NONE
  a1 = a1
  a2 = a2
  Artefacts = {a1, a2}
SPECIFICATION Spec
SYMMETRY MCSymmetry
INVARIANT TypeOK
INVARIANT SortFieldsAsGiven
INVARIANT UsageListsOutputModes
CHECK_DEADLOCK FALSE
