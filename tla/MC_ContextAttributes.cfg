\* One configurable key besides the default key; room for one Empty
\* repository per store, and for a second one in the same store.
CONSTANTS
  k0 = k0
  k1 = k1
  NONE = NONE
  Keys = {k1}
  DefaultKeys = {k0}
  MaxRepos = 2

SPECIFICATION Spec

INVARIANT TypeOK
INVARIANT SigningGetNeverPanics
