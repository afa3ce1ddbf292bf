SPECIFICATION Spec
CONSTANTS
  Count = 3
  CACHESIZE = 2
  Addresses = {a1, a2}
  NULL = NULL
  FileMayFail = FALSE
  MaxDepth = 2
INVARIANTS CacheSound RunsWhatItAskedFor
SYMMETRY Symmetry
