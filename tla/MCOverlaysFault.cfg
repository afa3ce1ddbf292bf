SPECIFICATION Spec
CONSTANTS
  Count = 3
  CACHESIZE = 2
  Addresses = {a1, a2}
  NULL = NULL
  FileMayFail = TRUE
  MaxDepth = 2
INVARIANT RunsWhatItAskedFor
