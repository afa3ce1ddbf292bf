SPECIFICATION FSSpec
CONSTANTS
  FILE_COUNT = 2
  Variables = {f, g, h}
  Errors = {FR_INVALID_OBJECT, FR_DISK_ERR}
  FR_OK = FR_OK
  FR_INVALID_OBJECT = FR_INVALID_OBJECT
  KEEPS_FAILED = FALSE
  Formats = {"DATA"}
  SSHOT = "SSHOT"
  LAST = 2
SYMMETRY Symmetry
INVARIANTS FirstErrorKept HandlesAreDistinct NoEntryLost
PROPERTY NothingIsOverwritten
