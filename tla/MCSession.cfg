SPECIFICATION SessionSpec
CONSTANTS
  FILE_COUNT = 1
  Variables = {f, g}
  Errors = {FR_INVALID_OBJECT}
  FR_OK = FR_OK
  FR_INVALID_OBJECT = FR_INVALID_OBJECT
  KEEPS_FAILED = FALSE
  Formats = {"DATA"}
  SSHOT = "SSHOT"
  LAST = 0
  MEMORY = 8
  ARENA = 1
  Headers <- MCHeaders
  Pins = {"PB0", "PB1", "PB2"}
  default_pins = {"PB1"}
  Images = {"custom"}
  Driven <- MCDriven
INVARIANTS MemoryIsDivided NoPinConflict
PROPERTY NothingIsInherited
