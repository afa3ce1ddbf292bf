SPECIFICATION Spec
CONSTANTS
  Keys = {b1, s1}
  REPEAT_KEYS = {s1}
  W = 8
  WRAPS = FALSE
  DEBOUNCE <- MCDebounce
  REPEAT_DELAY <- MCRepeatDelay
  REPEAT_PERIOD <- MCRepeatPeriod
  Delays = {0}
  BeepLengths = {2}
  Volumes = {1}
INVARIANT HeldConsistent
PROPERTIES AtomicKeyBuffer FlagOnlyOnPress QuietPressFlagged
