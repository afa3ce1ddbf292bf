SPECIFICATION FairSpec
CONSTANTS
  Keys = {s1}
  REPEAT_KEYS = {s1}
  W = 5
  WRAPS = TRUE
  DEBOUNCE <- MCDebounce
  REPEAT_DELAY <- MCRepeatDelay
  REPEAT_PERIOD <- MCRepeatPeriod
  Delays = {0, 3}
  BeepLengths = {1, 2}
  Volumes = {1}
PROPERTIES DelayWaits CallReturns BeepEnds
