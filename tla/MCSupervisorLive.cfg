SPECIFICATION FairSpec
CONSTANTS
  Programs <- IdleProgram
  UserKeys <- TwoButtons
  W = 3
  WRAPS = TRUE
  HOOK_MS = 1
  Outcomes <- AllOutcomes
  SleepyFunctions <- MainAndIdle
  ExitingFunctions <- MainAndIdle
  HangingFunctions <- Hanging
  SleepTimes = {2}
  Periods = {}
  ExitCodes = {1}
PROPERTIES UserCanAbort EventServed
