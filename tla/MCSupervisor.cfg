SPECIFICATION Spec
CONSTANTS
  Programs <- MixedPrograms
  UserKeys <- TwoButtons
  W = 3
  WRAPS = TRUE
  HOOK_MS = 1
  Outcomes <- AllOutcomes
  SleepyFunctions <- MainOnly
  ExitingFunctions <- MainIdleKey
  HangingFunctions <- None
  SleepTimes = {0, 2}
  Periods = {1}
  ExitCodes = {0, 1}
INVARIANT HandlersOfThisProgram
PROPERTIES KeysTakenForHandlers MainResumes SleepLasts FailuresAreReported
