SPECIFICATION FairSpec
CONSTANTS
  DEPTH = 4
  PRESAMPLES = 1
  GROUP = 2
  NEAR = 2
  PERIOD = 3
  POLLS = 2
  Channels = {A, B}
  MaxCount = 2
INVARIANTS SamplesInOrder PresamplesSkipped
PROPERTIES CaptureStartsWithPeriod CaptureReturns
