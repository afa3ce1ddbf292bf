SPECIFICATION Spec
CONSTANTS
  CPUFREQ = 72000000
  COUNTER = 65536
  FIX_ONE = 256
  Rates <- MCRates
  Duties <- MCDuties
INVARIANTS TypeOK RateIsBest DutyIsNearest
