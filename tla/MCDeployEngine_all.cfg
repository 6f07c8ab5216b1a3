CONSTANTS
  MaxRel = 3
  Keep = 1
  Settings <- AllSettings
  MaxRuns = 4
SPECIFICATION Spec
INVARIANTS
  TypeOK
  CurrentUp
  CleanOutcome
  KeptBuilt
PROPERTIES
  SteadyService
CHECK_DEADLOCK FALSE
