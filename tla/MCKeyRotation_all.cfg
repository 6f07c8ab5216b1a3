CONSTANTS
  s1 = s1
  s2 = s2
  a1 = a1
  a2 = a2
  Servers <- MCServers
  Accounts <- MCAccounts
  MaxRot = 3
  Settings <- AllSettings
SPECIFICATION FairSpec
INVARIANTS TypeOK NeverLockedOut RetiredOnlyUnused RecordsTrue FilesExact
PROPERTY EveryRotationEnds
CHECK_DEADLOCK FALSE
