SPECIFICATION FairSpec
CONSTANTS
  Rows = 2
  Saves = 2
  Requests = 2
  MaxTime = 2
  Settle = 1
  Delay = 1
  Retention = 1
  BatchSize = 1
  MaxBatches = 2
  Attempts = 2
  BackoffBase = 1
  BackoffMax = 2
  Kinds <- Webhook
INVARIANT TypeOK
PROPERTIES AtLeastOnce EverythingSent
CHECK_DEADLOCK FALSE
