\* Both modes and both trigger policies on up to four samples.
SPECIFICATION Spec
CONSTANTS
  Configs <- MCConfigs
  Times = {1, 2, 3}
  MaxSamples = 4
  MaxInformed = 4
  MaxStorageErrors = 1
  StorageBatchSize = 3
  SelectorBatchSize = 2
  DataPointsForTrigger = 2
  TriggerEvery = 1
CHECK_DEADLOCK FALSE
INVARIANTS
  TriggersFollowPolicy
  TrainingsFollowTriggers
PROPERTIES
  ReplayRefinesFeed
  InOrderSamplesInformed
