\* Two epochs of two batches; answers queue up behind a pipe of one.
SPECIFICATION Spec
CONSTANTS
  Requests <- MCRequests
  epochs_per_trigger = 2
  Batches = 2
  DownsamplingBatches = 1
  Periods <- MCPeriods
  PipeCapacity = 1
  MaxOutstanding = 2
  MaxModelQueries = 1
CHECK_DEADLOCK FALSE
INVARIANTS
  StoredModelComplete
  ExecutorHearsOfEveryException
  DownloadRemoved
PROPERTIES
  ProgressNeverGoesBack
  ExecutorFinishes
