SPECIFICATION Spec
CONSTANTS
  Shape <- MCShape
  split_exponent = TRUE
  rle = TRUE
  MaxCount = 1
  Pipelines = {1}
  MaxTrigger = 2
  Trained <- MCTrained
  FullModelStrategy = "BinaryFullModel"
  incremental = TRUE
  full_model_interval = 3
  Clients = {1, 2}
  SameMillisecond = FALSE
  MaxFetches = 2
  MaxDeletes = 2
  MaxFailures = 1
INVARIANTS ParentsStoredWhole FetchedAsTrained
PROPERTIES RefinesModelStore
CHECK_DEADLOCK FALSE
