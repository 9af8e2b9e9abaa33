\* Two iterations of a dataset of up to three partitions.
SPECIFICATION Spec
CONSTANTS
  MaxPartitions = 3
  PartitionCounts = {1, 3}
  PrefetchCounts = {0, 1, 2, 3}
  ParallelRequests = {1, 2}
  Sizes = {0, 2}
  MaxEpochs = 2
CHECK_DEADLOCK FALSE
INVARIANTS
  InOrderExactlyOnce
  MemoryBound
  EpochLeavesNothing
  FirstEpochLaunchesInTime
PROPERTY FirstEpochCompletes
