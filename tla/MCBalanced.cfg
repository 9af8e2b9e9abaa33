SPECIFICATION Spec
CONSTANTS
  Configurations <- MCBalanced
  TrainingSets <- MCTrainingSets
  AllLabels = {"a", "b"}
  num_dataloaders = 2
  epochs_per_trigger = 2
INVARIANT BalancedDownsampling
CHECK_DEADLOCK FALSE
