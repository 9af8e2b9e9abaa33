SPECIFICATION Spec
CONSTANTS
  Configurations <- MCConfigurations
  TrainingSets <- MCTrainingSets
  AllLabels = {"a", "b"}
  num_dataloaders = 2
  epochs_per_trigger = 2
INVARIANTS SelectionAsConfigured EpochTrainsSelection CoresetNearOptimal
CHECK_DEADLOCK FALSE
