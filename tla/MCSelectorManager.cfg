\* Two processes, three triggers, four samples in chunks of two.
SPECIFICATION Spec
CONSTANTS
  p1 = p1
  p2 = p2
  Processes = {p1, p2}
  AllData = AllData
  Strategies <- MCStrategies
  Label <- MCLabel
  Tails <- MCTails
  Limits = {0, 2}
  maximum_keys_in_memory = 2
  keys_in_selector_cache = 3
  Thresholds <- MCThresholds
  insertion_threads = 2
  MaxFailedInsertions = 1
  MaxSamples = 4
  MaxBatch = 2
  MaxTriggers = 3
  MaxReconnects = 1
SYMMETRY Symmetry
CHECK_DEADLOCK FALSE
INVARIANTS
  TrainingSetFollowsPolicy
  PresampledAsConfigured
  FreshShareKept
  AnswersExact
PROPERTY RoundsWithoutReplacement
