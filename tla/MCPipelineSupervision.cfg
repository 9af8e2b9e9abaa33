SPECIFICATION Spec
CONSTANTS
  ConfigChoices <- MCConfigChoices
  SupportedStrategies <- MCStrategies
  SupportedWriters <- MCWriters
  SamplesPerTrigger = 4
  StatusBarScale = 50
  Epochs = 3
  MaxTriggers = 1
  MaxAnswers = 2
  SeenChoices = {4, 5}
  PipeSize = 2
  MaxFaults = 1
INVARIANTS   VerdictTruthful
PROPERTIES ClientToldEnd
