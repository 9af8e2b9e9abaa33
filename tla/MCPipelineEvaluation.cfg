SPECIFICATION Spec
CONSTANTS
  MaxScore = 2
  Average = "macro"
  Datasets <- MCDatasets
  InitialKeys = 3
  MaxGrowth = 1
  MaxTriggers = 2
  MetricChoices <- MCMetrics
  OutputChoices <- MCOutputs
  BatchSize = 2
  EvalWorkers = 2
  TrainWorkers = 2
  MaxFaults = 1
INVARIANTS  ReportsTruthful
PROPERTY RoundEnds
