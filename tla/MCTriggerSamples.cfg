\* Up to three workers and eleven files.
SPECIFICATION TSSpec
CONSTANTS
  SampleCounts = {1, 2, 5, 12}
  InsertionThreads = {0, 1, 2, 3, 11}
  WorkerCounts = {1, 2, 3}
CHECK_DEADLOCK FALSE
INVARIANTS
  EachSampleOnce
  ShareServed

