\* Two files, one or two insertion threads, two exceptions, crashes or shutdowns.
SPECIFICATION Spec
CONSTANTS
  f1 = f1
  f2 = f2
  Files = {f1, f2}
  NumSamples <- MCNumSamples
  ThreadCounts = {1, 2}
  sample_dbinsertion_batchsize = 2
  MaxClock = 2
  MaxDisturbances = 2
CHECK_DEADLOCK FALSE

  
PROPERTY FilesFound
