SPECIFICATION SSSpec
CONSTANTS
  FileWrapperType = "binary"
  record_size = 3
  label_size = 2
  label_index = 0
  Paths = {1, 2}
  Rows <- MCRows
  retrieval_threads = 2
  sample_batch_size = 2
  UnorderedQueries = FALSE
  UnorderedRequests = FALSE
  Requests = {3}
  MaxDatasets = 1
  MaxFiles = 3
  MaxRequests = 3
  MaxCrashes = 1
INVARIANTS WorkersCoverDataset  
PROPERTIES NewDataWhole
CHECK_DEADLOCK FALSE
