CONSTANTS
  Engines <- AllEngines
  MaxParallel = 2
  MaxBatches = 3
  MaxRetries = 2
  Rows = 3
  Parallel = 2
  BatchSizes = {0, 1, 2}
  Payloads <- MCPayloads
SPECIFICATION MCSpec
INVARIANTS StreamedExactly OkMeansStored OneOwner
PROPERTY Terminates
