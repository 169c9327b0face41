CONSTANTS
  Engines <- MCEngines
  MaxPolls = 2
  MaxRetries = 3
  Budgeted = {TRUE, FALSE}
  Dialects = {"redis", "uncounted", "valkey", "dragonfly", "kividb_hnsw", "kividb_flat"}
  Expected = 2
  Floor = 8
  DocsPerTick = 1
  Overrides = {0, 3}
  Window = 3
  PollSleep = 1
  RetrySleep = 2
  Lateness = 1
SPECIFICATION MCSpec
INVARIANTS NoStaleCorpus ReadinessVerdict
PROPERTY Terminates
