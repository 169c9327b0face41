CONSTANTS
  NConfigs = 2
  NDatasets = 1
  NPoints = 2
  Reps = 2
  AlwaysOn = {}
  MayBeOn = {"keep_data", "reset_between_configs", "skip_upload", "skip_search", "exit_on_error", "fail_on_dropped_queries", "allow_partial_corpus", "warmup", "search_timeout", "timeout"}
SPECIFICATION Spec
INVARIANTS NoShortCorpusPublished NoCorpusLeaks EvidenceSurvives OkMeansMeasured
