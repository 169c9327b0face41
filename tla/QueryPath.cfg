CONSTANTS
  Engines <- MCEngines
  MaxRetries = 2
  Searches <- MCSearches
  Queries <- MCQueries
SPECIFICATION MCSpec
INVARIANTS FilterHonest FilterFindsDocument
CHECK_DEADLOCK FALSE
