CONSTANTS
  Harnesses <- AllHarnesses
  Modes = {"closed", "open", "duration", "mixed"}
  Parallel = 2
  Requests = {0, 1, 3}
  Interval = 1
  MaxLateness = 2
  LateThreshold = 1
  Duration = 2
  RatioSearches = 2
  RatioUpdates = 1
  MaxTicks = 6
  MaxTaken = 3
SPECIFICATION Spec
INVARIANTS DispatchKept ReportHonest
PROPERTY Terminates
