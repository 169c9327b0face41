SPECIFICATION MCSpec
CONSTANTS
    Commands = {"build_full", "build_text", "force_full", "force_text", "derived", "knn", "hybrid"}
    Off = Off
    Runs = {r1, r2}
    Datasets <- MCDatasets
    MaxAttempts = 2
    MaxRestarts = 1
SYMMETRY RunSymmetry
CHECK_DEADLOCK FALSE
INVARIANTS
    PublishedWhole
    RecoversUnlessStale
    DatasetAsDeclared
