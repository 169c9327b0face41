SPECIFICATION MCSpec
CONSTANTS
    SummaryRows <- MCSummaryRows
    MaxRows = 4
    NoSummary = NoSummary
    Comparisons <- MCComparisons
    Truths <- MCTruths
    DocIds <- MCDocIds
    NoTruth = NoTruth
    NoReport = NoReport
CHECK_DEADLOCK FALSE
INVARIANTS
    ArtifactHonest
    PlanKept
    HeadlineIsEarned
    PassIsEvidence
