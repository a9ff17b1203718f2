SPECIFICATION GateSpec
CONSTANTS
    Datasets <- MCDatasets
    Outcomes <- MCOutcomes
    RequiredCases = {"answer", "open"}
    MinimumTotal = 2
    OfAnswers <- MCOfAnswers
    MaxSuites = 2
INVARIANTS
    PassedGateIsSafe
    ReviewsAreHeard
    GoodBaselinePasses
CHECK_DEADLOCK FALSE
