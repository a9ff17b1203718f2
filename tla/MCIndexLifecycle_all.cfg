CONSTANTS
  Order <- MCOrder
  Text <- MCText
  Fields = {"law_id", "level"}
  Plans = {"1024", "768"}
  ModelPlan = "1024"
  Setups = {s1, s2}
  Filters <- MCFilters
  MaxJobs = 3
  MaxFaults = 1
SPECIFICATION Spec
SYMMETRY Symmetric
CHECK_DEADLOCK FALSE
INVARIANTS
  SetupSuccessIsWhole
  SuccessfulRunIsCurrent
  GoodReportHolds
PROPERTY LoneSetupKeepsPoints
