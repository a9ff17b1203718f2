CONSTANTS
  LawOrder <- MCLawOrder
  MaxVersion = 2
  Fate <- MCFate
  Foreign <- MCForeign
  MaxJobs = 3
  MaxFaults = 1
SPECIFICATION Spec
CHECK_DEADLOCK FALSE
INVARIANTS
  QuietPassIsCurrent
  RowsOfALawAreOneVersion
  ValidatorAgrees
