CONSTANTS
  NoId = "no id"
  FinalTopK = 3
  RrfK = 60
  DenseWeight = 2
  SparseWeight = 3
  FusedBest = 1
  SparseQuota = 1
  DenseQuota = 1
  MaxPackets = 3
  MaxSelected = 2
  DenseLists <- MCDenseLists
  SparseLists <- MCSparseLists
  Contents <- MCContents
  MaxCited = 3
SPECIFICATION RagSpec
CHECK_DEADLOCK FALSE
INVARIANTS
  SourcesAreHeard
  AnswerIsGrounded
  FallbackIsJustified
  PlainAnswerHasCleanEvidence
