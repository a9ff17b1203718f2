CONSTANTS AskBudget = 6  RetrievalBudget = 4  LoadBudget = 4  EmbedBudget = 3
          QdrantBudget = 2  FallbackBudget = 1  LlmBudget = 2
          MaxAttempts = 2  FallbackEnabled = TRUE
SPECIFICATION TimeSpec
INVARIANT ClientIsToldWhatHappened
PROPERTIES KeepsPromiseInTime WorkerEnds
CHECK_DEADLOCK FALSE
