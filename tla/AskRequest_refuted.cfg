CONSTANTS AskBudget = 6  RetrievalBudget = 4  LoadBudget = 8  EmbedBudget = 3
          QdrantBudget = 2  FallbackBudget = 1  LlmBudget = 2
          MaxAttempts = 2  FallbackEnabled = TRUE
SPECIFICATION Spec
INVARIANT FallbackIsBounded
PROPERTIES LoadHasItsOwnBudget LoadedBeforeIsOfTheStart
CHECK_DEADLOCK FALSE
