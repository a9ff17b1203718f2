CONSTANTS
  Letters = {"", "a", "b", "i"}
  Pages <- MCPages
  ShortText = 1
  BodyText = 3
  EarlyWindow = 5
SPECIFICATION LawSpec
INVARIANTS
  ArticlesSurviveCleaning
  FailsOnlyPastBoundary
  ChunksAreTheUnits
  CleanLawIsWhole
CHECK_DEADLOCK FALSE
