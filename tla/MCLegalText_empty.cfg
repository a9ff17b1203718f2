CONSTANTS
  Letters = {"", "a", "b", "i"}
  Pages <- MCPages
  ShortText = 1
  BodyText = 3
  EarlyWindow = 5
SPECIFICATION LawSpec
INVARIANT EmptyArticleIsFlagged
CHECK_DEADLOCK FALSE
