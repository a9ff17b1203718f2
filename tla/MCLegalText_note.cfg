CONSTANTS
  Letters = {"", "a", "b", "i"}
  Pages <- MCPages
  ShortText = 1
  BodyText = 3
  EarlyWindow = 5
SPECIFICATION LawSpec
INVARIANT NoteEndsAtNextArticle
CHECK_DEADLOCK FALSE
