CONSTANTS
  Chats = {a, b}
  NoChat = none
  MaxContext = 2
  MaxLength = 4
  Lengths = {2, 3}
  MaxAsks = 2
  MaxFaults = 1
SPECIFICATION Spec
SYMMETRY Symmetric
CHECK_DEADLOCK FALSE
INVARIANT StopReachesWhatIsShown
