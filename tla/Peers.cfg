CONSTANTS
  Node = {1, 2}
  Nameless = {2}
  Device = {11, 12}
  Installed = {1}
  MaxEvents = 1
  MaxRefreshes = 2
  MaxEdits = 1
SPECIFICATION FairSpec
INVARIANTS TrustIsEarned NothingLost
PROPERTIES RefreshEnds
CHECK_DEADLOCK FALSE
