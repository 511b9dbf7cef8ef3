CONSTANTS
  MaxHistory = 4
  RetentionMs = 3
  Wrap = 16
  MaxTime = 6
  MaxSaves = 5
  Lag = 1
SPECIFICATION Spec
INVARIANT RetainsRecent
CHECK_DEADLOCK FALSE
