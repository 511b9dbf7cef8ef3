CONSTANTS
  MaxHistory = 3
  RetentionMs = 2
  Wrap = 8
  MaxTime = 5
  MaxSaves = 6
  Lag = 2
SPECIFICATION Spec
INVARIANT HeldIsSuffix
INVARIANT NewestHeld
PROPERTY WindowSpec
CHECK_DEADLOCK FALSE
