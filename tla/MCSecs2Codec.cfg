CONSTANTS
  Base = 4
  FixedSize = 88
  MaxSensors = 4
  SysWrap = 3
  Timestamps <- MCTimestamps
  Ids = {1, 14}
  Floats = {201}
SPECIFICATION Spec
INVARIANT DecodedIsSent
