CONSTANTS
  LogCapacity = 2
  MaxLogSize = 2
  FlushMs = 1
  RetentionMs = 2
  Wrap = 32
  Boot = 10
  Lag = 1
  StartUptimes = {0, 2}
  MaxUptime = 4
  MaxPackets = 4
  MaxHistory = 2
SPECIFICATION HandleSpec
INVARIANT LoggedOnceInOrder
PROPERTY AcceptedReachesFile
INVARIANT KillLosesOneInterval
INVARIANT LogBacksHistory
