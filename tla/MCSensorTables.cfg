CONSTANTS
  MaxSensors = 128
  MaxSensor = 1024
  FixedSize = 4096
  JsonBufSize = 32768
  LogCapacity = 10000
  DeltaParts = 4
SPECIFICATION TablesSpec
INVARIANT AnomalyIffAbnormal
INVARIANT KnownEverywhere
INVARIANT BuffersFit
