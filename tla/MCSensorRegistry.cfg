CONSTANTS
  temp = temp
  odd = odd
  SensorIds = {temp, odd}
  Values <- MCValues
  WindowSize = 2
  MaxSensor = 2
  ClassOf <- MCClassOf
  NoClass = NoClass
  NoValue = NoValue
SPECIFICATION Spec
INVARIANT OneEntryPerSensor
PROPERTY ReportSpec
