CONSTANTS
  bond = bond
  stage = stage
  bondTemp = bondTemp
  bondForce = bondForce
  stagePos = stagePos
  Modules = {bond, stage}
  Sensors = {bondTemp, bondForce, stagePos}
  ModuleOf <- MCModuleOf
  Period <- MCPeriod
  Nobody = Nobody
  Parts = 2
  SocketRoom = 1
  MaxClock = 2
  ClockSteps = TRUE
SPECIFICATION FairSpec
INVARIANT TypeOK
INVARIANT WireAtomic
INVARIANT ReadingsConserved
PROPERTY StreamSpec
PROPERTY SampleSent
CHECK_DEADLOCK FALSE
