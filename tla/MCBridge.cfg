CONSTANTS
  HeaderSize = 2
  BodySize <- MCBodySize
  MaxConns = 2
  Browsers = {tab}
SPECIFICATION FairSpec
INVARIANT InStep
INVARIANT BrowsersInOrder
PROPERTY WholeReportForwarded
PROPERTY Reconnects
CHECK_DEADLOCK FALSE
