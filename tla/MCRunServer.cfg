CONSTANTS
  c1 = c1
  c2 = c2
  Clients = {c1, c2}
  MaxClients = 1
  Empty = Empty
  Stdin = Stdin
  BodyParts = 1
  SocketRoom = 1
  MaxInbox = 1
  Readers = {c1}
SPECIFICATION FairSpec
INVARIANT StaysUp
PROPERTY UsesMonitor
PROPERTY ShutdownCompletes
PROPERTY ReportsWhileActive
PROPERTY ClientsServed
PROPERTY EquipmentAccepted
PROPERTY EntriesReclaimed
