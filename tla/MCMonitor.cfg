CONSTANTS
  c1 = c1
  c2 = c2
  c3 = c3
  Clients = {c1, c2, c3}
  MaxClients = 2
  Empty = Empty
  Stdin = Stdin
  BodyParts = 2
  SocketRoom = 2
SPECIFICATION DeliverySpec
SYMMETRY ClientSymmetry
INVARIANT FramesWhole
INVARIANT TableMatchesSockets
INVARIANT EquipmentUntouched
INVARIANT AnomalyDelivered
