\* Two tags, one subscriber of each kind, queues of two.
CONSTANTS
  Tags <- MCTags
  Type <- MCType
  Position <- MCPosition
  Sockets <- MCSockets
  OpcUa <- MCOpcUa
  Modbus <- MCModbus
  Capacity = 2
  MaxUpdates = 3
SPECIFICATION FairSpec
CHECK_DEADLOCK FALSE
INVARIANTS
  TypeOK
  ServersCatchUp
PROPERTIES
  NeverBackwards
  ServersKeepUp
