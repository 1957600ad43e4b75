\* An OPC UA server that fails while the connector is subscribed.
CONSTANTS
  Protocols <- OpcUaOnly
  Order <- ThreeTags
  Paths <- TwoPaths
  MaxChanges = 4
  MaxCrashes = 1
SPECIFICATION Spec
CHECK_DEADLOCK FALSE
PROPERTIES
  OpcUaOutageIsNoticed
