SPECIFICATION TcpSpec
CONSTANTS
  MaxListens = 1
  MaxOffered = 1
  MaxBacklog = 1
  MaxParts = 1
\* The scene comes to rest when its calls are over.
CHECK_DEADLOCK FALSE
PROPERTIES ReceiveStops
