SPECIFICATION ProvidersSpec
CONSTANTS
  HighWater = 2
  MaxAccepts = 1
  MaxWrites = 2
  MaxChunks = 2
  MaxArrivals = 1
  MaxListens = 1
  MaxOffered = 2
  MaxBacklog = 1
  MaxParts = 1
  Peers = {"p", "q"}
  UdpCalls = {1, 2}
  MaxQueued = 2
  MaxDatagrams = 2
  MaxPairs = 2
  Names = {"a", "b"}
  Objects = {1, 2, 3, 4, 5, 6, 7, 8, 9}
  MaxDepth = 3
  Calls = {1, 2}
  MaxDescriptors = 4
  ReadChunk = 1
  Fds = {1, 2}
  FieldNames = {"a"}
  Casings = {"A"}
  Timeouts = {0}
  MaxEntries = 1
  MaxReads = 2
  MaxDelay = 1
  DefaultTimeout = 2
\* Scenes come to rest when their calls are over.
CHECK_DEADLOCK FALSE
INVARIANTS NoLostWake FilesAccount ExchangeSound SocketAccounts DatagramsHeard
PROPERTIES GrantHolds DropWakes AcceptRetires
