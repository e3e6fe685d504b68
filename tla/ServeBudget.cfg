SPECIFICATION ServeSpec
CONSTANTS
  None = None
  Requests = {1, 2}
  NChunks <- MCTwoTwo
  Window = 2
  Paused = {}
  Leavers = {}
  Callers <- MCCallers
  Fetches <- MCCallers
  Chunks = {0, 1, 2}
  ChunkOf <- MCOverlap
  Units = 1
  Cached = {}
  PutResults = {"buf"}
  QueueTimeouts = FALSE
  LookupFails = FALSE
INVARIANTS
  ServeTypeOK
  HeadFirst
  OwnersMove
PROPERTIES
  ImplementsPool
