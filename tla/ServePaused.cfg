SPECIFICATION FairServeSpec
CONSTANTS
  None = None
  Requests = {1, 2}
  NChunks <- MCTwoOne
  Window = 2
  Paused = {1}
  Leavers = {}
  Callers <- MCCallers
  Fetches <- MCCallers
  Chunks <- MCCallers
  ChunkOf <- MCOwnObject
  Units = 1
  Cached <- MCHeadCached
  PutResults = {"buf"}
  QueueTimeouts = FALSE
  LookupFails = FALSE
PROPERTIES
  EveryFetchGetsBudget
  RequestsEnd
