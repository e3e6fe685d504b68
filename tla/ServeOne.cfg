SPECIFICATION ServeSpec
CONSTANTS
  None = None
  Requests = {1}
  NChunks <- MCThree
  Window = 2
  Paused = {}
  Leavers = {1}
  Callers <- MCCallers
  Fetches <- MCCallers
  Chunks <- MCCallers
  ChunkOf <- MCOwnObject
  Units = 1
  Cached <- MCHeadCached
  PutResults = {"pin", "buf"}
  QueueTimeouts = TRUE
  LookupFails = FALSE
INVARIANTS
  GuardExact
  WindowBound
  NothingLeftBehind
  StatusHonest
