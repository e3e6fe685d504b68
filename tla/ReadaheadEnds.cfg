SPECIFICATION FairReadaheadSpec
CONSTANTS
  c1 = c1
  c2 = c2
  c3 = c3
  k1 = k1
  k2 = k2
  None = None
  Callers = {c1, c2, c3}
  Fetches = {c1, c2, c3}
  Chunks = {k1, k2}
  ChunkOf <- MCChunkOf
  Scenarios <- MCScenarios
  Slots = 1
  Units = 1
  Cached = {k1}
  PutResults = {"pin", "buf"}
  QueueTimeouts = TRUE
  LookupFails = FALSE
INVARIANTS
  ReadaheadTypeOK
  SlotsExact
PROPERTIES
  ImplementsSharedResult
  FlightsFreed
  CallsEnd
