SPECIFICATION FetchSpec
CONSTANTS
  c1 = c1
  c2 = c2
  c3 = c3
  k1 = k1
  k2 = k2
  None = None
  Callers = {c1, c2}
  Fetches = {c1, c2}
  Chunks = {k1}
  ChunkOf <- MCSameChunk
  Units = 1
  Cached = {k1}
  PutResults = {"pin", "buf"}
  QueueTimeouts = TRUE
  LookupFails = FALSE
PROPERTIES
  LeadsOnlyMissing
