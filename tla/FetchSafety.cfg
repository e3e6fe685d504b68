SPECIFICATION FetchSpec
CONSTANTS
  c1 = c1
  c2 = c2
  c3 = c3
  k1 = k1
  k2 = k2
  None = None
  Callers = {c1, c2, c3}
  Fetches = {c1, c2, c3}
  Chunks = {k1, k2}
  ChunkOf <- MCChunkOf
  Units = 1
  Cached = {k1, k2}
  PutResults = {"pin", "buf"}
  QueueTimeouts = TRUE
  LookupFails = TRUE
SYMMETRY MCSymmetry
INVARIANTS
  FetchTypeOK
  RefsExact
  FreedExactly
  UnitsExact
  BuffersCapped
  FlightsExact
