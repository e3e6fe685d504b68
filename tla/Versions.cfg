SPECIFICATION FairVersionSpec
CONSTANTS
  r1 = r1
  r2 = r2
  i1 = i1
  i2 = i2
  Requests = {r1, r2}
  Chunks = {i1}
  MaxVersion = 2
  MaxClock = 4
  Second = 2
  FirstTick = 3
  FirstVersion = 1
  LegacyBytes = 1
  MarkerFails = FALSE
INVARIANTS
  VersionTypeOK
  FiledTrue
  Separated
PROPERTIES
  ReuploadServed
