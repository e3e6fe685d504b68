SPECIFICATION VersionSpec
CONSTANTS
  r1 = r1
  r2 = r2
  i1 = i1
  i2 = i2
  Requests = {r1}
  Chunks = {i1}
  MaxVersion = 2
  MaxClock = 1
  Second = 1
  FirstTick = 1
  FirstVersion = 2
  LegacyBytes = 1
  MarkerFails = FALSE
INVARIANTS
  OneVersion
