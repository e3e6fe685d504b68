SPECIFICATION FairDiskSpec
CONSTANTS
  p1 = p1
  p2 = p2
  c1 = c1
  c2 = c2
  o1 = o1
  o2 = o2
  x1 = x1
  Main = Main
  Nobody = Nobody
  Threads = {p1, p2}
  Chunks = {c1, c2}
  Objects = {o1, o2}
  Prefixes = {x1}
  DirOf <- MCDirOf
  PrefixOf <- MCPrefixOf
  SizeOf <- MCSizeOf
  MaxBytes = 15
  MaxUses = 3
  MaxFaults = 1
INVARIANTS
  DiskTypeOK
  WholeOrAbsent
  NoTmpLeft
  MarkerFirst
  SweepBound
  LeastRecentFirst
PROPERTIES
  TakesOnlyRecorded
  ImplementsStore
  OrphansReaped
  BackUnderCap
