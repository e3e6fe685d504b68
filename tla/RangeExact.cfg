SPECIFICATION RangeSpec
CONSTANTS
  MaxSize = 5
  ChunkSizes = {2}
  ReadaheadChunks = 1
INVARIANTS
  RangeTypeOK
  BodyExact
  AnswerTrue
