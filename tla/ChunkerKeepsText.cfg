SPECIFICATION ChunkerSpec
CONSTANTS
  ChunkTexts <- MCChunkTexts
  ChunkOptions <- MCChunkOptions
  Separators <- MCSeparators
INVARIANT TextIsKept
CHECK_DEADLOCK FALSE
