SPECIFICATION Spec
CONSTANTS
  Act <- TwoActs
  Main = "main"
  Buffer <- NoBuffer
  Reuse = FALSE
  ChunkSizes <- TwoChunks
  ReadSizes <- MCReads
  MaxBytes = 4
  MaxQueue = 2
  MaxWrites = 0
  MaxGrow = 0
INVARIANTS NoByteSkipped
CHECK_DEADLOCK FALSE
