SPECIFICATION Spec
CONSTANTS
  Act <- OneAct
  Main = "main"
  Buffer <- OneBuffer
  Reuse = TRUE
  ChunkSizes <- TwoChunks
  ReadSizes <- OneRead
  MaxBytes = 1
  MaxQueue = 2
  MaxWrites = 2
  MaxGrow = 0
INVARIANTS OutputAsWritten
CHECK_DEADLOCK FALSE
