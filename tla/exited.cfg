SPECIFICATION FairSpec
CONSTANTS
  Act <- OneAct
  Main = "main"
  Buffer <- OneBuffer
  Reuse = FALSE
  ChunkSizes <- TwoChunks
  ReadSizes <- OneRead
  MaxBytes = 0
  MaxQueue = 2
  MaxWrites = 1
  MaxGrow = 0
PROPERTIES OutputEndsAfterExit
CHECK_DEADLOCK FALSE
