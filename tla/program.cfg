SPECIFICATION LoopSpec
CONSTANTS
  Act <- MainAndLoop
  Main = "main"
  LoopAct <- OneLoop
  Buffer <- TwoBuffers
  Reuse = FALSE
  ChunkSizes <- OneByte
  ReadSizes <- OneByte
  MaxBytes = 1
  MaxQueue = 1
  MaxWrites = 2
  MaxGrow = 0
INVARIANTS LoopTypeOK
PROPERTIES LoopCanWrite ReadsEnd OutputEnds LoopsGoOn
CHECK_DEADLOCK FALSE
