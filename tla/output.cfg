SPECIFICATION Spec
CONSTANTS
  Act <- TwoActs
  Main = "main"
  Buffer <- TwoBuffers
  Reuse = FALSE
  ChunkSizes = {}
  ReadSizes = {}
  MaxBytes = 0
  MaxQueue = 1
  MaxWrites = 3
  MaxGrow = 1
INVARIANTS OutputInOrder
CHECK_DEADLOCK FALSE
