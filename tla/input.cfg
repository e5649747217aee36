SPECIFICATION Spec
CONSTANTS
  Act <- TwoActs
  Main = "main"
  Buffer <- OneBuffer
  Reuse = FALSE
  ChunkSizes <- MCChunks
  ReadSizes <- MCReads
  MaxBytes = 4
  MaxQueue = 2
  MaxWrites = 1
  MaxGrow = 1
INVARIANTS TypeOK HandedInOrder SkipNeedsTwoReaders ShortReadAtEnd
CHECK_DEADLOCK FALSE
VIEW InputView
