SPECIFICATION Spec
CONSTANTS
  Word = 32
  GuestSize = 6
  FrameSize = 10
  Stack = 20
  Frames = 1
  Memories <- MCGuests
  FileData <- MCFile
  DirSize = 1
  Args <- MCArgs
  Env <- MCEnv
  Result = 30
  Quota = 1
  Pointers <- MCPointers
  Sizes <- MCSizes
  Counts <- MCCounts
  MaxCalls = 2
INVARIANTS TypeOK SpansApart SpansCopied OnlyHandedOver BytesArrive ValuesArrive FrameLostByThrow
CHECK_DEADLOCK FALSE
