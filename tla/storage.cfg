SPECIFICATION FairSpec
CONSTANTS
  Act <- TwoActs
  Buffer <- TwoBuffers
  Own <- MCOwn
  FirstTable <- MCTable
  Value <- OneValue
  KVKeys <- TwoKeys
  StorageKeys <- TwoStorageKeys
  ArgKeys <- MCArgKeys
  InitialStores <- MCStores
  NoRoom <- MCNoRoom
  Limit = 2
  MaxCalls = 2
  MaxTouch = 1
INVARIANTS TypeOK AnswerInPlace ListedInPlace
PROPERTIES LeftInPart CallsReturn ImplementsStore
CHECK_DEADLOCK FALSE
