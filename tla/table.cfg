SPECIFICATION Spec
CONSTANTS
  Name <- MCName
  Word = 4
  Times <- MCTimes
  MaxFd = 5
  TopFd = 5
  FdArgs <- OneStream
  MaxEntries = 3
  MaxDesc = 5
  Preopens <- EmptyPreopen
  Files <- FileF
  Pointers <- MCPointers
  DefaultTime = 100
  PathArgs <- FAndDot
  OpenFlags <- TableOpens
  RightsArgs <- SomeRights
  AppendArgs <- NoFlag
  Offsets <- Nothing
  IoLens <- Nothing
  TimeFlags <- Nothing
INVARIANTS TypeOK PreopensPinned RequireHolds HandlesOwned
PROPERTIES RightsNeverGrow ImplementsTable OpenPreservesTable
CHECK_DEADLOCK FALSE
VIEW StateView
