SPECIFICATION Spec
CONSTANTS
  Name <- MCName
  Word = 4
  Times <- MCTimes
  MaxFd = 5
  TopFd = 5
  FdArgs <- OneGuest
  MaxEntries = 3
  MaxDesc = 5
  Preopens <- NamedPreopen
  Files <- FileDF
  Pointers <- MCTwoPointers
  DefaultTime = 100
  PathArgs <- FAndDot
  OpenFlags <- TableOpens
  RightsArgs <- AllRights
  AppendArgs <- NoFlag
  Offsets <- Nothing
  IoLens <- Nothing
  TimeFlags <- Nothing
INVARIANTS NamesResolve
CHECK_DEADLOCK FALSE
VIEW StateView
