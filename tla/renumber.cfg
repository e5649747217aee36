SPECIFICATION Spec
CONSTANTS
  Name <- MCName
  Word = 4
  Times <- MCTimes
  MaxFd = 6
  TopFd = 6
  FdArgs <- AllFds
  MaxEntries = 3
  MaxDesc = 6
  Preopens <- EmptyPreopen
  Files <- FileF
  Pointers <- MCPointers
  DefaultTime = 100
  PathArgs <- JustDot
  OpenFlags <- DirectoryOpen
  RightsArgs <- AllRights
  AppendArgs <- NoFlag
  Offsets <- Nothing
  IoLens <- Nothing
  TimeFlags <- Nothing
PROPERTIES RenumberNeverThrows
CHECK_DEADLOCK FALSE
VIEW StateView
