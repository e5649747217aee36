SPECIFICATION Spec
CONSTANTS
  Name <- MCName
  Word = 6
  Times <- MCTimes
  MaxFd = 5
  TopFd = 5
  FdArgs <- OneGuest
  MaxEntries = 4
  MaxDesc = 5
  Preopens <- EmptyPreopen
  Files <- FilesBoth
  Pointers <- MCPointers
  DefaultTime = 100
  PathArgs <- SlashNames
  OpenFlags <- AllOpens
  RightsArgs <- AllRights
  AppendArgs <- BothFlags
  Offsets <- Sizes
  IoLens <- Lens
  TimeFlags <- MCTimeFlags
INVARIANTS EntriesAreFiles ViewIsFile OnlyTruncationPending
CHECK_DEADLOCK FALSE
VIEW StateView
