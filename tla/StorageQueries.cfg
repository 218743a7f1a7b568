\* File operations fail and the process dies, between any two renames, while
\* requests read the files.
CONSTANTS
  a = a
  Clients = {a}
  MaxFrames = 3
  HourOf <- MCHourOf
  ChannelCap = 1
  MaxCrashes = 1
  IoFails = TRUE
  Requests <- MCRequests
  Limit = 2
  StatsFiles = 1
SPECIFICATION QueriesSpec
INVARIANTS
  HourFilesInOrder
  FilesFollowEachOther
  KnownIsFound
  NoHole
PROPERTY ImplementsLog
