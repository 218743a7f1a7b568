\* Reports come late, persistence fails, and the output channel runs full: the
\* one state where the threads may stop is named in EngineEnds.
CONSTANTS
  W = 2
  Readings = 3
  Hash <- MCHash
  InboxCap = 1
  OutCap = 1
  MaxWindows = 2
  ReportsLate = TRUE
  PersistFails = TRUE
SPECIFICATION FairSpec
INVARIANTS
  NoPartialFrame
  CleanExitPublishesAll
PROPERTIES
  ImplementsWindows
  EngineEnds
CHECK_DEADLOCK FALSE
