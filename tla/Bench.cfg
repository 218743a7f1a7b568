\* One sensor, a ring of two.
CONSTANTS
  s1 = s1
  Sensors = {s1}
  RingCap = 2
  Grids <- MCGrids
  MaxMade = 7
SPECIFICATION Spec
INVARIANTS
  RowAddsUp
  OneLeftAtMost
  RoomyIsNeverStuck
PROPERTIES
  ExperimentEnds
CHECK_DEADLOCK FALSE
