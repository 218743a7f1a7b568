\* Every stage may fail, or not; one sensor that generates more than its ring, the
\* reader's hand and the buffer hold.  The reader that waits on a full buffer nobody
\* empties stops here, and main with it, or the dispatcher on a full channel and the
\* consumer that joins it: see DeadEnd and Wedged.
CONSTANTS
  r1 = r1
  Readers = {r1}
  RingUsable = 1
  Capacity = 1
  OutCap = 1
  MaxMade = 4
  AggregationFails = TRUE
  PersistFails = TRUE
  DrainTimesOut = TRUE
SPECIFICATION AblationFairSpec
INVARIANTS
  ReadingsAccounted
  NothingLeftBehind
  DrainsAStoppedSensor
  CountedIsRead
PROPERTY ShutdownEnds
CHECK_DEADLOCK FALSE
