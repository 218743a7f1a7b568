\* The aggregation engine fails closed; its channel has room for every frame of the
\* run, so that only a full buffer can hold a thread up.
CONSTANTS
  r1 = r1
  r2 = r2
  Readers = {r1, r2}
  RingUsable = 1
  Capacity = 1
  OutCap = 2
  MaxMade = 2
  AggregationFails = TRUE
  PersistFails = FALSE
  DrainTimesOut = FALSE
SPECIFICATION FairSpec
PROPERTIES
  ShutdownCompletes
CHECK_DEADLOCK FALSE
