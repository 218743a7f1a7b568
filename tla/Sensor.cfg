\* No read overlaps a write to a full ring; the owner stops and starts the
\* generator anywhere between two reads.
CONSTANTS
  Capacity = 4
  MaxWrites = 5
  Overrun = FALSE
  MaxStarts = 2
SPECIFICATION SensorFairSpec
INVARIANTS
  NoDataRace
  OneWriter
PROPERTIES
  ImplementsQueue
  StoppedCountIsExact
  NewestIsRead
