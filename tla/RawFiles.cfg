\* Two failures and two restarts: a line may be joined more than once, and left
\* without an end again.  Sensors share nothing here, so one is enough.
CONSTANTS
  thermo = thermo
  Sensors = {thermo}
  Values <- MCValues
  MaxReadings = 4
  MaxFailures = 2
  MaxRestarts = 2
  MaxCount = 4
  Unit = 12
  Inf = 1000
  RawLimit = 2
SPECIFICATION RawSpec
INVARIANTS
  LossIsBounded
  AggregateIsExact
  MergeIsExact
PROPERTY RawIsStable
CHECK_DEADLOCK FALSE
