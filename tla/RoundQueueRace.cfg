\* The ring overruns while a read is under way.
CONSTANTS
  Capacity = 4
  MaxWrites = 5
  Overrun = TRUE
SPECIFICATION Spec
INVARIANT NoDataRace
CHECK_DEADLOCK FALSE
