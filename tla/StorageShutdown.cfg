\* Two callers, either of which may shut the storage down, while file operations
\* fail and the process may die.  The threads end; the properties say which of
\* them may not be left waiting.
CONSTANTS
  a = a
  b = b
  Clients = {a, b}
  MaxFrames = 2
  HourOf <- MCHourOf
  ChannelCap = 1
  MaxCrashes = 1
  IoFails = TRUE
SPECIFICATION FairSpec
INVARIANTS
  OneAnswerEach
  OnlyLateIsDropped
PROPERTY CallsReturn
CHECK_DEADLOCK FALSE
