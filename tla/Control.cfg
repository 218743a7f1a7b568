CONSTANTS
  r1 = r1
  Readers = {r1}
  Unit = 4
  Given <- MCGiven
  Default <- MCGiven
  MaxSwitches = 1
  Capacity = 4
  Backlogs = {0, 3, 4}
  Fills = {0, 3}
  ClampFill = 2
  Warning = 3
  Critical = 4
  WarningLimit = 2
SPECIFICATION FairSpec
INVARIANTS
  GovernorsSound
  CommandsAgree
  CommandObeyed
PROPERTIES
  CalmRestores
