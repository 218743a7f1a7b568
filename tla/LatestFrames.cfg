\* One hour, nothing fails: one frame more than an answer holds.
CONSTANTS
  a = a
  Clients = {a}
  MaxFrames = 3
  HourOf <- MCOneHour
  ChannelCap = 1
  MaxCrashes = 0
  IoFails = FALSE
  Requests <- MCRequests
  Limit = 2
  StatsFiles = 1
SPECIFICATION QueriesSpec
INVARIANT LatestIsLatest
