SPECIFICATION FwSpec
CONSTANTS
  Servers = {s1}
  MaxFwRequests = 3
  MaxActive = 2
  Bounds = 2
  MaxClock = 2
  NoLog = NoLog
  FwProfiles <- MCDelays
  FwConf <- MCFwConf
INVARIANT ServersStayUp
CHECK_DEADLOCK FALSE
