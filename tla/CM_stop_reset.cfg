SPECIFICATION FairSpec
CONSTANTS
  Enabled = {"v4"}
  Addr = {1}
  AllowTime <- Backoff2
  NetHold = 1
  PollTime = 1
  Credentials = FALSE
  InitAuth = 0
  NetAuth = 0
  MayReset = TRUE
  MaySuspend = FALSE
  MaxFaults = 1
PROPERTIES StopExits
