SPECIFICATION Spec
CONSTANTS
  Enabled = {"v4"}
  Addr = {1, 2}
  AllowTime <- Backoff2
  NetHold = 1
  PollTime = 1
  Credentials = FALSE
  InitAuth = 0
  NetAuth = 0
  MayReset = FALSE
  MaySuspend = TRUE
  MaxFaults = 2
INVARIANTS TypeOK PendingRedial Backed
