SPECIFICATION FairSpec
CONSTANTS
  Enabled = {"v4"}
  Addr = {1, 2}
  AllowTime <- Backoff2
  NetHold = 1
  PollTime = 1
  Credentials = TRUE
  InitAuth = 2
  NetAuth = 1
  MayReset = TRUE
  MaySuspend = TRUE
  MaxFaults = 1
INVARIANTS SessionsApart
PROPERTIES Reconnects AddressConverges StopExitsUnlessReset ResetRestarts
