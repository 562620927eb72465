SPECIFICATION Spec
CONSTANTS
  Enabled = {"v4", "v6"}
  Addr = {1, 2}
  AllowTime <- Backoff1
  NetHold = 1
  PollTime = 1
  Credentials = FALSE
  InitAuth = 0
  NetAuth = 0
  MayReset = FALSE
  MaySuspend = FALSE
  MaxFaults = 1
INVARIANTS Backed
