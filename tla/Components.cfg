SPECIFICATION FairSpec
CONSTANTS
  Tries = 2
  MaxCommands = 3
  MaxData = 1
  MaxUrc = 1
  MaxSessions = 1
  Cmti = FALSE
  Addr = {1, 2}
  Odd = 9
  Opens = 2
  Wrap = 2
  Late = 1
  Slices = 2
  MaxCalls = 4
  Most = 2
  Digits <- HomeDigits
  MaxStarts = 2
  MaxProfiles = 2
  MaxResets = 1
  MaxDns = 4
  MaxLinks = 3
  Misses = 3
  Longest = 2
  Downloads = 2
  Commands = 1
  Cap = 2
  Retries = 1
  Reads = 3
  LineFaults = 2
  MaxChanges = 1
  MaxFaults = 1
INVARIANTS
  TypeOK AtSafe MbimSafe QmiSafe ModemSafe OtaSafe Kept
PROPERTIES
  Steps Connects Ends
CHECK_DEADLOCK FALSE
