SPECIFICATION FairSpec
CONSTANTS
  Clients = 2
  Ids = 1
  LeaveBusy = TRUE
  Impatient = TRUE
  Faulty = {"revoke"}
  MaxSync = 1
  MaxAsk = 2
  MaxInd = 0
  MaxFaults = 1
INVARIANTS Moving
PROPERTIES Drains
