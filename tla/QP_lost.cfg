SPECIFICATION FairSpec
CONSTANTS
  Clients = 2
  Ids = 2
  LeaveBusy = FALSE
  Impatient = FALSE
  Faulty = {"answer"}
  MaxSync = 1
  MaxAsk = 3
  MaxInd = 1
  MaxFaults = 1
PROPERTIES ServiceFlows
