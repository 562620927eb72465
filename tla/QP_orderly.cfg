SPECIFICATION FairSpec
CONSTANTS
  Clients = 2
  Ids = 2
  LeaveBusy = FALSE
  Impatient = FALSE
  Faulty = {"device"}
  MaxSync = 1
  MaxAsk = 4
  MaxInd = 0
  MaxFaults = 1
INVARIANTS TypeOK InStep ToAskerOnly IdsKept
PROPERTIES Answered Released
