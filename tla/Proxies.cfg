SPECIFICATION FairSpec
CONSTANTS
  MbimClients = 3
  Slots = 2
  Tids = 1
  PipeKills = TRUE
  MaxNews = 1
  QrtrClients = 2
  Service = {"nas"}
  Ids = 2
  Byte = 3
  Ports = 4
  MaxRestarts = 1
  MaxAsk = 2
  MaxFaults = 1
  Fds = 3
  AtcAsk = 3
  AtcFaults = 1
INVARIANTS TypeOK MbimToHolder QrtrToHolder AtcInFlight
PROPERTIES Flows Answered
