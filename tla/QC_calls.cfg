SPECIFICATION FairSpec
CONSTANTS
  Asked = {"CTL", "NAS"}
  MuxTids = 2
  CtlTids = 2
  Late = 1
  Slices = 2
  MaxCalls = 3
  MaxFaults = 1
INVARIANTS TypeOK NotDangling AbortedForStop ResetsReported
PROPERTIES RpcSpec RpcReturns
