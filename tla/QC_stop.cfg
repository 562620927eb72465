SPECIFICATION Spec
CONSTANTS
  Asked = {"CTL", "NAS"}
  MuxTids = 2
  CtlTids = 2
  Late = 1
  Slices = 2
  MaxCalls = 3
  MaxFaults = 1
INVARIANTS StopReachesWait
