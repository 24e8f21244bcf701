SPECIFICATION LFairSpec
CONSTANTS
  MaxClips = 2
  MaxDepth = 1
  Quota = 2
  MaxStops = 2
  Faults = {"stop", "refused", "recording"}
INVARIANTS
  LTypeOK
  OneLateRecording
PROPERTIES
  StopEndsDrain
  StrandedAtExit
  StopEnds
  PendingArrives
  ImplementsDelivery
