SPECIFICATION LSpec
CONSTANTS
  MaxClips = 1
  MaxDepth = 1
  Quota = 1
  MaxStops = 1
  Faults = {"stop"}
PROPERTY
  FailureIsPending
