SPECIFICATION FairSpec
CONSTANTS
  MaxClips = 3
  MaxDepth = 1
  Quota = 2
  Faults = {"refused", "spawn"}
INVARIANTS
  TmpOnlyLive
PROPERTIES
  EveryClipArrives
  AtMostOnce
  PrunesOldestFirst
