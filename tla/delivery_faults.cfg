SPECIFICATION Spec
CONSTANTS
  MaxClips = 2
  MaxDepth = 1
  Quota = 1
  Faults = {"crash", "stop", "ambiguous", "refused", "unlink", "rename",
            "conversion", "oversize", "spawn", "prolong", "recording"}
INVARIANT
  TypeOK
  NoClipLost
  SingleSender
  LiveFileStays
PROPERTY
  CooldownNeedsReceipt
  QueueIsDurable
  StrandsOnlyLive
  ImplementsOutbox
