SPECIFICATION Spec
CONSTANTS
  MaxClips = 2
  MaxDepth = 1
  Quota = 2
  Faults = {"refused"}
PROPERTY
  NoLiveSendInCooldown
