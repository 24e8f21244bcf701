SPECIFICATION Spec
CONSTANTS
  Threads = {"loop", "motion"}
  Values = {0, 1, 2, 1441}
  MaxTime = 2
  Faults = {"restart", "save", "load", "step"}
INVARIANTS
  TypeOK
  IntervalInRange
  CooldownFollowsDelivery
PROPERTIES
  LoneSavePersists
