SPECIFICATION Spec
CONSTANTS
  Threads = {"loop", "motion"}
  Values = {1, 3, 1441}
  MaxTime = 3
  Faults = {}
INVARIANTS
  RestartLosesNothing
