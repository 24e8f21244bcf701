SPECIFICATION Spec
CONSTANTS
  Deployments = {TRUE}
  MaxCommands = 2
  MaxRestarts = 2
INVARIANTS
  DeviceExclusive
