SPECIFICATION FairSpec
CONSTANTS
  Deployments = {TRUE, FALSE}
  MaxCommands = 2
  MaxRestarts = 2
INVARIANTS
  TypeOK
  ExclusiveWhereFileStays
  LockedWhileOpen
  IdleHoldsNothing
PROPERTIES
  PipelineRecovers
