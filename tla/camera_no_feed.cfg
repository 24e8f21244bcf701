SPECIFICATION FairSpec
CONSTANTS
  Deployments = {TRUE}
  MaxCommands = 1
  MaxRestarts = 1
PROPERTIES
  FeedReturns
