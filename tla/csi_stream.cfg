SPECIFICATION FairSpec
CONSTANTS
  Chunk = 9
  Lengths = {4, 5, 7}
  MaxBytes = 27
INVARIANTS
  TypeOK
  WholeFrames
  OnlySplitMarkersLost
  NothingWaits
  ClosedHoldsNothing
PROPERTIES
  EveryTurnCounts
  ReadReturns
