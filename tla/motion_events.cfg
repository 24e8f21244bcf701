SPECIFICATION Spec
CONSTANTS
  MinFrames = 2
  PreLen = 4
  ClipLen = 3
  MaxFrames = 9
INVARIANTS
  TypeOK
  SeenMotionIsReported
  ClipShowsEvent
PROPERTIES
  OneEventPerEpisode
  EventIsSustained
