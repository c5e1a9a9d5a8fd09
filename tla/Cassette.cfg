CONSTANTS
  None = None
  Stages = 2
  HeaderLen = 2
  MaxFrame = 8
  MinFrame = 3
  Shots <- MCShots
  MaxCommands = 3
  Frames = 2
  Extras = 1
SPECIFICATION Spec
INVARIANTS FrameWhole RecordReplays ImportAgrees
PROPERTIES FreshUnlessCut
