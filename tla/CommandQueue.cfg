SPECIFICATION FairQueueSpec
CONSTANTS
  Own <- MCOwn
  Late = "frameproxy"
  Picture = "picture"
  Period <- MCPeriod
  MaxCost = 1
  Limit = 5
  MaxPictures = 2
INVARIANTS QueueInv NoOverflow
PROPERTIES EachRunsForever PictureTaken
CHECK_DEADLOCK FALSE
