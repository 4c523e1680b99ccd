SPECIFICATION Spec
CONSTANTS
  p1 = p1
  p2 = p2
  DirNode = DirNode
  Torn = Torn
  Unread = Unread
  None = None
  Layers <- MCLayers
  Label <- MCLabel
  Segment <- MCSegment
  Within <- MCWithin
  Data <- MCData
  Procs = {p1}
  Refs <- AllRefs
  Images <- AllImages
  Served <- AllServed
  Held <- nothing
  MaxRetry = 0
  Exposed <- Steps
  Budget <- Busy
INVARIANTS
  SkipsOnlyDownloaded
