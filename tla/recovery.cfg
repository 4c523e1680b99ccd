SPECIFICATION FairSpec
CONSTANTS
  p1 = p1
  p2 = p2
  DirNode = DirNode
  Torn = Torn
  Unread = Unread
  None = None
  Layers <- MCLayers
  Label <- MCLabel
  Segment <- MCSegment
  Within <- MCWithin
  Data <- MCData
  Procs = {p1}
  Refs <- TwinRefs
  Images <- Listable
  Served <- SameServed
  Held <- nothing
  MaxRetry = 1
  Exposed <- OutsideWriting
  Budget <- Rough
PROPERTIES
  RecoversFromCuts
