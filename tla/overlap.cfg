SPECIFICATION Spec
CONSTANTS
  p1 = p1
  p2 = p2
  DirNode = DirNode
  Torn = Torn
  Unread = Unread
  None = None
  Layers <- MCLayers
  Label <- MCLabel
  Segment <- MCSegment
  Within <- MCWithin
  Data <- MCData
  Procs = {p1, p2}
  Refs <- TwinRefs
  Images <- TwinImages
  Served <- TwinServed
  Held <- nothing
  MaxRetry = 1
  Exposed <- Steps
  Budget <- Overlap
INVARIANTS
  TypeOK
  IndexClosed
  Provenance
