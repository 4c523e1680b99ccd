SPECIFICATION Spec
CONSTANTS
  NLayers = 2
  MaxRetry = 0
  Size = 3
  Inputs <- Racing
  Blank = Blank
INVARIANTS
  EachBlobReported
