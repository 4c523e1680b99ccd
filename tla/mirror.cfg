SPECIFICATION AnsweringSpec
CONSTANTS
  NLayers = 3
  MaxRetry = 1
  Size = 2
  Inputs <- Any
  Blank = Blank
INVARIANTS
  TypeOK
  ReportInOrder
PROPERTIES
  KeepsContract
  CopyEnds
