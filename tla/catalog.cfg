SPECIFICATION Spec
CONSTANTS
  Operators <- Two
  Texts <- AllTexts
  Stripped <- MCStripped
  Tags <- Two
  Levels <- AnyLevel
  Kinds = {"operator", "release"}
  MaxCreates = 1
INVARIANTS
  ListingSaysCatalogue
