SPECIFICATION Spec
CONSTANTS
  Foreign = {"other"}
  NotString = NotString
  Catalogs <- MCCatalogs
  Targets <- MCTargets
  Configs <- MCConfigs
INVARIANTS
  OwnDocumentsSurvive
  NameCarriesTarget
  DecodesEncoded
PROPERTIES
  TypeSurvivesResave
