SPECIFICATION Spec
CONSTANTS
  MaxFlags = 1
  Strings = {"a", "b"}
  Globals <- Command
  Env = "env"
  Unset = Unset
INVARIANTS
  PerImageFlagsOverride
