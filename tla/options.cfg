SPECIFICATION Spec
CONSTANTS
  MaxFlags = 2
  Strings = {"a", "b"}
  Globals <- Callers
  Env = "env"
  Unset = Unset
INVARIANTS
  CopyFollowsFlags
