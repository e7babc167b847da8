SPECIFICATION Spec
CONSTANTS
  Kinds = {"shared"}
  Alone <- AloneShared
  Torn = {"shared"}
INVARIANT FlagIsBit
