SPECIFICATION Spec
CONSTANTS
  Kinds = {"exclusive"}
  Alone <- AloneExclusive
  Torn = {}
INVARIANT ExclusiveIsLive
