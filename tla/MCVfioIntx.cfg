SPECIFICATION Spec
CONSTANTS
  Kinds = {"shared", "exclusive"}
  Alone <- MCAlone
  Torn = {"exclusive"}
INVARIANTS MaskedIsMasked SharedIsLive NotForgotten
PROPERTY ReachesUser
