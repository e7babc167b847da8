SPECIFICATION Spec
CONSTANTS
  Fds = {a, b}
  None = None
  Irqs = 3
INVARIANTS Balanced HandlersHeld HandlersMatch FreedLast FailedSetsNothing
PROPERTY CallEnds
