SPECIFICATION Spec
CONSTANTS
  Fds = {a, b}
  None = None
  Irqs = 1
INVARIANT RelaysToUser
