SPECIFICATION Spec
CONSTANTS
  Device = {gpu, audio}
  Lock = {l1, l2}
  Resets = TRUE
  MaxUsers = 2
SYMMETRY Interchangeable
INVARIANT UsedIsAwake
