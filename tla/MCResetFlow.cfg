SPECIFICATION Spec
CONSTANTS
  gpu = gpu
  audio = audio
  Device = {gpu, audio}
  List <- BothFunctions
  MayKill = TRUE
  MayBoot = TRUE
  Loadable = {"pwplug", "vfio-pci"}
INVARIANTS PowerRestored EarlyExitKeepsDevices HandedBack
PROPERTIES NoHotCut RunEnds CutIsTemporary
